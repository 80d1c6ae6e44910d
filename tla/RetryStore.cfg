SPECIFICATION Spec
CONSTANTS
    Ops = {o1, o2}
    Devices = {d1, d2}
    MaxUid = 3
    None = None
CHECK_DEADLOCK FALSE
INVARIANTS
    StoreIsSound
    OneFaultRecovers
PROPERTIES
    RefinesRecord
    RecoveryEnds
