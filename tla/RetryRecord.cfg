SPECIFICATION Spec
CONSTANTS
    Ops = {o1, o2}
    Devices = {d1, d2}
    MaxUid = 3
    None = None
SYMMETRY Symmetric
INVARIANTS
    TypeOK
    OpenIsRecorded
    QuietInFlight
    OneOpenTransfer
CHECK_DEADLOCK FALSE
