SPECIFICATION Spec
CONSTANTS
    o1 = o1
    o2 = o2
    d1 = d1
    d2 = d2
    Ops = {o1, o2}
    None = None
    Devices = {d1}
    MaxUid = 2
    CatalogDevices = {d1}
    AllowShadowLoss = TRUE
    MaxFaults = 0
    MaxCrashes = 1
    MaxPlugs = 1
    MaxForgets = 0
CHECK_DEADLOCK FALSE
INVARIANTS
    TransferIsAdmitted
    NoTransferIntoTaintedSession
    NoBlindResend
    SucceededIsStored
PROPERTIES
    ForegroundEnds
