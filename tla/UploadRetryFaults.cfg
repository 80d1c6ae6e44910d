SPECIFICATION Spec
CONSTANTS
    o1 = o1
    o2 = o2
    d1 = d1
    d2 = d2
    Ops = {o1, o2}
    None = None
    Devices = {d1, d2}
    MaxUid = 2
    CatalogDevices = {d1}
    AllowShadowLoss = FALSE
    MaxFaults = 2
    MaxCrashes = 0
    MaxPlugs = 1
    MaxForgets = 1
SYMMETRY Symmetric
CHECK_DEADLOCK FALSE
INVARIANTS
    RetryIsDurable
PROPERTIES
    CandidateIsNotLost
