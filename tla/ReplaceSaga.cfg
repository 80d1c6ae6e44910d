CONSTANTS
    None = None
    MaxFaults = 1
    MaxCrashes = 2
    MaxUnplugs = 1
SPECIFICATION FairSpec
CHECK_DEADLOCK FALSE
INVARIANTS
    RecordsKnow
    NothingRepeated
    VerdictIsTrue
PROPERTIES
    SentSafely
    RemovedIsSettled
