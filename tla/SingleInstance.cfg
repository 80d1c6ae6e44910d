SPECIFICATION Spec
CONSTANTS
    Launchers = {l1, l2, l3}
    PreLease = {q1}
    NoOne = NoOne
    MaxCrashes = 2
    MaxFaults = 1
SYMMETRY Symmetry
CHECK_DEADLOCK FALSE
INVARIANTS
    OneInstance
    RefusalIsExplained
