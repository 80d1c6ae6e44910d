CONSTANTS
    Submissions = {d1}
    Other = other
    None = none
    MaxLosses = 1
    MaxTroubles = 1
SPECIFICATION Spec
CHECK_DEADLOCK FALSE
INVARIANTS
    ViewIsCurrent
    SuccessIsReported
    OutcomeIsTrue
