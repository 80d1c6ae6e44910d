CONSTANTS
    None = None
    Units = {u1, u2}
    Partitions = 1
    MaxPolls = 1
    MaxFlashes = 2
    MaxValidations = 2
    MaxJobs = 2
    MaxMishaps = 2
SPECIFICATION FairSpec
INVARIANTS
    RecordIsTrue
    TransportIsClosed
PROPERTIES
    UpdatesEnd
    LeaseEnds
