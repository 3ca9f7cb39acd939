SPECIFICATION FairSpec
CONSTANTS
    Kinds = {"message", "unsigned", "fatal", "edited", "other"}
    Limit = 2
    Builds <- MCAllBuilds
    MaxUpdates = 3
    MaxFailures = 1
    MaxSends = 1
INVARIANTS
    TypeOK
    ReportedInOrder
    NoneLost
PROPERTIES
    UpdatesAreReported
    DiscardedForGood
\* The program may end with an assertion or a read out of range.
CHECK_DEADLOCK FALSE
