SPECIFICATION FairSpec
CONSTANTS
    Kinds = {"message", "other"}
    Limit = 2
    Builds <- MCGoodBuild
    MaxUpdates = 2
    MaxFailures = 0
    MaxSends = 0
PROPERTIES
    Recovers
\* The worker sleeps and starts anew for ever: that is what the run shows.
CHECK_DEADLOCK FALSE
