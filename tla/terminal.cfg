SPECIFICATION FairSpec
CONSTANTS
    Connections <- MCConnections
    Capacity = 1
    HeaderSize = 2
    Contents <- MCContents
    WireSize = 3
    MaxStarts = 1
INVARIANTS
    TypeOK
    ShownInOrder
PROPERTIES
    AcceptedIsShown
    Connects
    InterruptEnds
\* The sink exits.
CHECK_DEADLOCK FALSE
