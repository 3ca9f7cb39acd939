SPECIFICATION FairSpec
CONSTANTS
    NickCount = 4
    InUse <- MCFirstInUse
    ChannelCount = 1
    HasPassword = TRUE
    MaxPings = 2
    MaxChats = 1
    MaxStalls = 1
    MaxCloses = 1
    MaxOutgoing = 1
    MaxExits = 1
INVARIANTS
    TypeOK
    NickAgrees
    StaysInRange
PROPERTIES
    Registers
    PingsAnswered
    MessagesReported
\* The program may end with an access out of range.
CHECK_DEADLOCK FALSE
