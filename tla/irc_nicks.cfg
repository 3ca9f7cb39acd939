SPECIFICATION Spec
CONSTANTS
    NickCount = 2
    InUse <- MCBothInUse
    ChannelCount = 1
    HasPassword = FALSE
    MaxPings = 0
    MaxChats = 0
    MaxStalls = 0
    MaxCloses = 0
    MaxOutgoing = 0
    MaxExits = 0
INVARIANTS
    GivesUp
\* The program may end with an access out of range.
CHECK_DEADLOCK FALSE
