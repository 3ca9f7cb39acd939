SPECIFICATION FairSpec
CONSTANTS
    c1 = c1  c2 = c2  x = x  y = y  op = op  regular = regular
    Clients = {c1}
    SetupOrder <- MCSetup
    Chats = {x, y}
    Users = {op, regular}
    Addressees <- MCBroadcast
    Words <- MCWords
    UserLevel <- MCUserLevel
    Traffic <- MCTrafficChat
    InitialMappings <- MCMapping
    SqlMayFail = FALSE
    Quitters = {}
    Capacity = 2
    MaxSerial = 7
PROPERTIES
    QueueMessageReturns
\* The loop waits for itself: that is what the run shows.
CHECK_DEADLOCK FALSE
