SPECIFICATION FairSpec
CONSTANTS
    c1 = c1  c2 = c2  x = x  y = y  op = op  regular = regular
    Clients = {c1}
    SetupOrder <- MCSetup
    Chats = {x, y}
    Users = {op, regular}
    Addressees <- MCBroadcast
    Words <- MCWords
    UserLevel <- MCUserLevel
    Traffic <- MCTrafficExit
    InitialMappings <- MCNoMappings
    SqlMayFail = FALSE
    Quitters = {}
    Capacity = 4
    MaxSerial = 6
PROPERTIES
    ExitIsClean
\* The join never ends: that is what the run shows.
CHECK_DEADLOCK FALSE
