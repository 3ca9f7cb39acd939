SPECIFICATION FairSpec
CONSTANTS
    c1 = c1  c2 = c2  x = x  y = y  op = op  regular = regular
    Clients = {c1, c2}
    SetupOrder <- MCSetupTwo
    Chats = {x, y}
    Users = {op, regular}
    Addressees <- MCBroadcast
    Words <- MCWords
    UserLevel <- MCUserLevel
    Traffic <- MCTrafficProgress
    InitialMappings <- MCMapping
    SqlMayFail = TRUE
    Quitters = {c1, c2}
    Capacity = 2
    MaxSerial = 5
PROPERTIES
    MessagesAreHandled
    EveryThingIsAdded
    CommandsAreAnswered
    ExitEndsTheLoop
    ExitCompletes
\* The loop can wait for room in its own queue (run self_deadlock).
CHECK_DEADLOCK FALSE
