SPECIFICATION Spec
CONSTANTS
    c1 = c1  c2 = c2  x = x  y = y  op = op  regular = regular
    Clients = {c1, c2}
    SetupOrder <- MCSetup
    Chats = {x, y}
    Users = {op, regular}
    Addressees <- MCAnybody
    Words <- MCWords
    UserLevel <- MCUserLevel
    Traffic <- MCTrafficAll
    InitialMappings <- MCNoMappings
    SqlMayFail = TRUE
    Quitters = {c1}
    Capacity = 2
    MaxSerial = 5
INVARIANTS
    TypeOK
    NobodyWaitsInVain
    OneReplyPerMessage
    DrainedBeforeJoin
    NoWorkerOutlivesBot
PROPERTIES
    BusSpec
    OnlyOperatorsMap
\* The loop can wait for room in its own queue (run self_deadlock).
CHECK_DEADLOCK FALSE
