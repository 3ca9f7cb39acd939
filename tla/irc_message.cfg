SPECIFICATION Spec
CONSTANTS
    Characters <- MCCharacters
    None = None
    Messages <- MCMessages
    ServerMessages <- MCServerMessages
    Limit = 16
    SizeMax = 64
    MaxLines = 6
    MaxText = 5
INVARIANTS
    TypeOK
    LinesFit
    TextIsKept
    EveryLineAdvances
    ReadInOrder
    MessagesAreRead
\* Everything is read in the end.
CHECK_DEADLOCK FALSE
