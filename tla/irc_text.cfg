SPECIFICATION Spec
CONSTANTS
    Characters <- MCCharacters
    None = None
    Messages <- MCPlainMessages
    ServerMessages = {}
    Limit = 16
    SizeMax = 64
    MaxLines = 6
    MaxText = 2
INVARIANTS
    TextIsRead
\* Everything is read in the end.
CHECK_DEADLOCK FALSE
