SPECIFICATION Spec
CONSTANTS
    Letters <- MCLetters
    Inputs <- MCAllInputs
    Arguments <- MCArguments
    Ident <- MCIdent
    Clients <- MCClients
    ChatKeys <- MCChatKeys
    Names <- MCNames
    CommandName <- MCCommandName
    Mappings <- MCMappings
    MaxLength = 4
INVARIANTS
    TypeOK
    SplitsAsMeant
    MappingsReachTheirChats
    AlwaysReturns
PROPERTIES
    SeenAtMostTwice
\* The call returns.
CHECK_DEADLOCK FALSE
