-------------------------------- MODULE AddMap --------------------------------
(***************************************************************************)
(* The identifiers of chats on their way through an addmap: a client makes *)
(* them, a user writes their texts in quotes, make_argv undoes the quotes, *)
(* the table holds the texts, and the relay compares one with the text of  *)
(* a sender's chat and reads the target back from the other.               *)
(***************************************************************************)
EXTENDS Argv, MiniKv

CONSTANTS
    Ident,          \* the key of the client in an identifier, "ident"
    Clients,        \* their names, irc_1 or telegram_1
    ChatKeys,       \* the keys of chats, "target" or "id"
    Names,          \* names of chats, which others choose
    CommandName,    \* "addmap"
    Mappings        \* pairs of chats, from one to another

\* The client and, under a second key, the chat.
ChatIdentifier(client, key, chat) ==
    PushBack(PushBack(NoPairs, Ident, client), key, chat)

Chats == {ChatIdentifier(client, key, name) :
            client \in Clients, key \in ChatKeys, name \in Names}

\* What a user writes to map one chat to another: the texts of both, quoted.
AddMapArguments(from, to) == <<CommandName, Serialize(from), Serialize(to)>>

AddMapLines ==
    [mapping \in Mappings |-> CommandLine(AddMapArguments(mapping[1], mapping[2]))]

\* Neither the names of clients, irc_ or telegram_ with a number (main.cpp:66 and 112),
\* nor the keys have characters that are escaped.
Clean == Chars \ {KeyEnd, PairEnd, EscapeMark, Nul}

ASSUME SeparatorsAssumption == {KeyEnd, PairEnd} \subseteq Letters
ASSUME NamesAssumption ==
    /\ Ident \in Seq(Clean) /\ Clients \subseteq Seq(Clean)
    /\ ChatKeys \subseteq Seq(Clean) \ {Ident}
    /\ Names \subseteq Seq(Chars \ {Nul})
ASSUME CommandNameAssumption == CommandName \in Seq(Clean)
ASSUME MappingsAssumption == Mappings \subseteq Chats \X Chats

-----------------------------------------------------------------------------
\* The target the relay reads back from the table: the client as it was, the chat
\* with the escapes of its text.
TargetOf(to) == ChatIdentifier(to[1][2], to[2][1], EscapedCopy(to[2][2]))

\* A mapping that is added by its quoted texts applies to the messages of the chat
\* it names and of no other (from_kv is compared with the text of an identifier,
\* display names by operator==), and the relay sends to the client it names, to the
\* very chat when its name has no colon, semicolon or backslash.
MappingsReachTheirChats ==
    outcome = "returned" =>
        \A mapping \in Mappings : str = AddMapLines[mapping] =>
            /\ Len(argv) = 3
            /\ \A chat \in Chats :
                  (Serialize(chat) = argv[2]) <=> Equal(chat, mapping[1])
            /\ Equal(Deserialize(argv[3]), TargetOf(mapping[2]))
            /\ Equal(TargetOf(mapping[2]), Deserialize(argv[3]))

=============================================================================
