------------------------------- MODULE MCArgv --------------------------------
(***************************************************************************)
(* make_argv on every short string, on what a user who quotes the          *)
(* arguments has to write, and on mappings between chats whose names hold  *)
(* the characters that are escaped.                                        *)
(***************************************************************************)
EXTENDS AddMap

CONSTANT MaxLength     \* the longest string that is split

MCLetters == {"a", LetterT, KeyEnd, PairEnd}

MCChars == {"a", LetterT, Space, Tab, Quote, Apostrophe, Backslash}

\* Every string, with a NUL only in the shorter ones.
MCInputs == SeqOf(MCChars, MaxLength) \cup SeqOf({"a", Space, Quote, Backslash, Nul}, 3)

\* Lists of arguments that a user writes in quotes.
MCArguments == SeqOf(SeqOf({"a", Space, Tab, Quote, Backslash, Apostrophe}, 2), 2)

MCIdent    == <<LetterT>>
MCClients  == {<<"a">>, <<LetterT>>}
MCChatKeys == {<<"a">>, <<"a", LetterT>>}
MCNames    == SeqOf({"a", KeyEnd, PairEnd, EscapeMark}, 2)
MCCommandName == <<"a">>

MCHome == ChatIdentifier(<<"a">>, <<"a">>, <<"a">>)

MCMappings == ({MCHome} \X Chats) \cup (Chats \X {MCHome})

MCAllInputs ==
    MCInputs \cup {CommandLine(args) : args \in MCArguments}
    \cup {CommandLine(AddMapArguments(mapping[1], mapping[2])) : mapping \in MCMappings}

=============================================================================
