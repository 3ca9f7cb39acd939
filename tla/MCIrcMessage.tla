----------------------------- MODULE MCIrcMessage -----------------------------
(***************************************************************************)
(* Small instances of IrcMessage for TLC: every form of a message, with    *)
(* lines of sixteen characters.                                            *)
(***************************************************************************)
EXTENDS IrcMessage

CONSTANT MaxText    \* the longest text

MCCharacters ==
    {"a", "b", "C", "P", "p", "q", "n", "u", "h", Blank, Colon, "!", "@", "\r", Linefeed}

MCLetters == {"a", "b", Blank, Colon, Linefeed}

Forms(command, params, trailings) ==
    [name : {None}, user : {None}, host : {None},
     command : {command}, params : params, trailing : trailings]
    \cup
    [name : {<<"n">>}, user : {<<"u">>, None}, host : {<<"h">>, None},
     command : {command}, params : params, trailing : trailings]

Letters(n) == [k \in 1..n |-> "p"]

\* Of the lines for a parameter of eight characters three are left for the text, of
\* those for a parameter of eleven none, and one of twelve is one too long.
MCMessages ==
    Forms(<<"C">>, {<<>>, <<<<"p">>>>}, SeqOf(MCLetters, 2) \cup {None})
    \cup {m \in Forms(<<"C">>, {<<Letters(8)>>}, SeqOf(MCLetters, MaxText)) : m.name = None}
    \cup {m \in Forms(<<"C">>, {<<Letters(11)>>, <<Letters(12)>>}, {<<"a">>}) : m.name = None}

\* A text of a few words.
MCPlainMessages ==
    {m \in Forms(<<"P">>, {<<<<"p">>>>}, SeqOf({"a", Blank}, MaxText)) : m.name = None}

\* Empty lines and such with a prefix alone, and a parameter with a colon are among them.
MCServerMessages ==
    Forms(<<"C">>, {<<>>, <<<<"p">>>>, <<<<"p">>, <<"q">>>>},
          {None, <<>>, <<"a">>, <<"a", Blank, Colon>>})
    \cup Forms(<<>>, {<<>>}, {None})
    \cup Forms(<<"C">>, {<<<<"p", Colon, "q">>>>}, {<<"a">>})

=============================================================================
