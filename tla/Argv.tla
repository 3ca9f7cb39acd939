-------------------------------- MODULE Argv ---------------------------------
(***************************************************************************)
(* john::make_argv: the tokenizer that turns what follows "!j" in a chat   *)
(* message into the arguments of a command.  It is a table of transitions  *)
(* that is walked one character at a time; a row may ask to see the same   *)
(* character again (m_consume = false), and a state without a row ends the *)
(* program (std::terminate).                                               *)
(*                                                                         *)
(* Characters are the ones the table and the escapes tell apart, and       *)
(* Letters for all the others.                                             *)
(***************************************************************************)
EXTENDS Naturals, Sequences, SequencesExt

CONSTANTS
    Letters,    \* characters with no meaning of their own
    Inputs,     \* the strings to split
    Arguments   \* lists of arguments that are written in quotes

Space     == " "
Tab       == "\t"
Newline   == "\n"
Nul       == "\\0"
Quote     == "\""
Apostrophe == "'"
Backslash == "\\"
LetterT   == "t"        \* Backslash LetterT stands for Tab
LetterN   == "n"        \* Backslash LetterN stands for Newline

Chars == Letters \cup {Space, Tab, Newline, Nul, Quote, Apostrophe, Backslash,
                       LetterT, LetterN}

ASSUME LettersAssumption ==
    Letters \cap {Space, Tab, Newline, Nul, Quote, Apostrophe, Backslash} = {}
ASSUME InputsAssumption == Inputs \subseteq Seq(Chars)
ASSUME ArgumentsAssumption == \A args \in Arguments : args \in Seq(Seq(Chars \ {Nul}))

VARIABLES
    str,        \* the argument
    pos,        \* i + 1: the position of the character to look at
    state,      \* the state of the walk through the table
    token,      \* current_token
    argv,       \* ret
    consume,    \* what process_char returned last
    outcome     \* whether the call is running, has returned or has terminated

vars == <<str, pos, state, token, argv, consume, outcome>>

Init ==
    /\ str \in Inputs
    /\ pos = 1
    /\ state = "waiting_for_start"
    /\ token = <<>>
    /\ argv = <<>>
    /\ consume = TRUE
    /\ outcome = "running"

-----------------------------------------------------------------------------
\* The table.  A row: what is pushed, the next state, and the two flags.

Row(push, transition, consumed, finish) ==
    [push |-> push, transition |-> transition, consume |-> consumed, finish |-> finish]

Skip(transition) == Row("ignore_char", transition, TRUE, FALSE)
Again(transition) == Row("ignore_char", transition, FALSE, FALSE)
Finish == Row("ignore_char", "waiting_for_start", FALSE, TRUE)

\* The two kinds of quotes are mixed up.
WaitingForStartSwapped(c) ==
    CASE c \in {Space, Tab} -> Skip("waiting_for_start")
      [] c = Quote          -> Skip("reading_string_typ_1")
      [] c = Apostrophe     -> Skip("reading_string_typ_0")
      [] c = Nul            -> Again("waiting_for_start")
      [] OTHER              -> Again("reading_plain")

WaitingForStart(c) ==
    CASE c \in {Space, Tab} -> Skip("waiting_for_start")
      [] c = Quote          -> Skip("reading_string_typ_0")
      [] c = Apostrophe     -> Skip("reading_string_typ_1")
      [] c = Nul            -> Again("waiting_for_start")
      [] OTHER              -> Again("reading_plain")

ReadingPlain(c) ==
    CASE c = Backslash      -> Skip("reading_plain_esc")
      [] c \in {Space, Nul} -> Finish
      [] OTHER              -> Row("push_char", "reading_plain", TRUE, FALSE)

ReadingString(c) ==
    CASE c = Backslash      -> Skip("reading_string_typ_0_esc")
      [] c = Quote          -> Skip("reading_string_typ_0_end")
      [] c = Nul            -> Finish
      [] OTHER              -> Row("push_char", "reading_string_typ_0", TRUE, FALSE)

\* After a backslash, in either kind of token.
Escaped(c, transition) ==
    IF c = Nul THEN Finish ELSE Row("push_escaped_char", transition, TRUE, FALSE)

\* The rows for the blanks are missing: the next state ends the token.
StringEndFallsThrough(c) ==
    IF c = Nul THEN Finish ELSE Again("reading_plain")

\* What follows the closing quote belongs to the same argument.
StringEnd(c) ==
    IF c \in {Space, Tab, Nul} THEN Finish ELSE Again("reading_plain")

\* The row for the state and the character.
Transition(c) ==
    CASE state = "waiting_for_start"        -> WaitingForStart(c)
      [] state = "reading_plain"            -> ReadingPlain(c)
      [] state = "reading_plain_esc"        -> Escaped(c, "reading_plain")
      [] state = "reading_string_typ_0"     -> ReadingString(c)
      [] state = "reading_string_typ_0_esc" -> Escaped(c, "reading_string_typ_0")
      [] state = "reading_string_typ_0_end" -> StringEnd(c)

\* The states of strings in apostrophes are declared and have no rows.
HasRow == state # "reading_string_typ_1"

\* The escapes are not looked up.
DoNotEscape(c) == c

DoEscape(c) == IF c = LetterT THEN Tab ELSE IF c = LetterN THEN Newline ELSE c

-----------------------------------------------------------------------------
\* process_char

Pushed(row, c) ==
    CASE row.push = "ignore_char"       -> token
      [] row.push = "push_char"         -> Append(token, c)
      [] row.push = "push_escaped_char" -> Append(token, DoEscape(c))

ProcessChar(c) ==
    LET row == Transition(c) IN
    /\ IF row.finish
       THEN argv' = Append(argv, Pushed(row, c)) /\ token' = <<>>
       ELSE argv' = argv /\ token' = Pushed(row, c)
    /\ state' = row.transition
    /\ consume' = row.consume

\* The index is decremented and not incremented when a character is kept.
ReadCharBack ==
    /\ outcome = "running" /\ HasRow
    /\ pos <= Len(str)
    /\ ProcessChar(str[pos])
    /\ pos' = IF consume' THEN pos + 1 ELSE pos - 1
    /\ UNCHANGED <<str, outcome>>

\* The loop over the string.
ReadChar ==
    /\ outcome = "running" /\ HasRow
    /\ pos <= Len(str)
    /\ ProcessChar(str[pos])
    /\ pos' = IF consume' THEN pos + 1 ELSE pos
    /\ UNCHANGED <<str, outcome>>

\* The call after the loop, which looks at no further character.
Return ==
    /\ outcome = "running" /\ HasRow
    /\ pos > Len(str)
    /\ ProcessChar(Nul)
    /\ outcome' = "returned"
    /\ UNCHANGED <<str, pos>>

Terminate ==
    /\ outcome = "running" /\ ~HasRow
    /\ outcome' = "terminated"
    /\ UNCHANGED <<str, pos, state, token, argv, consume>>

Next == ReadChar \/ Return \/ Terminate

Spec == Init /\ [][Next]_vars

-----------------------------------------------------------------------------
States ==
    {"waiting_for_start", "reading_plain", "reading_plain_esc", "reading_string_typ_0",
     "reading_string_typ_0_esc", "reading_string_typ_0_end", "reading_string_typ_1"}

TypeOK ==
    /\ str \in Seq(Chars)
    /\ pos \in 1..(Len(str) + 1)
    /\ state \in States
    /\ token \in Seq(Chars)
    /\ argv \in Seq(Seq(Chars))
    /\ consume \in BOOLEAN
    /\ outcome \in {"running", "returned", "terminated"}

\* The characters of s.
CharsOf(s) == {s[i] : i \in 1..Len(s)}

\* What is in the token when the walk is between two tokens (waiting_for_start)
\* would become part of the next argument: nothing is.
NothingLeftOver == state = "waiting_for_start" => token = <<>>

\* No character is looked at more than twice: the row that asks to see it again
\* leads to a state that consumes it.  A string without NUL is split in at most
\* twice as many steps as it has characters, whatever quotes and escapes it has.  A
\* NUL in it, which no row outside of a token consumes, is looked at for ever.
SeenAtMostTwice ==
    [][Nul \notin CharsOf(str) /\ ~consume => consume' \/ outcome' # "running"]_vars

\* Strings without an apostrophe are always split.  The row for an apostrophe at the
\* start of an argument leads to reading_string_typ_1, which has no rows, so that
\* !j 'a' ends the program; no string without one meets a missing row (argv.cpp:88-90).
AlwaysReturns ==
    Apostrophe \notin CharsOf(str) => outcome # "terminated"

-----------------------------------------------------------------------------
\* How an argument is written so that make_argv reads it back: in quotes, with
\* a backslash before quotes and backslashes, and tabs by their escape.
Written(c) ==
    CASE c \in {Quote, Backslash} -> <<Backslash, c>>
      [] c = Tab                  -> <<Backslash, LetterT>>
      [] OTHER                    -> <<c>>

Quoted(arg) == <<Quote>> \o FlattenSeq([k \in DOMAIN arg |-> Written(arg[k])]) \o <<Quote>>

CommandLine(args) ==
    FlattenSeq([k \in DOMAIN args |->
        (IF k = 1 THEN <<>> ELSE <<Space>>) \o Quoted(args[k])])

CommandLines == [args \in Arguments |-> CommandLine(args)]

\* Every list of arguments can be written: quoted, it is what make_argv returns.
QuotingRoundTrips ==
    outcome = "returned" =>
        \A args \in Arguments : str = CommandLines[args] => argv = args

\* The words of a string of letters and blanks: the maximal runs without one.
WordStarts(s) ==
    {k \in DOMAIN s : s[k] # Space /\ (k = 1 \/ s[k - 1] = Space)}

WordAt(s, k) == SubSeq(s, k, Min({j \in k..Len(s) : j = Len(s) \/ s[j + 1] = Space}))

Split(s) ==
    FlattenSeq([k \in DOMAIN s |-> IF k \in WordStarts(s) THEN <<WordAt(s, k)>> ELSE <<>>])

\* Without quotes and escapes make_argv is the split at blanks.
PlainWordsAreSplit ==
    outcome = "returned" /\ CharsOf(str) \subseteq Letters \cup {Space} => argv = Split(str)

\* make_argv against both reference definitions.
SplitsAsMeant == QuotingRoundTrips /\ PlainWordsAreSplit

=============================================================================
