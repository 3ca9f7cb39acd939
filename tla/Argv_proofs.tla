----------------------------- MODULE Argv_proofs -----------------------------
(***************************************************************************)
(* What holds of make_argv for every set of strings: it never leaves the   *)
(* types, it carries nothing from one argument into the next, it looks at  *)
(* no character more than twice, std::terminate is out of reach of a       *)
(* string without an apostrophe, and what it returns is what its two       *)
(* references say: the words, or the arguments that were quoted.  With     *)
(* that, an addmap between any two chats maps the one to the other: their  *)
(* identifiers come through quotes, text, comparison and reading back.     *)
(***************************************************************************)
EXTENDS AddMap, SequenceFacts_proofs, FiniteSetTheorems

Rows == [push : {"ignore_char", "push_char", "push_escaped_char"},
         transition : States, consume : BOOLEAN, finish : BOOLEAN]

\* The character at pos, looked at again, is consumed by the row of the state.
WillConsume ==
    /\ pos <= Len(str)
    /\ \/ state = "waiting_for_start" /\ str[pos] \in {Space, Tab}
       \/ state = "reading_plain" /\ str[pos] # Space

IInv ==
    /\ TypeOK
    /\ NothingLeftOver
    /\ state = "reading_string_typ_1" => Apostrophe \in CharsOf(str)
    /\ outcome = "terminated" => state = "reading_string_typ_1"
    /\ outcome = "running" /\ ~consume /\ Nul \notin CharsOf(str) => WillConsume

\* What the table says, as far as the invariant needs it.
LEMMA TableFacts ==
    ASSUME state \in States, HasRow, NEW c \in Chars
    PROVE  /\ Transition(c) \in Rows
           /\ Transition(c).transition = "waiting_for_start" =>
                \/ Transition(c).finish
                \/ state = "waiting_for_start" /\ Transition(c).push = "ignore_char"
           /\ Transition(c).transition = "reading_string_typ_1" => c = Apostrophe
           /\ ~Transition(c).consume /\ c # Nul =>
                \/ Transition(c).transition = "waiting_for_start" /\ c \in {Space, Tab}
                \/ Transition(c).transition = "reading_plain" /\ c # Space
           /\ (/\ c # Nul
               /\ \/ state = "waiting_for_start" /\ c \in {Space, Tab}
                  \/ state = "reading_plain" /\ c # Space)
                => Transition(c).consume
<1> USE DEF Rows, States, Row, Skip, Again, Finish, Space, Tab, Nul, Quote, Apostrophe, Backslash
<1>1. CASE state = "waiting_for_start"
    BY <1>1 DEF Transition, WaitingForStart
<1>2. CASE state = "reading_plain"
    BY <1>2 DEF Transition, ReadingPlain
<1>3. CASE state = "reading_plain_esc"
    BY <1>3 DEF Transition, Escaped
<1>4. CASE state = "reading_string_typ_0"
    BY <1>4 DEF Transition, ReadingString
<1>5. CASE state = "reading_string_typ_0_esc"
    BY <1>5 DEF Transition, Escaped
<1>6. CASE state = "reading_string_typ_0_end"
    BY <1>6 DEF Transition, StringEnd
<1> QED BY <1>1, <1>2, <1>3, <1>4, <1>5, <1>6 DEF HasRow

LEMMA EscapeType ==
    ASSUME NEW c \in Chars
    PROVE  DoEscape(c) \in Chars
BY DEF DoEscape, Chars

\* One step of the walk.
LEMMA ProcessCharKeeps ==
    ASSUME TypeOK, NothingLeftOver, HasRow, NEW c \in Chars, ProcessChar(c)
    PROVE  /\ token' \in Seq(Chars) /\ argv' \in Seq(Seq(Chars))
           /\ state' \in States /\ consume' \in BOOLEAN
           /\ NothingLeftOver'
           /\ state' = "reading_string_typ_1" => c = Apostrophe
           /\ ~consume' /\ c # Nul =>
                \/ state' = "waiting_for_start" /\ c \in {Space, Tab}
                \/ state' = "reading_plain" /\ c # Space
<1> DEFINE row == Transition(c)
<1>1. /\ row \in Rows
      /\ row.transition = "waiting_for_start" =>
            \/ row.finish
            \/ state = "waiting_for_start" /\ row.push = "ignore_char"
      /\ row.transition = "reading_string_typ_1" => c = Apostrophe
      /\ ~row.consume /\ c # Nul =>
            \/ row.transition = "waiting_for_start" /\ c \in {Space, Tab}
            \/ row.transition = "reading_plain" /\ c # Space
    BY TableFacts DEF TypeOK
<1>2. /\ IF row.finish
         THEN argv' = Append(argv, Pushed(row, c)) /\ token' = <<>>
         ELSE argv' = argv /\ token' = Pushed(row, c)
      /\ state' = row.transition
      /\ consume' = row.consume
    BY DEF ProcessChar
<1> HIDE DEF row
<1>3. Pushed(row, c) \in Seq(Chars)
    BY <1>1, EscapeType DEF Pushed, Rows, TypeOK
<1>4. row.push = "ignore_char" => Pushed(row, c) = token
    BY DEF Pushed
<1>5. token' \in Seq(Chars) /\ argv' \in Seq(Seq(Chars))
    <2>1. CASE row.finish
        <3> DEFINE pushed == Pushed(row, c)
        <3>1. pushed \in Seq(Chars) /\ argv \in Seq(Seq(Chars))
              /\ argv' = Append(argv, pushed) /\ token' = <<>>
            BY <1>2, <1>3, <2>1 DEF TypeOK
        <3> HIDE DEF pushed
        <3>2. argv' \in Seq(Seq(Chars))
            <4> DEFINE S == Seq(Chars)
            <4>1. pushed \in S /\ argv \in Seq(S)
                BY <3>1
            <4> HIDE DEF S
            <4>2. Append(argv, pushed) \in Seq(S)
                BY <4>1
            <4> QED BY <3>1, <4>2 DEF S
        <3> QED BY <3>1, <3>2
    <2>2. CASE ~row.finish
        BY <1>2, <1>3, <2>2 DEF TypeOK
    <2> QED BY <2>1, <2>2
<1>6. state' \in States /\ consume' \in BOOLEAN
    BY <1>1, <1>2 DEF Rows
<1>7. NothingLeftOver'
    BY <1>1, <1>2, <1>4 DEF NothingLeftOver
<1> QED BY <1>1, <1>2, <1>5, <1>6, <1>7

LEMMA InitIInv == Init => IInv
BY InputsAssumption DEF Init, IInv, TypeOK, NothingLeftOver, States, CharsOf

LEMMA ReadCharKeeps ==
    ASSUME IInv, ReadChar
    PROVE  IInv'
<1>1. /\ HasRow /\ outcome = "running" /\ outcome' = "running" /\ str' = str
      /\ pos <= Len(str) /\ ProcessChar(str[pos])
      /\ pos' = IF consume' THEN pos + 1 ELSE pos
    BY DEF ReadChar
<1>2. str \in Seq(Chars) /\ pos \in 1..Len(str) /\ str[pos] \in Chars
    BY <1>1 DEF IInv, TypeOK
<1>3. str[pos] \in CharsOf(str)
    BY <1>2 DEF CharsOf
<1>4. /\ token' \in Seq(Chars) /\ argv' \in Seq(Seq(Chars))
      /\ state' \in States /\ consume' \in BOOLEAN
      /\ NothingLeftOver'
      /\ state' = "reading_string_typ_1" => str[pos] = Apostrophe
      /\ ~consume' /\ str[pos] # Nul =>
            \/ state' = "waiting_for_start" /\ str[pos] \in {Space, Tab}
            \/ state' = "reading_plain" /\ str[pos] # Space
    BY <1>1, <1>2, ProcessCharKeeps DEF IInv
<1>5. TypeOK'
    BY <1>1, <1>2, <1>4 DEF TypeOK
<1>6. CharsOf(str)' = CharsOf(str)
    BY <1>1 DEF CharsOf
<1>7. ~consume' /\ Nul \notin CharsOf(str) => WillConsume'
    BY <1>1, <1>2, <1>3, <1>4 DEF WillConsume
<1> QED BY <1>1, <1>3, <1>4, <1>5, <1>6, <1>7 DEF IInv

LEMMA ReturnKeeps ==
    ASSUME IInv, Return
    PROVE  IInv'
<1>1. /\ HasRow /\ outcome' = "returned" /\ str' = str /\ pos' = pos /\ ProcessChar(Nul)
    BY DEF Return
<1>2. Nul \in Chars
    BY DEF Chars
<1>3. /\ token' \in Seq(Chars) /\ argv' \in Seq(Seq(Chars))
      /\ state' \in States /\ consume' \in BOOLEAN
      /\ NothingLeftOver'
      /\ state' = "reading_string_typ_1" => Nul = Apostrophe
    BY <1>1, <1>2, ProcessCharKeeps DEF IInv
<1>4. TypeOK'
    BY <1>1, <1>3 DEF IInv, TypeOK
<1>5. state' # "reading_string_typ_1"
    BY <1>3 DEF Nul, Apostrophe
<1> QED BY <1>1, <1>3, <1>4, <1>5 DEF IInv

LEMMA NextKeeps ==
    ASSUME IInv, [Next]_vars
    PROVE  IInv'
<1>1. CASE ReadChar
    BY <1>1, ReadCharKeeps
<1>2. CASE Return
    BY <1>2, ReturnKeeps
<1>3. CASE Terminate
    BY <1>3 DEF Terminate, HasRow, IInv, TypeOK, NothingLeftOver, CharsOf, States
<1>4. CASE UNCHANGED vars
    BY <1>4 DEF vars, IInv, TypeOK, NothingLeftOver, CharsOf, WillConsume
<1> QED BY <1>1, <1>2, <1>3, <1>4 DEF Next

LEMMA InvariantHolds == Spec => []IInv
BY InitIInv, NextKeeps, PTL DEF Spec

\* Every variable of the call keeps its type: in particular the position never
\* leaves the string by more than one, whatever rows ask to look again.
THEOREM ArgvTypes == Spec => []TypeOK
BY InvariantHolds, PTL DEF IInv

\* Whatever the string, nothing of one argument becomes part of the next.
THEOREM ArgvNothingLeftOver == Spec => []NothingLeftOver
BY InvariantHolds, PTL DEF IInv

\* Only a string with an apostrophe can end the program.
THEOREM ArgvReturns == Spec => []AlwaysReturns
<1>1. IInv => AlwaysReturns
    BY DEF IInv, AlwaysReturns
<1> QED BY <1>1, InvariantHolds, PTL

LEMMA StepConsumes ==
    ASSUME IInv, [Next]_vars, Nul \notin CharsOf(str), ~consume
    PROVE  consume' \/ outcome' # "running" \/ UNCHANGED vars
<1>1. CASE ReadChar
    <2>1. outcome = "running" /\ HasRow /\ ProcessChar(str[pos]) /\ pos <= Len(str)
        BY <1>1 DEF ReadChar
    <2>2. /\ str \in Seq(Chars) /\ pos \in 1..Len(str) /\ str[pos] \in Chars
          /\ state \in States
        BY <2>1 DEF IInv, TypeOK
    <2>3. str[pos] # Nul
        BY <2>2 DEF CharsOf
    <2>4. \/ state = "waiting_for_start" /\ str[pos] \in {Space, Tab}
          \/ state = "reading_plain" /\ str[pos] # Space
        BY <2>1 DEF IInv, WillConsume
    <2>5. Transition(str[pos]).consume
        BY <2>1, <2>2, <2>3, <2>4, TableFacts
    <2> QED BY <2>1, <2>5 DEF ProcessChar
<1>2. CASE Return
    BY <1>2 DEF Return
<1>3. CASE Terminate
    BY <1>3 DEF Terminate
<1> QED BY <1>1, <1>2, <1>3 DEF Next

\* No character is looked at more than twice, so the call takes at most twice as
\* many steps as the string has characters: it ends, whatever the string.
THEOREM ArgvSeenAtMostTwice == Spec => SeenAtMostTwice
<1>1. IInv /\ [Next]_vars =>
        [Nul \notin CharsOf(str) /\ ~consume => consume' \/ outcome' # "running"]_vars
    BY StepConsumes
<1> QED BY <1>1, InvariantHolds, PTL DEF Spec, SeenAtMostTwice

-----------------------------------------------------------------------------
\* What one step does.

LEMMA Effects ==
    ASSUME NEW c, NEW t, ProcessChar(c)
    PROVE  /\ Transition(c) = Skip(t) =>
                argv' = argv /\ token' = token /\ state' = t /\ consume' = TRUE
           /\ Transition(c) = Again(t) =>
                argv' = argv /\ token' = token /\ state' = t /\ consume' = FALSE
           /\ Transition(c) = Finish =>
                argv' = Append(argv, token) /\ token' = <<>>
                /\ state' = "waiting_for_start" /\ consume' = FALSE
           /\ Transition(c) = Row("push_char", t, TRUE, FALSE) =>
                argv' = argv /\ token' = Append(token, c) /\ state' = t /\ consume' = TRUE
           /\ Transition(c) = Row("push_escaped_char", t, TRUE, FALSE) =>
                argv' = argv /\ token' = Append(token, DoEscape(c)) /\ state' = t /\ consume' = TRUE
<1> DEFINE row == Transition(c)
<1>1. /\ IF row.finish
         THEN argv' = Append(argv, Pushed(row, c)) /\ token' = <<>>
         ELSE argv' = argv /\ token' = Pushed(row, c)
      /\ state' = row.transition /\ consume' = row.consume
    BY DEF ProcessChar
<1> HIDE DEF row
<1>2. /\ row.push = "ignore_char" => Pushed(row, c) = token
      /\ row.push = "push_char" => Pushed(row, c) = Append(token, c)
      /\ row.push = "push_escaped_char" => Pushed(row, c) = Append(token, DoEscape(c))
    BY DEF Pushed
<1>3. ASSUME NEW push, NEW to, NEW consumed, NEW finish, row = Row(push, to, consumed, finish)
      PROVE  /\ row.push = push /\ row.transition = to
             /\ row.consume = consumed /\ row.finish = finish
    BY <1>3 DEF Row
<1>4. ASSUME row = Skip(t)
      PROVE  argv' = argv /\ token' = token /\ state' = t /\ consume' = TRUE
    <2>1. /\ row.push = "ignore_char" /\ row.transition = t
          /\ row.consume = TRUE /\ row.finish = FALSE
        BY <1>3, <1>4 DEF Skip
    <2> QED BY <1>1, <1>2, <2>1
<1>5. ASSUME row = Again(t)
      PROVE  argv' = argv /\ token' = token /\ state' = t /\ consume' = FALSE
    <2>1. /\ row.push = "ignore_char" /\ row.transition = t
          /\ row.consume = FALSE /\ row.finish = FALSE
        BY <1>3, <1>5 DEF Again
    <2> QED BY <1>1, <1>2, <2>1
<1>6. ASSUME row = Finish
      PROVE  /\ argv' = Append(argv, token) /\ token' = <<>>
             /\ state' = "waiting_for_start" /\ consume' = FALSE
    <2>1. /\ row.push = "ignore_char" /\ row.transition = "waiting_for_start"
          /\ row.consume = FALSE /\ row.finish = TRUE
        BY <1>3, <1>6 DEF Finish
    <2> QED BY <1>1, <1>2, <2>1
<1>7. ASSUME row = Row("push_char", t, TRUE, FALSE)
      PROVE  /\ argv' = argv /\ token' = Append(token, c)
             /\ state' = t /\ consume' = TRUE
    <2>1. /\ row.push = "push_char" /\ row.transition = t
          /\ row.consume = TRUE /\ row.finish = FALSE
        BY <1>3, <1>7
    <2> QED BY <1>1, <1>2, <2>1
<1>8. ASSUME row = Row("push_escaped_char", t, TRUE, FALSE)
      PROVE  /\ argv' = argv /\ token' = Append(token, DoEscape(c))
             /\ state' = t /\ consume' = TRUE
    <2>1. /\ row.push = "push_escaped_char" /\ row.transition = t
          /\ row.consume = TRUE /\ row.finish = FALSE
        BY <1>3, <1>8
    <2> QED BY <1>1, <1>2, <2>1
<1> QED BY <1>4, <1>5, <1>6, <1>7, <1>8 DEF row

\* The rows of the states that a string without quotes and escapes gets to.
LEMMA PlainRows ==
    /\ WaitingForStart(Space) = Skip("waiting_for_start")
    /\ WaitingForStart(Nul) = Again("waiting_for_start")
    /\ ReadingPlain(Space) = Finish /\ ReadingPlain(Nul) = Finish
    /\ \A c \in Letters :
         /\ c # Space
         /\ WaitingForStart(c) = Again("reading_plain")
         /\ ReadingPlain(c) = Row("push_char", "reading_plain", TRUE, FALSE)
<1>1. /\ Space # Nul /\ Space # Quote /\ Space # Apostrophe /\ Space # Backslash /\ Space # Tab
      /\ Nul # Quote /\ Nul # Apostrophe /\ Nul # Backslash /\ Nul # Tab
    BY DEF Space, Nul, Quote, Apostrophe, Backslash, Tab
<1>2. ASSUME NEW c \in Letters
      PROVE  /\ c # Space /\ c # Tab /\ c # Nul /\ c # Quote /\ c # Apostrophe /\ c # Backslash
    BY LettersAssumption
<1>3. /\ WaitingForStart(Space) = Skip("waiting_for_start")
      /\ WaitingForStart(Nul) = Again("waiting_for_start")
      /\ ReadingPlain(Space) = Finish /\ ReadingPlain(Nul) = Finish
    BY <1>1 DEF WaitingForStart, ReadingPlain
<1>4. ASSUME NEW c \in Letters
      PROVE  /\ WaitingForStart(c) = Again("reading_plain")
             /\ ReadingPlain(c) = Row("push_char", "reading_plain", TRUE, FALSE)
    BY <1>2 DEF WaitingForStart, ReadingPlain
<1> QED BY <1>2, <1>3, <1>4

-----------------------------------------------------------------------------
\* The words of the first n characters.

WordPart(s, k) == IF k \in WordStarts(s) THEN <<WordAt(s, k)>> ELSE <<>>
WordsOf(s, n) == FlattenSeq([k \in 1..n |-> WordPart(s, k)])

\* The word that starts at b and ends at e.
LEMMA WordEnds ==
    ASSUME NEW s \in Seq(Chars), NEW b \in 1..Len(s), NEW e \in b..Len(s),
           \A k \in b..e : s[k] # Space, e = Len(s) \/ s[e + 1] = Space
    PROVE  WordAt(s, b) = SubSeq(s, b, e)
<1> DEFINE len == Len(s)
           E == {j \in b..len : j = len \/ s[j + 1] = Space}
<1>1. len \in Nat /\ b \in Nat /\ e \in Nat /\ b <= e /\ e <= len
    BY LenProperties
<1>2. E \subseteq Nat /\ e \in E
    BY <1>1
<1>3. Min(E) \in E /\ Min(E) <= e
    <2> HIDE DEF E
    <2> QED BY <1>2, MinFacts
<1> DEFINE m == Min(E)
<1>4. m \in b..len /\ (m = len \/ s[m + 1] = Space) /\ m <= e
    BY <1>3
<1>5. WordAt(s, b) = SubSeq(s, b, m)
    BY DEF WordAt
<1> HIDE DEF E, m, len
<1>6. m = e
    <2> SUFFICES ASSUME m # e PROVE FALSE
        OBVIOUS
    <2>1. m + 1 \in b..e /\ m # len
        BY <1>1, <1>4
    <2> QED BY <1>4, <2>1
<1> QED BY <1>5, <1>6

LEMMA WordPartType ==
    ASSUME NEW s \in Seq(Chars), NEW k \in 1..Len(s)
    PROVE  WordPart(s, k) \in Seq(Seq(Chars))
<1>1. CASE k \notin WordStarts(s)
    BY <1>1 DEF WordPart
<1>2. CASE k \in WordStarts(s)
    <2> DEFINE len == Len(s)
               E == {j \in k..len : j = len \/ s[j + 1] = Space}
               m == Min(E)
    <2>1. len \in Nat /\ k \in Nat /\ k >= 1 /\ len \in E /\ E \subseteq Nat
        BY LenProperties
    <2>2. m \in E
        <3> HIDE DEF E
        <3> QED BY <2>1, MinFacts
    <2>3. m \in Nat /\ k <= m + 1 /\ m <= Len(s)
        BY <2>1, <2>2
    <2>4. WordAt(s, k) = SubSeq(s, k, m)
        BY DEF WordAt
    <2> HIDE DEF m, E, len
    <2>5. WordAt(s, k) \in Seq(Chars)
        BY <2>1, <2>3, <2>4, PartFacts
    <2> DEFINE w == WordAt(s, k)
    <2> HIDE DEF w
    <2>6. <<w>> \in Seq(Seq(Chars))
        BY <2>5, OneType DEF w
    <2> QED BY <1>2, <2>6 DEF WordPart, w
<1> QED BY <1>1, <1>2

LEMMA WordParts ==
    ASSUME NEW s \in Seq(Chars), NEW n \in 0..Len(s)
    PROVE  /\ [k \in 1..n |-> WordPart(s, k)] \in Seq(Seq(Seq(Chars)))
           /\ Len([k \in 1..n |-> WordPart(s, k)]) = n
           /\ WordsOf(s, n) \in Seq(Seq(Chars))
<1> DEFINE f == [k \in 1..n |-> WordPart(s, k)]
<1>1. n \in Nat /\ \A k \in 1..n : k \in 1..Len(s)
    BY LenProperties
<1>2. f \in [1..n -> Seq(Seq(Chars))]
    BY <1>1, WordPartType
<1> HIDE DEF f
<1>3. f \in Seq(Seq(Seq(Chars))) /\ Len(f) = n
    BY <1>1, <1>2, FunctionIsSequence
<1>4. FlattenSeq(f) \in Seq(Seq(Chars))
    BY <1>3, FlattenType
<1> QED BY <1>3, <1>4 DEF f, WordsOf

LEMMA WordsOneMore ==
    ASSUME NEW s \in Seq(Chars), NEW n \in Nat, n < Len(s)
    PROVE  WordsOf(s, n + 1) = WordsOf(s, n) \o WordPart(s, n + 1)
<1> DEFINE f == [k \in 1..n |-> WordPart(s, k)]
           g == [k \in 1..n + 1 |-> WordPart(s, k)]
<1>1. n \in 0..Len(s) /\ n + 1 \in 0..Len(s)
    BY LenProperties
<1>2. f \in Seq(Seq(Seq(Chars))) /\ Len(f) = n
    BY <1>1, WordParts
<1>3. g \in Seq(Seq(Seq(Chars))) /\ Len(g) = n + 1
    BY <1>1, WordParts
<1>4. \A k \in 1..n : g[k] = f[k]
    OBVIOUS
<1>5. g[n + 1] = WordPart(s, n + 1)
    BY <1>1
<1> HIDE DEF f, g
<1>6. FlattenSeq(g) = FlattenSeq(f) \o g[n + 1]
    BY <1>2, <1>3, <1>4, FlattenMore
<1> QED BY <1>5, <1>6 DEF WordsOf, f, g

LEMMA WordsOfNothing ==
    ASSUME NEW s \in Seq(Chars)
    PROVE  WordsOf(s, 0) = <<>>
<1> DEFINE f == [k \in 1..0 |-> WordPart(s, k)]
<1>1. 0 \in 0..Len(s)
    BY LenProperties
<1>2. f \in Seq(Seq(Seq(Chars))) /\ Len(f) = 0
    BY <1>1, WordParts
<1> HIDE DEF f
<1>3. f = <<>>
    BY <1>2, EmptySeq
<1> QED BY <1>3, FlattenEmpty DEF WordsOf, f

LEMMA WordsOfAll ==
    ASSUME NEW s \in Seq(Chars)
    PROVE  WordsOf(s, Len(s)) = Split(s)
<1>1. DOMAIN s = 1..Len(s)
    BY LenProperties
<1> QED BY <1>1 DEF WordsOf, Split, WordPart

\* A blank starts no word.
LEMMA WordsOverBlank ==
    ASSUME NEW s \in Seq(Chars), NEW n \in Nat, n < Len(s), s[n + 1] = Space
    PROVE  WordsOf(s, n + 1) = WordsOf(s, n)
<1>1. n \in 0..Len(s)
    BY LenProperties
<1>2. n + 1 \notin WordStarts(s)
    BY DEF WordStarts
<1>3. WordsOf(s, n) \in Seq(Seq(Chars)) /\ WordPart(s, n + 1) = <<>>
    BY <1>1, <1>2, WordParts DEF WordPart
<1> QED BY <1>3, WordsOneMore, ConcatEmptySeq

\* Up to the end of a word there are the words before it and the word.
LEMMA WordsOverWord ==
    ASSUME NEW s \in Seq(Chars), NEW b \in WordStarts(s), NEW e \in b..Len(s),
           \A k \in b..e : s[k] # Space, e = Len(s) \/ s[e + 1] = Space
    PROVE  WordsOf(s, e) = Append(WordsOf(s, b - 1), SubSeq(s, b, e))
<1> DEFINE n == Len(s)
<1>1. n \in Nat /\ DOMAIN s = 1..n
    BY LenProperties
<1>2. b \in 1..n
    BY <1>1 DEF WordStarts
<1>3. e \in b..n
    OBVIOUS
<1> HIDE DEF n
<1>4. b \in Nat /\ e \in Nat /\ b >= 1 /\ b <= e /\ e <= n
    BY <1>1, <1>2, <1>3
<1> DEFINE word == SubSeq(s, b, e)
           before == WordsOf(s, b - 1)
<1>5. word \in Seq(Chars)
    <2>1. b <= e + 1 /\ e <= Len(s)
        BY <1>4 DEF n
    <2> QED BY <1>4, <2>1, PartFacts
<1>6. WordPart(s, b) = <<word>>
    BY <1>2, WordEnds DEF WordPart, n
<1>7. b - 1 \in Nat /\ b - 1 < n /\ (b - 1) + 1 = b /\ b - 1 \in 0..n
    BY <1>1, <1>2
<1>8. WordsOf(s, (b - 1) + 1) = before \o WordPart(s, (b - 1) + 1)
    BY <1>7, WordsOneMore DEF n
<1>9. before \in Seq(Seq(Chars))
    BY <1>7, WordParts DEF n
<1>10. WordsOf(s, b) = Append(before, word)
    <2> HIDE DEF word, before
    <2>1. Append(before, word) = before \o <<word>>
        BY <1>5, <1>9, AppendIsConcat
    <2> QED BY <1>6, <1>7, <1>8, <2>1
<1> HIDE DEF word, before
<1> DEFINE Same(m) == b + m <= e => WordsOf(s, b + m) = WordsOf(s, b)
           D == {m \in Nat : Same(m)}
<1>11. Same(0)
    <2>1. b + 0 = b
        BY <1>4
    <2> QED BY <2>1
<1>12. ASSUME NEW m \in Nat, Same(m)
      PROVE  Same(m + 1)
    <2> SUFFICES ASSUME b + (m + 1) <= e
                 PROVE  WordsOf(s, b + (m + 1)) = WordsOf(s, b)
        OBVIOUS
    <2> DEFINE c == b + m
    <2>1. /\ c \in Nat /\ c < n /\ c + 1 = b + (m + 1) /\ c + 1 \in 1..n /\ c <= e
          /\ c \in b..e /\ c \in 0..n /\ c + 1 # 1 /\ (c + 1) - 1 = c
        BY <1>1, <1>4
    <2>2. WordsOf(s, c) = WordsOf(s, b)
        BY <1>12, <2>1
    <2> HIDE DEF c
    <2>3. s[c] # Space
        BY <2>1
    <2>4. c + 1 \notin WordStarts(s)
        BY <2>1, <2>3 DEF WordStarts
    <2>5. WordsOf(s, c) \in Seq(Seq(Chars)) /\ WordPart(s, c + 1) = <<>>
        BY <2>1, <2>4, WordParts DEF WordPart, n
    <2>6. WordsOf(s, c + 1) = WordsOf(s, c)
        BY <2>1, <2>5, WordsOneMore, ConcatEmptySeq DEF n
    <2> QED BY <2>1, <2>2, <2>6
<1> HIDE DEF Same
<1>13. 0 \in D
    BY <1>11
<1>14. \A m \in Nat : m \in D => m + 1 \in D
    BY <1>12
<1>15. \A m \in Nat : m \in D
    <2> HIDE DEF D
    <2> QED BY <1>13, <1>14, SetInduction
<1>16. e - b \in Nat /\ b + (e - b) = e /\ b + (e - b) <= e
    BY <1>4
<1>17. Same(e - b)
    BY <1>15, <1>16
<1>18. WordsOf(s, e) = WordsOf(s, b)
    BY <1>16, <1>17 DEF Same
<1> QED BY <1>10, <1>18 DEF word, before

-----------------------------------------------------------------------------
\* Where the walk stands in a string without quotes and escapes.

Plain(s) == CharsOf(s) \subseteq Letters \cup {Space}

\* The words up to here are split off.
Between ==
    /\ argv = WordsOf(str, pos - 1)
    /\ \/ pos = 1
       \/ pos > 1 /\ str[pos - 1] = Space
       \/ pos <= Len(str) /\ str[pos] = Space

\* The token is the word that starts at b, as far as it was read.
InWord(b) ==
    /\ b <= pos
    /\ \A k \in b..pos - 1 : str[k] # Space
    /\ token = SubSeq(str, b, pos - 1)
    /\ argv = WordsOf(str, b - 1)

PlainProgress ==
    \/ outcome = "running" /\ state = "waiting_for_start" /\ Between
    \/ outcome = "running" /\ state = "reading_plain" /\ \E b \in WordStarts(str) : InWord(b)
    \/ outcome = "returned" /\ argv = Split(str)

PlainInv == Plain(str) => PlainProgress

LEMMA InitPlain == Init => PlainInv
<1> SUFFICES ASSUME Init PROVE PlainProgress
    BY DEF PlainInv
<1>1. /\ str \in Seq(Chars) /\ pos = 1 /\ argv = <<>> /\ outcome = "running"
      /\ state = "waiting_for_start" /\ pos - 1 = 0
    BY InputsAssumption DEF Init
<1>2. argv = WordsOf(str, pos - 1)
    BY <1>1, WordsOfNothing
<1> QED BY <1>1, <1>2 DEF PlainProgress, Between

LEMMA PlainReadsOn ==
    ASSUME IInv, Plain(str), PlainProgress, ReadChar
    PROVE  PlainProgress'
<1> DEFINE c == str[pos]
           len == Len(str)
<1>1. /\ outcome = "running" /\ outcome' = "running" /\ str' = str
      /\ pos <= Len(str) /\ ProcessChar(c)
      /\ pos' = IF consume' THEN pos + 1 ELSE pos
    BY DEF ReadChar
<1>2. /\ str \in Seq(Chars) /\ len \in Nat /\ DOMAIN str = 1..len /\ pos \in 1..len
      /\ NothingLeftOver
    BY <1>1, LenProperties DEF IInv, TypeOK
<1>3. c \in Letters \/ c = Space
    BY <1>2 DEF Plain, CharsOf
<1> HIDE DEF c, len
<1>4. /\ pos \in Nat /\ pos >= 1 /\ pos <= len /\ (pos + 1) - 1 = pos /\ (pos - 1) + 1 = pos
      /\ pos - 1 \in Nat /\ pos - 1 < len /\ pos - 1 <= pos
    BY <1>2
<1>5. CASE state = "waiting_for_start"
    <2>1. Between
        BY <1>1, <1>5 DEF PlainProgress
    <2>2. Transition(c) = WaitingForStart(c)
        BY <1>5 DEF Transition
    <2>3. CASE c = Space
        <3>1. Transition(c) = Skip("waiting_for_start")
            BY <2>2, <2>3, PlainRows
        <3>2. argv' = argv /\ state' = "waiting_for_start" /\ consume' = TRUE
            BY <1>1, <3>1, Effects
        <3>3. pos' = pos + 1 /\ pos' > 1 /\ pos' - 1 = pos
            BY <1>1, <1>4, <3>2
        <3>4. str[pos] = Space
            BY <2>3 DEF c
        <3>5. WordsOf(str, (pos - 1) + 1) = WordsOf(str, pos - 1)
            BY <1>2, <1>4, <3>4, WordsOverBlank DEF len
        <3>6. argv' = WordsOf(str', pos' - 1)
            BY <1>1, <1>4, <2>1, <3>2, <3>3, <3>5 DEF Between
        <3>7. str'[pos' - 1] = Space
            BY <1>1, <3>3, <3>4
        <3>8. Between'
            BY <3>3, <3>6, <3>7 DEF Between
        <3> QED BY <1>1, <3>2, <3>8 DEF PlainProgress
    <2>4. CASE c \in Letters
        <3>1. c # Space /\ Transition(c) = Again("reading_plain")
            BY <2>2, <2>4, PlainRows
        <3>2. argv' = argv /\ token' = token /\ state' = "reading_plain" /\ consume' = FALSE
            BY <1>1, <3>1, Effects
        <3>3. pos' = pos
            BY <1>1, <3>2
        <3>4. str[pos] # Space
            BY <3>1 DEF c
        <3>5. pos \in WordStarts(str)
            BY <1>2, <2>1, <3>4 DEF Between, WordStarts
        <3>6. token = <<>> /\ SubSeq(str, pos, pos - 1) = <<>>
            <4>1. pos \in Int /\ pos - 1 \in Int /\ pos - 1 < pos
                BY <1>4
            <4> QED BY <1>2, <1>5, <4>1, SubSeqEmpty DEF NothingLeftOver
        <3>7. \A k \in pos..pos - 1 : FALSE
            BY <1>4
        <3>8. InWord(pos)'
            <4>1. /\ pos <= pos /\ token' = SubSeq(str, pos, pos - 1)
                  /\ argv' = WordsOf(str, pos - 1)
                BY <1>4, <2>1, <3>2, <3>6 DEF Between
            <4> QED BY <1>1, <3>3, <3>7, <4>1 DEF InWord
        <3>9. pos' \in WordStarts(str')
            BY <1>1, <3>3, <3>5
        <3>10. \E b \in WordStarts(str') : InWord(b)'
            BY <3>3, <3>8, <3>9
        <3> QED BY <1>1, <3>2, <3>10 DEF PlainProgress
    <2> QED BY <1>3, <2>3, <2>4
<1>6. CASE state = "reading_plain"
    <2>1. PICK b \in WordStarts(str) : InWord(b)
        BY <1>1, <1>6 DEF PlainProgress
    <2>2. /\ b <= pos /\ \A k \in b..pos - 1 : str[k] # Space
          /\ token = SubSeq(str, b, pos - 1) /\ argv = WordsOf(str, b - 1)
        BY <2>1 DEF InWord
    <2>3. b \in 1..len /\ b \in Nat /\ b >= 1 /\ str[b] # Space
        BY <1>2 DEF WordStarts
    <2>4. Transition(c) = ReadingPlain(c)
        BY <1>6 DEF Transition
    <2>5. CASE c = Space
        <3>1. Transition(c) = Finish
            BY <2>4, <2>5, PlainRows
        <3>2. /\ argv' = Append(argv, token)
              /\ state' = "waiting_for_start" /\ consume' = FALSE
            BY <1>1, <3>1, Effects
        <3>3. pos' = pos /\ str[pos] = Space
            BY <1>1, <2>5, <3>2 DEF c
        <3>4. b # pos
            BY <2>3, <3>3
        <3> DEFINE e == pos - 1
        <3>5. e \in b..len /\ e + 1 = pos
            BY <1>2, <1>4, <2>2, <2>3, <3>4
        <3>6. WordsOf(str, e) = Append(WordsOf(str, b - 1), SubSeq(str, b, e))
            <4> HIDE DEF e
            <4>1. str[e + 1] = Space
                BY <3>3, <3>5
            <4>2. \A k \in b..e : str[k] # Space
                BY <2>2 DEF e
            <4>3. e \in b..Len(str)
                BY <3>5 DEF len
            <4> QED BY <1>2, <4>1, <4>2, <4>3, WordsOverWord
        <3>7. argv' = WordsOf(str, pos - 1)
            BY <2>2, <3>2, <3>6
        <3>8. Between'
            BY <1>1, <1>4, <3>3, <3>7 DEF Between, len
        <3> QED BY <1>1, <3>2, <3>8 DEF PlainProgress
    <2>6. CASE c \in Letters
        <3>1. c # Space /\ Transition(c) = Row("push_char", "reading_plain", TRUE, FALSE)
            BY <2>4, <2>6, PlainRows
        <3>2. /\ argv' = argv /\ token' = Append(token, c)
              /\ state' = "reading_plain" /\ consume' = TRUE
            BY <1>1, <3>1, Effects
        <3>3. pos' = pos + 1 /\ pos' - 1 = pos /\ b <= pos'
            BY <1>1, <1>4, <2>2, <2>3, <3>2
        <3>4. token' = SubSeq(str, b, pos)
            <4>1. pos \in b..len /\ b <= (pos - 1) + 1 /\ pos - 1 <= Len(str)
                BY <1>4, <2>2, <2>3 DEF len
            <4>2. SubSeq(str, b, pos) = SubSeq(str, b, pos - 1) \o <<str[pos]>>
                BY <1>2, <2>3, <4>1, SubSeqRecursiveSecond DEF len
            <4>3. token \in Seq(Chars) /\ c \in Chars
                BY <1>2 DEF IInv, TypeOK, c, len
            <4>4. Append(token, c) = token \o <<c>>
                BY <4>3, AppendIsConcat
            <4> QED BY <2>2, <3>2, <4>2, <4>4 DEF c
        <3>5. \A k \in b..pos : str[k] # Space
            <4>1. \A k \in b..pos : k \in b..pos - 1 \/ k = pos
                BY <1>4, <2>3
            <4> QED BY <2>2, <3>1, <4>1 DEF c
        <3>6. InWord(b)'
            BY <1>1, <2>2, <3>2, <3>3, <3>4, <3>5 DEF InWord
        <3>7. \E d \in WordStarts(str') : InWord(d)'
            BY <1>1, <3>6
        <3> QED BY <1>1, <3>2, <3>7 DEF PlainProgress
    <2> QED BY <1>3, <2>5, <2>6
<1> QED BY <1>1, <1>5, <1>6 DEF PlainProgress

LEMMA PlainReturns ==
    ASSUME IInv, PlainProgress, Return
    PROVE  PlainProgress'
<1> DEFINE len == Len(str)
<1>1. /\ outcome = "running" /\ outcome' = "returned" /\ str' = str
      /\ pos > len /\ ProcessChar(Nul)
    BY DEF Return
<1>2. str \in Seq(Chars) /\ len \in Nat /\ DOMAIN str = 1..len /\ pos \in 1..len + 1
    BY LenProperties DEF IInv, TypeOK
<1>3. WordsOf(str, len) = Split(str)
    BY <1>2, WordsOfAll
<1> HIDE DEF len
<1>4. pos = len + 1 /\ pos - 1 = len
    BY <1>1, <1>2
<1>5. CASE state = "waiting_for_start"
    <2>1. argv = WordsOf(str, pos - 1)
        BY <1>1, <1>5 DEF PlainProgress, Between
    <2>2. Transition(Nul) = Again("waiting_for_start")
        BY <1>5, PlainRows DEF Transition
    <2>3. argv' = argv
        BY <1>1, <2>2, Effects
    <2> QED BY <1>1, <1>3, <1>4, <2>1, <2>3 DEF PlainProgress
<1>6. CASE state = "reading_plain"
    <2>1. PICK b \in WordStarts(str) : InWord(b)
        BY <1>1, <1>6 DEF PlainProgress
    <2>2. /\ \A k \in b..len : str[k] # Space
          /\ token = SubSeq(str, b, len) /\ argv = WordsOf(str, b - 1)
        BY <1>4, <2>1 DEF InWord
    <2>3. b \in 1..len
        BY <1>2 DEF WordStarts
    <2>4. len \in b..len
        BY <1>2, <2>3
    <2>5. WordsOf(str, len) = Append(WordsOf(str, b - 1), SubSeq(str, b, len))
        <3>1. len = Len(str)
            BY DEF len
        <3>2. len \in b..Len(str)
            BY <2>4, <3>1
        <3> QED BY <1>2, <2>2, <3>1, <3>2, WordsOverWord
    <2>6. Transition(Nul) = Finish
        BY <1>6, PlainRows DEF Transition
    <2>7. argv' = Append(argv, token)
        BY <1>1, <2>6, Effects
    <2> QED BY <1>1, <1>3, <2>2, <2>5, <2>7 DEF PlainProgress
<1> QED BY <1>1, <1>5, <1>6 DEF PlainProgress

LEMMA NextPlain ==
    ASSUME IInv, PlainInv, [Next]_vars
    PROVE  PlainInv'
<1> SUFFICES ASSUME Plain(str)' PROVE PlainProgress'
    BY DEF PlainInv
<1>1. str' = str
    BY DEF Next, ReadChar, Return, Terminate, vars
<1>2. Plain(str) /\ PlainProgress
    BY <1>1 DEF PlainInv, Plain, CharsOf
<1>3. CASE ReadChar
    BY <1>2, <1>3, PlainReadsOn
<1>4. CASE Return
    BY <1>2, <1>4, PlainReturns
<1>5. CASE Terminate
    BY <1>2, <1>5 DEF Terminate, HasRow, PlainProgress
<1>6. CASE UNCHANGED vars
    BY <1>2, <1>6 DEF vars, PlainProgress, Between, InWord
<1> QED BY <1>3, <1>4, <1>5, <1>6 DEF Next

-----------------------------------------------------------------------------
\* What is left to read of a string.

From(s, p) == SubSeq(s, p, Len(s))

LEMMA SameStart ==
    ASSUME NEW S, NEW u \in Seq(S), NEW v \in Seq(S), NEW x \in Seq(S), NEW y \in Seq(S),
           Len(u) = Len(v), u \o x = v \o y
    PROVE  u = v /\ x = y
<1> DEFINE a == Len(u)
           m == Len(x)
           n == Len(y)
<1>1. a \in Nat /\ m \in Nat /\ n \in Nat
    BY LenProperties
<1>2. \A k \in 1..a + m : (u \o x)[k] = IF k <= a THEN u[k] ELSE x[k - a]
    BY ConcatElements
<1>3. \A k \in 1..a + n : (v \o y)[k] = IF k <= a THEN v[k] ELSE y[k - a]
    BY ConcatElements
<1> HIDE DEF m, n
<1>4. \A k \in 1..a : k \in 1..a + m /\ k \in 1..a + n /\ k <= a
    BY <1>1
<1>5. u = v
    <2>1. \A k \in 1..a : u[k] = v[k]
        BY <1>2, <1>3, <1>4
    <2> QED BY <2>1, SeqEqual
<1> QED BY <1>5, SameFront

\* The character c in front of r.
Put(c, r) == <<c>> \o r

LEMMA SameFirst ==
    ASSUME NEW S, NEW c \in S, NEW d \in S, NEW x \in Seq(S), NEW y \in Seq(S),
           Put(c, x) = Put(d, y)
    PROVE  c = d /\ x = y
<1> DEFINE u == <<c>>
           v == <<d>>
<1>1. /\ u \in Seq(S) /\ Len(u) = 1 /\ u[1] = c
      /\ v \in Seq(S) /\ Len(v) = 1 /\ v[1] = d
    BY OneType
<1>2. u \o x = v \o y
    BY DEF Put
<1> HIDE DEF u, v
<1>3. u = v /\ x = y
    BY <1>1, <1>2, SameStart
<1> QED BY <1>1, <1>3

LEMMA FromType ==
    ASSUME NEW S, NEW s \in Seq(S), NEW p \in 1..Len(s) + 1
    PROVE  From(s, p) \in Seq(S)
<1>1. Len(s) \in Nat /\ p \in Nat /\ p >= 1 /\ p <= Len(s) + 1
    BY LenProperties
<1> QED BY <1>1, PartFacts DEF From

LEMMA FromOne ==
    ASSUME NEW S, NEW s \in Seq(S), NEW p \in 1..Len(s)
    PROVE  /\ From(s, p) = <<s[p]>> \o From(s, p + 1)
           /\ s[p] \in S /\ From(s, p) \in Seq(S) /\ From(s, p + 1) \in Seq(S)
<1>1. /\ Len(s) \in Nat /\ Len(s) \in p..Len(s)
      /\ p \in 1..Len(s) + 1 /\ p + 1 \in 1..Len(s) + 1
    BY LenProperties
<1>2. From(s, p) = <<s[p]>> \o From(s, p + 1)
    BY <1>1, SubSeqRecursiveFirst DEF From
<1>3. s[p] \in S
    BY ElementOfSeq
<1> QED BY <1>1, <1>2, <1>3, FromType

LEMMA FromEnd ==
    ASSUME NEW S, NEW s \in Seq(S), NEW p \in Nat, p > Len(s)
    PROVE  From(s, p) = <<>>
<1>1. Len(s) \in Int /\ p \in Int /\ Len(s) < p
    BY LenProperties
<1> QED BY <1>1, SubSeqEmpty DEF From

LEMMA NotEmpty ==
    ASSUME NEW S, NEW c \in S, NEW y \in Seq(S)
    PROVE  <<c>> \o y # <<>>
<1> DEFINE u == <<c>>
<1>1. u \in Seq(S) /\ Len(u) = 1
    BY OneType
<1> HIDE DEF u
<1>2. u \o y \in Seq(S) /\ Len(u \o y) = 1 + Len(y) /\ Len(y) \in Nat
    BY <1>1, ConcatType, LenProperties
<1>3. Len(u \o y) # 0
    BY <1>2
<1>4. u \o y # <<>>
    BY <1>3, NoneOfNothing
<1> QED BY <1>4 DEF u

LEMMA PutFacts ==
    ASSUME NEW c \in Chars, NEW r \in Seq(Chars)
    PROVE  Put(c, r) \in Seq(Chars) /\ Put(c, r) # <<>>
<1> DEFINE u == <<c>>
<1>1. u \in Seq(Chars)
    BY OneType
<1>2. u \o r # <<>>
    BY NotEmpty
<1> HIDE DEF u
<1>3. u \o r \in Seq(Chars)
    BY <1>1, ConcatType
<1> QED BY <1>2, <1>3 DEF Put, u

\* The character to look at, when the beginning of the rest is known.
LEMMA NextChar ==
    ASSUME NEW s \in Seq(Chars), NEW p \in 1..Len(s) + 1,
           NEW d \in Chars, NEW y \in Seq(Chars), From(s, p) = Put(d, y)
    PROVE  p <= Len(s) /\ s[p] = d /\ From(s, p + 1) = y
<1>1. Len(s) \in Nat /\ p \in Nat
    BY LenProperties
<1>2. p <= Len(s)
    <2> SUFFICES ASSUME p > Len(s) PROVE FALSE
        BY <1>1
    <2> QED BY <1>1, FromEnd, PutFacts
<1>3. p \in 1..Len(s)
    BY <1>1, <1>2
<1>4. /\ From(s, p) = <<s[p]>> \o From(s, p + 1)
      /\ s[p] \in Chars /\ From(s, p + 1) \in Seq(Chars)
    BY <1>3, FromOne
<1> DEFINE c == s[p]
           x == From(s, p + 1)
<1>5. c \in Chars /\ x \in Seq(Chars) /\ Put(c, x) = Put(d, y)
    BY <1>4 DEF Put
<1> HIDE DEF c, x
<1>6. c = d /\ x = y
    BY <1>5, SameFirst
<1> QED BY <1>2, <1>6 DEF c, x

\* What the sequences of s from the one after the n-th make together.
After(s, n) == FlattenSeq(From(s, n + 1))

LEMMA AfterOne ==
    ASSUME NEW S, NEW s \in Seq(Seq(S)), NEW n \in Nat, n < Len(s)
    PROVE  /\ After(s, n) = s[n + 1] \o After(s, n + 1)
           /\ s[n + 1] \in Seq(S) /\ After(s, n + 1) \in Seq(S) /\ After(s, n) \in Seq(S)
<1> DEFINE d == From(s, n + 1)
           e == From(s, (n + 1) + 1)
           x == s[n + 1]
<1>1. n + 1 \in 1..Len(s)
    BY LenProperties
<1>2. d = <<x>> \o e /\ x \in Seq(S) /\ d \in Seq(Seq(S)) /\ e \in Seq(Seq(S))
    BY <1>1, FromOne
<1> HIDE DEF d, e, x
<1>3. d # <<>>
    BY <1>2, NotEmpty
<1>4. <<x>> \in Seq(Seq(S)) /\ Len(<<x>>) = 1 /\ <<x>>[1] = x
    BY <1>2, OneType
<1> DEFINE u == <<x>>
<1> HIDE DEF u
<1>5. u \in Seq(Seq(S)) /\ Len(u) = 1 /\ u[1] = x /\ d = u \o e
    BY <1>2, <1>4 DEF u
<1>6. d[1] = x
    <2>1. \A k \in 1..1 + Len(e) : d[k] = IF k <= 1 THEN u[k] ELSE e[k - 1]
        BY <1>2, <1>5, ConcatElements
    <2>2. 1 \in 1..1 + Len(e) /\ 1 <= 1
        BY <1>2, LenProperties
    <2> QED BY <1>5, <2>1, <2>2
<1>7. Tail(d) = e
    <2> DEFINE t == Tail(d)
    <2>1. Len(d) = 1 + Len(e) /\ \A k \in 1..1 + Len(e) : d[k] = IF k <= 1 THEN u[k] ELSE e[k - 1]
        BY <1>2, <1>5, ConcatElements
    <2>2. t \in Seq(Seq(S)) /\ Len(t) = Len(d) - 1 /\ \A k \in 1..Len(t) : t[k] = d[k + 1]
        BY <1>2, <1>3, HeadTailProperties
    <2> HIDE DEF t
    <2>3. Len(e) \in Nat /\ Len(t) = Len(e)
        BY <1>2, <2>1, <2>2, LenProperties
    <2>4. ASSUME NEW k \in 1..Len(t) PROVE t[k] = e[k]
        <3>1. k + 1 \in 1..1 + Len(e) /\ ~(k + 1 <= 1) /\ (k + 1) - 1 = k
            BY <2>3
        <3> QED BY <2>1, <2>2, <3>1
    <2>5. t = e
        BY <1>2, <2>2, <2>3, <2>4, SeqEqual
    <2> QED BY <2>5 DEF t
<1>8. FlattenSeq(d) = x \o FlattenSeq(e)
    BY <1>2, <1>3, <1>6, <1>7, FlattenCons
<1>9. FlattenSeq(d) \in Seq(S) /\ FlattenSeq(e) \in Seq(S)
    BY <1>2, FlattenType
<1> QED BY <1>2, <1>8, <1>9 DEF After, d, e, x

LEMMA AfterAll ==
    ASSUME NEW S, NEW s \in Seq(S), NEW n \in Nat, n >= Len(s)
    PROVE  After(s, n) = <<>>
<1>1. n + 1 \in Nat /\ n + 1 > Len(s)
    BY LenProperties
<1> QED BY <1>1, FromEnd, FlattenEmpty DEF After

LEMMA AfterNone ==
    ASSUME NEW S, NEW s \in Seq(S)
    PROVE  After(s, 0) = FlattenSeq(s)
<1>1. From(s, 0 + 1) = s
    BY SubSeqFull DEF From
<1> QED BY <1>1 DEF After

LEMMA AfterType ==
    ASSUME NEW S, NEW s \in Seq(Seq(S)), NEW n \in Nat
    PROVE  After(s, n) \in Seq(S)
<1>1. CASE n < Len(s)
    BY <1>1, AfterOne
<1>2. CASE n >= Len(s)
    <2>1. After(s, n) = <<>>
        BY <1>2, AfterAll
    <2> QED BY <2>1
<1>3. Len(s) \in Nat
    BY LenProperties
<1> QED BY <1>1, <1>2, <1>3

\* The first n + 1 elements are the first n and one more.
LEMMA OneFurther ==
    ASSUME NEW S, NEW s \in Seq(S), NEW n \in Nat, n < Len(s)
    PROVE  /\ s[n + 1] \in S
           /\ Append(SubSeq(s, 1, n), s[n + 1]) = SubSeq(s, 1, n + 1)
<1> DEFINE x == SubSeq(s, 1, n)
           c == s[n + 1]
<1>1. /\ Len(s) \in Nat /\ n \in 0..Len(s) /\ 1 \in 1..Len(s) /\ n + 1 \in 1..Len(s)
      /\ (n + 1) - 1 = n
    BY LenProperties
<1>2. SubSeq(s, 1, n + 1) = x \o <<c>>
    BY <1>1, SubSeqRecursiveSecond
<1>3. x \in Seq(S) /\ c \in S
    BY <1>1, FrontFacts, ElementOfSeq
<1> HIDE DEF x, c
<1>4. Append(x, c) = x \o <<c>>
    BY <1>3, AppendIsConcat
<1> QED BY <1>2, <1>3, <1>4 DEF x, c

-----------------------------------------------------------------------------
\* A command line, argument by argument and character by character.

Pieces(arg) == [k \in DOMAIN arg |-> Written(arg[k])]
Part(args, k) == (IF k = 1 THEN <<>> ELSE <<Space>>) \o Quoted(args[k])
Parts(args) == [k \in DOMAIN args |-> Part(args, k)]

Join(x, y) == x \o y

\* What follows the first m characters of the argument n + 1, and what follows it.
AfterArgument(args, n) == After(Parts(args), n + 1)
AfterQuote(args, n) == Put(Quote, AfterArgument(args, n))
Inside(args, n, m) == Join(After(Pieces(args[n + 1]), m), AfterQuote(args, n))

\* The character that a backslash and d stand for is looked up by d.
EscapedAs(c) == IF c = Tab THEN LetterT ELSE c

LEMMA CharFacts ==
    /\ \A c \in {Space, Tab, Nul, Quote, Backslash, LetterT} : c \in Chars
    /\ Space # Nul /\ Space # Quote /\ Quote # Nul /\ Quote # Backslash /\ Backslash # Nul
    /\ Quote \notin {Space, Tab} /\ Space \in {Space, Tab}
    /\ LetterT # Nul
    /\ DoEscape(LetterT) = Tab
    /\ DoEscape(Quote) = Quote /\ DoEscape(Backslash) = Backslash
<1>1. \A c \in {Space, Tab, Nul, Quote, Backslash, LetterT} : c \in Chars
    BY DEF Chars
<1>2. /\ Space # Nul /\ Space # Quote /\ Quote # Nul /\ Quote # Backslash /\ Backslash # Nul
      /\ LetterT # Nul /\ Quote # Tab
    BY DEF Space, Nul, Quote, Backslash, LetterT, Tab
<1>3. DoEscape(LetterT) = Tab
    BY DEF DoEscape
<1>4. DoEscape(Quote) = Quote /\ DoEscape(Backslash) = Backslash
    BY DEF DoEscape, Quote, Backslash, LetterT, LetterN
<1> QED BY <1>1, <1>2, <1>3, <1>4

LEMMA WrittenType ==
    ASSUME NEW c \in Chars
    PROVE  /\ Written(c) \in Seq(Chars)
           /\ c \in {Quote, Backslash, Tab} =>
                /\ Written(c) = <<Backslash, EscapedAs(c)>>
                /\ EscapedAs(c) \in Chars /\ EscapedAs(c) # Nul
                /\ DoEscape(EscapedAs(c)) = c
           /\ c \notin {Quote, Backslash, Tab} => Written(c) = <<c>>
<1>1. CASE c = Tab
    <2>1. EscapedAs(c) = LetterT /\ Written(c) = <<Backslash, LetterT>>
        <3>1. Tab # Quote /\ Tab # Backslash
            BY DEF Tab, Quote, Backslash
        <3> QED BY <1>1, <3>1 DEF EscapedAs, Written
    <2>2. <<Backslash, LetterT>> \in Seq(Chars)
        BY CharFacts, PairType
    <2> QED BY <1>1, <2>1, <2>2, CharFacts
<1>2. CASE c \in {Quote, Backslash} /\ c # Tab
    <2>1. EscapedAs(c) = c /\ Written(c) = <<Backslash, c>>
        BY <1>2 DEF EscapedAs, Written
    <2>2. <<Backslash, c>> \in Seq(Chars)
        BY CharFacts, PairType
    <2> QED BY <1>2, <2>1, <2>2, CharFacts
<1>3. CASE c \notin {Quote, Backslash, Tab}
    <2>1. Written(c) = <<c>>
        BY <1>3 DEF Written
    <2>2. <<c>> \in Seq(Chars)
        BY OneType
    <2> QED BY <1>3, <2>1, <2>2
<1> QED BY <1>1, <1>2, <1>3

LEMMA PiecesType ==
    ASSUME NEW arg \in Seq(Chars)
    PROVE  Pieces(arg) \in Seq(Seq(Chars)) /\ Len(Pieces(arg)) = Len(arg)
<1> DEFINE n == Len(arg)
<1>1. n \in Nat /\ DOMAIN arg = 1..n /\ \A k \in 1..n : arg[k] \in Chars
    BY LenProperties, ElementOfSeq
<1>2. Pieces(arg) \in [1..n -> Seq(Chars)]
    BY <1>1, WrittenType DEF Pieces
<1> HIDE DEF n
<1>3. Pieces(arg) \in Seq(Seq(Chars)) /\ Len(Pieces(arg)) = n
    BY <1>1, <1>2, FunctionIsSequence
<1> QED BY <1>3 DEF n

LEMMA QuotedType ==
    ASSUME NEW arg \in Seq(Chars)
    PROVE  /\ Quoted(arg) \in Seq(Chars)
           /\ FlattenSeq(Pieces(arg)) \in Seq(Chars)
           /\ Quoted(arg) = <<Quote>> \o (FlattenSeq(Pieces(arg)) \o <<Quote>>)
<1> DEFINE q == <<Quote>>
           f == FlattenSeq(Pieces(arg))
<1>1. q \in Seq(Chars)
    BY CharFacts, OneType
<1>2. f \in Seq(Chars)
    BY PiecesType, FlattenType
<1>3. Quoted(arg) = (q \o f) \o q
    BY DEF Quoted, Pieces
<1> HIDE DEF q, f
<1>4. q \o f \in Seq(Chars)
    BY <1>1, <1>2, ConcatType
<1>5. (q \o f) \o q \in Seq(Chars)
    BY <1>1, <1>4, ConcatType
<1>6. (q \o f) \o q = q \o (f \o q)
    BY <1>1, <1>2, ConcatAssociative
<1> QED BY <1>2, <1>3, <1>5, <1>6 DEF q, f

LEMMA PartsType ==
    ASSUME NEW args \in Seq(Seq(Chars))
    PROVE  Parts(args) \in Seq(Seq(Chars)) /\ Len(Parts(args)) = Len(args)
<1> DEFINE n == Len(args)
<1>1. n \in Nat /\ DOMAIN args = 1..n /\ \A k \in 1..n : args[k] \in Seq(Chars)
    BY LenProperties, ElementOfSeq
<1>2. ASSUME NEW k \in 1..n PROVE Part(args, k) \in Seq(Chars)
    <2> DEFINE q == Quoted(args[k])
               b == IF k = 1 THEN <<>> ELSE <<Space>>
    <2>1. q \in Seq(Chars)
        BY <1>1, QuotedType
    <2>2. <<Space>> \in Seq(Chars) /\ <<>> \in Seq(Chars)
        BY CharFacts, OneType
    <2>3. b \in Seq(Chars)
        BY <2>2
    <2> HIDE DEF q, b
    <2>4. b \o q \in Seq(Chars)
        BY <2>1, <2>3, ConcatType
    <2> QED BY <2>4 DEF Part, q, b
<1>3. Parts(args) \in [1..n -> Seq(Chars)]
    BY <1>1, <1>2 DEF Parts
<1> HIDE DEF n
<1>4. Parts(args) \in Seq(Seq(Chars)) /\ Len(Parts(args)) = n
    BY <1>1, <1>3, FunctionIsSequence
<1> QED BY <1>4 DEF n

\* Join has the associativity of \o, and Put a character is to join it.
LEMMA JoinFacts ==
    ASSUME NEW x \in Seq(Chars), NEW y \in Seq(Chars), NEW z \in Seq(Chars)
    PROVE  /\ Join(x, y) \in Seq(Chars)
           /\ Join(Join(x, y), z) = Join(x, Join(y, z))
<1> DEFINE front == x \o y
           whole == front \o z
<1>1. front \in Seq(Chars)
    BY ConcatType
<1>2. front = x \o y /\ whole = front \o z
    OBVIOUS
<1>3. Join(x, y) = front /\ Join(Join(x, y), z) = whole
    BY DEF Join
<1> HIDE DEF front, whole
<1>4. whole = x \o (y \o z)
    BY <1>2, OneMorePart
<1>5. Join(x, Join(y, z)) = x \o (y \o z)
    BY DEF Join
<1> QED BY <1>1, <1>3, <1>4, <1>5

LEMMA OneJoined ==
    ASSUME NEW c \in Chars
    PROVE  /\ <<c>> \in Seq(Chars)
           /\ \A r \in Seq(Chars) : Put(c, r) = Join(<<c>>, r)
BY OneType DEF Put, Join

LEMMA PutFirst ==
    ASSUME NEW c \in Chars, NEW x \in Seq(Chars), NEW a \in Seq(Chars)
    PROVE  Join(Put(c, x), a) = Put(c, Join(x, a))
<1> DEFINE u == <<c>>
<1>1. u \in Seq(Chars) /\ \A r \in Seq(Chars) : Put(c, r) = Join(u, r)
    BY OneJoined
<1> HIDE DEF u
<1>2. Join(x, a) \in Seq(Chars) /\ Join(Join(u, x), a) = Join(u, Join(x, a))
    BY <1>1, JoinFacts
<1> QED BY <1>1, <1>2

\* What there is to read before the argument n + 1, and in front of its quotes.
LEMMA BeforeArgument ==
    ASSUME NEW args \in Seq(Seq(Chars)), NEW n \in Nat, n < Len(args)
    PROVE  /\ args[n + 1] \in Seq(Chars)
           /\ AfterArgument(args, n) \in Seq(Chars)
           /\ Inside(args, n, 0) \in Seq(Chars)
           /\ n = 0 => After(Parts(args), n) = Put(Quote, Inside(args, n, 0))
           /\ n # 0 => After(Parts(args), n) = Put(Space, Put(Quote, Inside(args, n, 0)))
           /\ Put(Quote, Inside(args, n, 0)) \in Seq(Chars)
<1> DEFINE arg == args[n + 1]
           p == Parts(args)
           a == AfterArgument(args, n)
           f == FlattenSeq(Pieces(arg))
           q == <<Quote>>
           w == Quoted(arg)
           r == Inside(args, n, 0)
<1>1. n + 1 \in 1..Len(args) /\ DOMAIN args = 1..Len(args)
    BY LenProperties
<1>2. arg \in Seq(Chars) /\ p \in Seq(Seq(Chars)) /\ n < Len(p)
    BY <1>1, ElementOfSeq, PartsType
<1>3. /\ After(p, n) = p[n + 1] \o After(p, n + 1)
      /\ After(p, n + 1) \in Seq(Chars)
    BY <1>2, AfterOne
<1>4. a \in Seq(Chars) /\ After(p, n) = Join(Part(args, n + 1), a)
    BY <1>1, <1>3 DEF AfterArgument, Parts, Join
<1>5. Quote \in Chars /\ Space \in Chars
    BY CharFacts
<1>6. w \in Seq(Chars) /\ f \in Seq(Chars) /\ w = q \o (f \o q)
    BY <1>2, QuotedType
<1>7. w = Put(Quote, Join(f, q))
    BY <1>6 DEF Put, Join
<1>8. q \in Seq(Chars) /\ Put(Quote, a) = Join(q, a) /\ Put(Quote, a) \in Seq(Chars)
    BY <1>4, <1>5, OneJoined, PutFacts
<1>9. r = Join(f, Put(Quote, a))
    <2>1. After(Pieces(arg), 0) = f
        BY <1>2, PiecesType, AfterNone
    <2> QED BY <2>1 DEF Inside, AfterQuote
<1>10. n = 0 => Part(args, n + 1) = <<>> \o w
    BY DEF Part
<1>11. n # 0 => Part(args, n + 1) = Put(Space, w)
    <2>1. n + 1 = 1 => n = 0
        OBVIOUS
    <2> HIDE DEF w
    <2>2. n + 1 # 1 => Part(args, n + 1) = <<Space>> \o w
        BY DEF Part, w, arg
    <2> QED BY <2>1, <2>2 DEF Put
<1> HIDE DEF arg, p, a, f, q, w, r
<1>12. Join(f, q) \in Seq(Chars) /\ Join(Join(f, q), a) = Join(f, Join(q, a))
    BY <1>4, <1>6, <1>8, JoinFacts
<1>13. r \in Seq(Chars)
    BY <1>6, <1>8, <1>9, JoinFacts
<1>14. Join(w, a) = Put(Quote, r)
    BY <1>4, <1>5, <1>7, <1>8, <1>9, <1>12, PutFirst
<1>15. n = 0 => After(p, n) = Put(Quote, r)
    <2>1. <<>> \o w = w
        BY <1>6, ConcatEmptySeq
    <2> QED BY <1>4, <1>10, <1>14, <2>1
<1>16. n # 0 => After(p, n) = Put(Space, Put(Quote, r))
    <2>1. Join(Put(Space, w), a) = Put(Space, Join(w, a))
        BY <1>4, <1>5, <1>6, PutFirst
    <2> QED BY <1>4, <1>11, <1>14, <2>1
<1>17. Put(Quote, r) \in Seq(Chars)
    BY <1>5, <1>13, PutFacts
<1> QED BY <1>2, <1>4, <1>13, <1>15, <1>16, <1>17 DEF arg, p, a, r

\* A character as it is written, in front of the rest.
LEMMA WrittenFirst ==
    ASSUME NEW c \in Chars, NEW y \in Seq(Chars), NEW z \in Seq(Chars)
    PROVE  /\ Join(y, z) \in Seq(Chars) /\ Join(Join(Written(c), y), z) \in Seq(Chars)
           /\ c \notin {Quote, Backslash, Tab} =>
                Join(Join(Written(c), y), z) = Put(c, Join(y, z))
           /\ c \in {Quote, Backslash, Tab} =>
                /\ Put(EscapedAs(c), Join(y, z)) \in Seq(Chars)
                /\ Join(Join(Written(c), y), z) = Put(Backslash, Put(EscapedAs(c), Join(y, z)))
<1> DEFINE w == Written(c)
           r == Join(y, z)
           e == EscapedAs(c)
<1>1. /\ w \in Seq(Chars)
      /\ c \in {Quote, Backslash, Tab} => w = <<Backslash, e>> /\ e \in Chars
      /\ c \notin {Quote, Backslash, Tab} => w = <<c>>
    BY WrittenType
<1> HIDE DEF w, e
<1>2. r \in Seq(Chars)
    BY JoinFacts
<1>3. Join(Join(w, y), z) = Join(w, r)
    BY <1>1, JoinFacts
<1> HIDE DEF r
<1>4. Join(w, r) \in Seq(Chars)
    BY <1>1, <1>2, JoinFacts
<1>5. c \notin {Quote, Backslash, Tab} => Join(w, r) = Put(c, r)
    BY <1>1, <1>2, OneJoined
<1>6. ASSUME c \in {Quote, Backslash, Tab}
      PROVE  Put(e, r) \in Seq(Chars) /\ Join(w, r) = Put(Backslash, Put(e, r))
    <2>1. w = <<Backslash, e>> /\ e \in Chars
        BY <1>1, <1>6
    <2>2. Backslash \in Chars
        BY CharFacts
    <2>3. <<e>> \in Seq(Chars) /\ Put(e, r) = Join(<<e>>, r)
        BY <1>2, <2>1, OneJoined
    <2> DEFINE x == <<e>>
    <2>4. x \in Seq(Chars) /\ Put(e, r) = Join(x, r)
        BY <2>3
    <2>5. w = Put(Backslash, x)
        BY <2>1 DEF Put
    <2> HIDE DEF x
    <2>6. Join(w, r) = Put(Backslash, Join(x, r))
        BY <1>2, <2>2, <2>4, <2>5, PutFirst
    <2>7. Put(e, r) \in Seq(Chars)
        BY <1>2, <2>1, PutFacts
    <2> QED BY <2>4, <2>6, <2>7
<1> QED BY <1>2, <1>3, <1>4, <1>5, <1>6 DEF w, r, e

\* What there is to read in the quotes, after the first m characters.
LEMMA InsideArgument ==
    ASSUME NEW args \in Seq(Seq(Chars)), NEW n \in Nat, n < Len(args),
           NEW arg, arg = args[n + 1], NEW m \in Nat, m < Len(arg)
    PROVE  LET c == arg[m + 1] IN
           /\ c \in Chars
           /\ Inside(args, n, m) \in Seq(Chars) /\ Inside(args, n, m + 1) \in Seq(Chars)
           /\ c \notin {Quote, Backslash, Tab} =>
                Inside(args, n, m) = Put(c, Inside(args, n, m + 1))
           /\ c \in {Quote, Backslash, Tab} =>
                /\ Put(EscapedAs(c), Inside(args, n, m + 1)) \in Seq(Chars)
                /\ Inside(args, n, m) = Put(Backslash, Put(EscapedAs(c), Inside(args, n, m + 1)))
<1> DEFINE c == arg[m + 1]
           p == Pieces(arg)
           z == AfterQuote(args, n)
           x == After(p, m)
           y == After(p, m + 1)
<1>1. /\ arg \in Seq(Chars) /\ AfterArgument(args, n) \in Seq(Chars)
    BY BeforeArgument
<1>2. z \in Seq(Chars)
    BY <1>1, CharFacts, PutFacts DEF AfterQuote
<1>3. m + 1 \in 1..Len(arg) /\ DOMAIN arg = 1..Len(arg)
    BY <1>1, LenProperties
<1>4. c \in Chars
    BY <1>1, <1>3, ElementOfSeq
<1>5. p \in Seq(Seq(Chars)) /\ m < Len(p)
    BY <1>1, PiecesType
<1>6. p[m + 1] = Written(c)
    BY <1>3 DEF Pieces
<1>7. x = Join(Written(c), y) /\ y \in Seq(Chars)
    <2> HIDE DEF p, c
    <2> QED BY <1>5, <1>6, AfterOne DEF Join
<1>8. Inside(args, n, m) = Join(x, z) /\ Inside(args, n, m + 1) = Join(y, z)
    BY DEF Inside
<1> HIDE DEF c, p, z, x, y
<1> QED BY <1>2, <1>4, <1>7, <1>8, WrittenFirst DEF c

-----------------------------------------------------------------------------
\* Where the walk stands in the command line that args are written as: n arguments
\* are split off, and of the next one m characters are read.

BeforeQuotes(args, n) ==
    /\ state = "waiting_for_start"
    /\ \/ From(str, pos) = After(Parts(args), n)
       \/ n < Len(args) /\ From(str, pos) = Put(Quote, Inside(args, n, 0))

WithinQuotes(args, n, m) ==
    /\ state = "reading_string_typ_0"
    /\ token = SubSeq(args[n + 1], 1, m)
    /\ From(str, pos) = Inside(args, n, m)

AfterBackslash(args, n, m) ==
    /\ state = "reading_string_typ_0_esc"
    /\ m < Len(args[n + 1])
    /\ args[n + 1][m + 1] \in {Quote, Backslash, Tab}
    /\ token = SubSeq(args[n + 1], 1, m)
    /\ From(str, pos) = Put(EscapedAs(args[n + 1][m + 1]), Inside(args, n, m + 1))

BehindQuotes(args, n) ==
    /\ state = "reading_string_typ_0_end"
    /\ token = args[n + 1]
    /\ From(str, pos) = AfterArgument(args, n)

Standing(args, n) ==
    \/ BeforeQuotes(args, n)
    \/ n < Len(args) /\ \E m \in 0..Len(args[n + 1]) : WithinQuotes(args, n, m)
    \/ n < Len(args) /\ \E m \in 0..Len(args[n + 1]) : AfterBackslash(args, n, m)
    \/ n < Len(args) /\ BehindQuotes(args, n)

QuotedProgress(args) ==
    \/ outcome = "returned" /\ argv = args
    \/ /\ outcome = "running"
       /\ \E n \in 0..Len(args) : argv = SubSeq(args, 1, n) /\ Standing(args, n)

\* What can be written in quotes.
ArgumentLists == Seq(Seq(Chars \ {Nul}))

QuotedInv == \A args \in ArgumentLists : str = CommandLine(args) => QuotedProgress(args)

LEMMA QuotedRows ==
    /\ WaitingForStart(Quote) = Skip("reading_string_typ_0")
    /\ ReadingString(Backslash) = Skip("reading_string_typ_0_esc")
    /\ ReadingString(Quote) = Skip("reading_string_typ_0_end")
    /\ StringEnd(Space) = Finish /\ StringEnd(Nul) = Finish
    /\ \A c \in Chars : c \notin {Quote, Backslash, Nul} =>
            ReadingString(c) = Row("push_char", "reading_string_typ_0", TRUE, FALSE)
    /\ \A c \in Chars : c # Nul =>
            Escaped(c, "reading_string_typ_0")
                = Row("push_escaped_char", "reading_string_typ_0", TRUE, FALSE)
<1>1. /\ Quote \notin {Space, Tab} /\ Quote # Backslash /\ Nul \in {Space, Tab, Nul}
      /\ Space \in {Space, Tab, Nul} /\ Quote # Nul /\ Backslash # Nul
    BY CharFacts
<1>apostrophe. Quote # Apostrophe
    BY DEF Quote, Apostrophe
<1>2. WaitingForStart(Quote) = Skip("reading_string_typ_0")
    BY <1>1, <1>apostrophe DEF WaitingForStart
<1>3. /\ ReadingString(Backslash) = Skip("reading_string_typ_0_esc")
      /\ ReadingString(Quote) = Skip("reading_string_typ_0_end")
      /\ \A c \in Chars : c \notin {Quote, Backslash, Nul} =>
            ReadingString(c) = Row("push_char", "reading_string_typ_0", TRUE, FALSE)
    BY <1>1 DEF ReadingString
<1>4. StringEnd(Space) = Finish /\ StringEnd(Nul) = Finish
    BY <1>1 DEF StringEnd
<1>5. \A c \in Chars : c # Nul =>
            Escaped(c, "reading_string_typ_0")
                = Row("push_escaped_char", "reading_string_typ_0", TRUE, FALSE)
    BY DEF Escaped
<1> QED BY <1>2, <1>3, <1>4, <1>5

LEMMA ArgumentType ==
    ASSUME NEW args \in ArgumentLists
    PROVE  /\ args \in Seq(Seq(Chars))
           /\ \A n \in Nat : n < Len(args) =>
                /\ args[n + 1] \in Seq(Chars)
                /\ \A m \in Nat : m < Len(args[n + 1]) =>
                        args[n + 1][m + 1] \in Chars /\ args[n + 1][m + 1] # Nul
<1> DEFINE C == Chars \ {Nul}
<1>1. args \in Seq(Seq(C))
    BY DEF ArgumentLists
<1>2. C \subseteq Chars /\ Nul \notin C
    OBVIOUS
<1> HIDE DEF C
<1>3. \A arg \in Seq(C) : arg \in Seq(Chars)
    BY <1>2
<1> DEFINE T == Seq(C)
           U == Seq(Chars)
<1>4. args \in Seq(T) /\ T \subseteq U
    BY <1>1, <1>3
<1> HIDE DEF T, U
<1>5. args \in Seq(U)
    BY <1>4
<1>6. ASSUME NEW n \in Nat, n < Len(args)
      PROVE  /\ args[n + 1] \in Seq(Chars)
             /\ \A m \in Nat : m < Len(args[n + 1]) =>
                    args[n + 1][m + 1] \in Chars /\ args[n + 1][m + 1] # Nul
    <2> DEFINE arg == args[n + 1]
    <2>1. n + 1 \in 1..Len(args)
        BY <1>6, LenProperties
    <2>2. arg \in T
        BY <1>4, <2>1, ElementOfSeq
    <2>3. arg \in Seq(C)
        BY <2>2 DEF T
    <2> HIDE DEF arg
    <2>4. ASSUME NEW m \in Nat, m < Len(arg)
          PROVE  arg[m + 1] \in Chars /\ arg[m + 1] # Nul
        <3>1. m + 1 \in 1..Len(arg)
            BY <2>3, <2>4, LenProperties
        <3>2. arg[m + 1] \in C
            BY <2>3, <3>1, ElementOfSeq
        <3> QED BY <1>2, <3>2
    <2> QED BY <1>3, <2>3, <2>4 DEF arg
<1> QED BY <1>5, <1>6 DEF U

\* The step at a character that is known.
LEMMA ReadKnown ==
    ASSUME IInv, ReadChar, NEW d \in Chars, NEW y \in Seq(Chars), From(str, pos) = Put(d, y)
    PROVE  /\ ProcessChar(d) /\ outcome' = "running" /\ str' = str
           /\ consume' = TRUE => From(str, pos)' = y
           /\ consume' = FALSE => From(str, pos)' = From(str, pos)
<1>1. /\ outcome' = "running" /\ str' = str
      /\ ProcessChar(str[pos]) /\ pos' = IF consume' THEN pos + 1 ELSE pos
    BY DEF ReadChar
<1>2. str \in Seq(Chars) /\ pos \in 1..Len(str) + 1
    BY DEF IInv, TypeOK
<1>3. str[pos] = d /\ From(str, pos + 1) = y
    BY <1>2, NextChar
<1> QED BY <1>1, <1>3

\* The call returns at the end of the string only.
LEMMA ReturnAtEnd ==
    ASSUME IInv, Return
    PROVE  /\ From(str, pos) = <<>> /\ ProcessChar(Nul) /\ outcome' = "returned"
<1>1. pos > Len(str) /\ ProcessChar(Nul) /\ outcome' = "returned"
    BY DEF Return
<1>2. str \in Seq(Chars) /\ pos \in Nat
    BY LenProperties DEF IInv, TypeOK
<1> QED BY <1>1, <1>2, FromEnd

\* And never in front of a character.
LEMMA NoReturnBefore ==
    ASSUME IInv, Return, NEW d \in Chars, NEW y \in Seq(Chars), From(str, pos) = Put(d, y)
    PROVE  FALSE
BY ReturnAtEnd, PutFacts

LEMMA ReadNeedsMore ==
    ASSUME IInv, ReadChar
    PROVE  From(str, pos) # <<>>
<1>1. str \in Seq(Chars) /\ pos \in 1..Len(str)
    BY LenProperties DEF ReadChar, IInv, TypeOK
<1>2. /\ From(str, pos) = Put(str[pos], From(str, pos + 1))
      /\ str[pos] \in Chars /\ From(str, pos + 1) \in Seq(Chars)
    BY <1>1, FromOne DEF Put
<1> QED BY <1>2, PutFacts

\* The steps, one lemma for each of the four places.

LEMMA FromBeforeQuotes ==
    ASSUME IInv, NEW args \in ArgumentLists, NEW n \in 0..Len(args), argv = SubSeq(args, 1, n),
           outcome = "running", BeforeQuotes(args, n), ReadChar \/ Return
    PROVE  QuotedProgress(args)'
<1> DEFINE p == Parts(args)
           r == Inside(args, n, 0)
           a == AfterArgument(args, n)
<1>1. args \in Seq(Seq(Chars)) /\ Len(args) \in Nat /\ n \in Nat /\ n <= Len(args)
    BY ArgumentType, LenProperties
<1>2. p \in Seq(Seq(Chars)) /\ Len(p) = Len(args)
    BY <1>1, PartsType
<1>3. n = Len(args) => After(p, n) = <<>>
    BY <1>1, <1>2, AfterAll
<1>4. ASSUME n < Len(args)
      PROVE  /\ args[n + 1] \in Seq(Chars) /\ r \in Seq(Chars)
             /\ n = 0 => After(p, n) = Put(Quote, r)
             /\ n # 0 => After(p, n) = Put(Space, Put(Quote, r))
             /\ Put(Quote, r) \in Seq(Chars)
    BY <1>1, <1>4, BeforeArgument
<1>5. state = "waiting_for_start" /\ token = <<>>
    BY DEF BeforeQuotes, IInv, NothingLeftOver
<1>6. Transition(Space) = Skip("waiting_for_start") /\ Transition(Nul) = Again("waiting_for_start")
      /\ Transition(Quote) = Skip("reading_string_typ_0")
    BY <1>5, PlainRows, QuotedRows DEF Transition
<1>7. Space \in Chars /\ Quote \in Chars
    BY CharFacts
<1> HIDE DEF p, r, a
<1>8. CASE ReadChar /\ n < Len(args) /\ From(str, pos) = Put(Quote, r)
    <2>1. r \in Seq(Chars) /\ args[n + 1] \in Seq(Chars)
        BY <1>4, <1>8
    <2>2. /\ ProcessChar(Quote) /\ outcome' = "running"
          /\ consume' = TRUE => From(str, pos)' = r
        BY <1>7, <1>8, <2>1, ReadKnown
    <2>3. /\ argv' = argv /\ token' = token /\ state' = "reading_string_typ_0"
          /\ consume' = TRUE
        BY <1>6, <2>2, Effects
    <2>4. 0 \in 0..Len(args[n + 1])
        BY <2>1, LenProperties
    <2>5. SubSeq(args[n + 1], 1, 0) = <<>>
        BY SubSeqEmpty
    <2>6. WithinQuotes(args, n, 0)'
        BY <1>5, <2>2, <2>3, <2>5 DEF WithinQuotes, r
    <2>7. Standing(args, n)'
        BY <1>8, <2>4, <2>6 DEF Standing
    <2> QED BY <2>2, <2>3, <2>7 DEF QuotedProgress
<1>9. CASE ReadChar /\ n < Len(args) /\ From(str, pos) = Put(Space, Put(Quote, r))
    <2>1. Put(Quote, r) \in Seq(Chars)
        BY <1>4, <1>9
    <2>2. /\ ProcessChar(Space) /\ outcome' = "running"
          /\ consume' = TRUE => From(str, pos)' = Put(Quote, r)
        BY <1>7, <1>9, <2>1, ReadKnown
    <2>3. argv' = argv /\ state' = "waiting_for_start" /\ consume' = TRUE
        BY <1>6, <2>2, Effects
    <2>4. BeforeQuotes(args, n)'
        BY <1>9, <2>2, <2>3 DEF BeforeQuotes, r
    <2>5. Standing(args, n)'
        BY <2>4 DEF Standing
    <2> QED BY <2>2, <2>3, <2>5 DEF QuotedProgress
<1>10. ASSUME Return PROVE n = Len(args)
    <2> SUFFICES ASSUME n < Len(args) PROVE FALSE
        BY <1>1
    <2>1. From(str, pos) = Put(Quote, r) \/ From(str, pos) = Put(Space, Put(Quote, r))
        BY <1>4 DEF BeforeQuotes, p, r
    <2>2. r \in Seq(Chars) /\ Put(Quote, r) \in Seq(Chars)
        BY <1>4
    <2> QED BY <1>7, <1>10, <2>1, <2>2, NoReturnBefore
<1>11. CASE Return
    <2>1. n = Len(args)
        BY <1>10, <1>11
    <2>2. ProcessChar(Nul) /\ outcome' = "returned"
        BY <1>11, ReturnAtEnd
    <2>3. argv' = argv
        BY <1>6, <2>2, Effects
    <2>4. argv = args
        BY <1>1, <2>1, SubSeqFull
    <2> QED BY <2>2, <2>3, <2>4 DEF QuotedProgress
<1>12. ReadChar => n < Len(args)
    <2>1. From(str, pos) = <<>> => ~ReadChar
        BY ReadNeedsMore
    <2> QED BY <1>1, <1>3, <2>1 DEF BeforeQuotes, p
<1>13. n < Len(args) =>
            From(str, pos) = Put(Quote, r) \/ From(str, pos) = Put(Space, Put(Quote, r))
    BY <1>4 DEF BeforeQuotes, p, r
<1> QED BY <1>8, <1>9, <1>11, <1>12, <1>13

LEMMA FromWithinQuotes ==
    ASSUME IInv, NEW args \in ArgumentLists, NEW n \in 0..Len(args), argv = SubSeq(args, 1, n),
           outcome = "running", n < Len(args), NEW arg, arg = args[n + 1],
           NEW m \in 0..Len(arg), WithinQuotes(args, n, m), ReadChar \/ Return
    PROVE  QuotedProgress(args)'
<1> DEFINE c == arg[m + 1]
           a == AfterArgument(args, n)
           s == Inside(args, n, m)
           t == Inside(args, n, m + 1)
<1>1. args \in Seq(Seq(Chars)) /\ n \in Nat /\ arg \in Seq(Chars) /\ m \in Nat /\ m <= Len(arg)
    BY ArgumentType, LenProperties
<1>2. a \in Seq(Chars)
    BY <1>1, BeforeArgument
<1>3. /\ state = "reading_string_typ_0" /\ token = SubSeq(arg, 1, m)
      /\ From(str, pos) = s
    BY DEF WithinQuotes
<1>4. /\ Transition(Backslash) = Skip("reading_string_typ_0_esc")
      /\ Transition(Quote) = Skip("reading_string_typ_0_end")
      /\ \A d \in Chars : d \notin {Quote, Backslash, Nul} =>
            Transition(d) = Row("push_char", "reading_string_typ_0", TRUE, FALSE)
    BY <1>3, QuotedRows DEF Transition
<1>5. Backslash \in Chars /\ Quote \in Chars
    BY CharFacts
<1>6. CASE m = Len(arg)
    <2>1. s = Put(Quote, a)
        <3> DEFINE q == Pieces(arg)
                   z == AfterQuote(args, n)
        <3>1. q \in Seq(Seq(Chars)) /\ m >= Len(q)
            BY <1>1, <1>6, PiecesType
        <3>2. After(q, m) = <<>>
            BY <1>1, <3>1, AfterAll
        <3>3. z \in Seq(Chars)
            BY <1>2, <1>5, PutFacts DEF AfterQuote
        <3>4. s = Join(After(q, m), z) /\ z = Put(Quote, a)
            BY DEF Inside, AfterQuote
        <3> HIDE DEF q, z, s
        <3>5. <<>> \o z = z
            BY <3>3, ConcatEmptySeq
        <3> QED BY <3>2, <3>4, <3>5 DEF Join
    <2> HIDE DEF s, a
    <2>2. ReadChar
        BY <1>2, <1>3, <1>5, <2>1, NoReturnBefore
    <2>3. /\ ProcessChar(Quote) /\ outcome' = "running"
          /\ consume' = TRUE => From(str, pos)' = a
        BY <1>2, <1>3, <1>5, <2>1, <2>2, ReadKnown
    <2>4. /\ argv' = argv /\ token' = token /\ state' = "reading_string_typ_0_end"
          /\ consume' = TRUE
        BY <1>4, <2>3, Effects
    <2>5. token = arg
        BY <1>1, <1>3, <1>6, SubSeqFull
    <2>6. BehindQuotes(args, n)'
        BY <2>3, <2>4, <2>5 DEF BehindQuotes, a
    <2>7. Standing(args, n)'
        BY <2>6 DEF Standing
    <2> QED BY <2>3, <2>4, <2>7 DEF QuotedProgress
<1>7. CASE m < Len(arg) /\ c \in {Quote, Backslash, Tab}
    <2> DEFINE u == Put(EscapedAs(c), t)
    <2>1. u \in Seq(Chars) /\ s = Put(Backslash, u)
        BY <1>1, <1>7, InsideArgument
    <2> HIDE DEF u, s
    <2>2. ReadChar
        BY <1>3, <1>5, <2>1, NoReturnBefore
    <2>3. /\ ProcessChar(Backslash) /\ outcome' = "running"
          /\ consume' = TRUE => From(str, pos)' = u
        BY <1>3, <1>5, <2>1, <2>2, ReadKnown
    <2>4. /\ argv' = argv /\ token' = token /\ state' = "reading_string_typ_0_esc"
          /\ consume' = TRUE
        BY <1>4, <2>3, Effects
    <2>5. AfterBackslash(args, n, m)'
        BY <1>3, <1>7, <2>3, <2>4 DEF AfterBackslash, u
    <2>6. Standing(args, n)'
        BY <2>5 DEF Standing
    <2> QED BY <2>3, <2>4, <2>6 DEF QuotedProgress
<1>8. CASE m < Len(arg) /\ c \notin {Quote, Backslash, Tab}
    <2>1. t \in Seq(Chars) /\ s = Put(c, t)
        BY <1>1, <1>8, InsideArgument
    <2>2. c \in Chars /\ c # Nul
        BY <1>1, <1>8, ArgumentType
    <2> HIDE DEF s, t
    <2>3. ReadChar
        BY <1>3, <2>1, <2>2, NoReturnBefore
    <2>4. /\ ProcessChar(c) /\ outcome' = "running"
          /\ consume' = TRUE => From(str, pos)' = t
        BY <1>3, <2>1, <2>2, <2>3, ReadKnown
    <2>5. /\ argv' = argv /\ token' = Append(token, c) /\ state' = "reading_string_typ_0"
          /\ consume' = TRUE
        BY <1>4, <1>8, <2>2, <2>4, Effects
    <2>6. token' = SubSeq(arg, 1, m + 1)
        BY <1>1, <1>3, <1>8, <2>5, OneFurther
    <2>7. m + 1 \in 0..Len(arg)
        BY <1>1, <1>8, LenProperties
    <2>8. WithinQuotes(args, n, m + 1)'
        BY <2>4, <2>5, <2>6 DEF WithinQuotes, t
    <2>9. Standing(args, n)'
        BY <2>7, <2>8 DEF Standing
    <2> QED BY <2>4, <2>5, <2>9 DEF QuotedProgress
<1>9. m = Len(arg) \/ m < Len(arg)
    BY <1>1, LenProperties
<1> QED BY <1>6, <1>7, <1>8, <1>9

LEMMA FromAfterBackslash ==
    ASSUME IInv, NEW args \in ArgumentLists, NEW n \in 0..Len(args), argv = SubSeq(args, 1, n),
           outcome = "running", n < Len(args), NEW arg, arg = args[n + 1],
           NEW m \in 0..Len(arg), AfterBackslash(args, n, m), ReadChar \/ Return
    PROVE  QuotedProgress(args)'
<1> DEFINE c == arg[m + 1]
           d == EscapedAs(c)
           t == Inside(args, n, m + 1)
<1>1. args \in Seq(Seq(Chars)) /\ n \in Nat /\ arg \in Seq(Chars) /\ m \in Nat
    BY ArgumentType
<1>2. /\ state = "reading_string_typ_0_esc" /\ token = SubSeq(arg, 1, m)
      /\ m < Len(arg) /\ c \in {Quote, Backslash, Tab} /\ From(str, pos) = Put(d, t)
    BY DEF AfterBackslash
<1>3. c \in Chars /\ t \in Seq(Chars)
    BY <1>1, <1>2, InsideArgument
<1> HIDE DEF t
<1>4. d \in Chars /\ d # Nul /\ DoEscape(d) = c
    <2> HIDE DEF c
    <2> QED BY <1>2, <1>3, WrittenType
<1> HIDE DEF c, d
<1>5. Transition(d) = Row("push_escaped_char", "reading_string_typ_0", TRUE, FALSE)
    <2>1. Transition(d) = Escaped(d, "reading_string_typ_0")
        BY <1>2 DEF Transition
    <2> QED BY <1>4, <2>1, QuotedRows
<1>6. ReadChar
    BY <1>2, <1>3, <1>4, NoReturnBefore
<1>7. /\ ProcessChar(d) /\ outcome' = "running"
      /\ consume' = TRUE => From(str, pos)' = t
    BY <1>2, <1>3, <1>4, <1>6, ReadKnown
<1>8. /\ argv' = argv /\ token' = Append(token, c) /\ state' = "reading_string_typ_0"
      /\ consume' = TRUE
    BY <1>4, <1>5, <1>7, Effects
<1>9. token' = SubSeq(arg, 1, m + 1)
    BY <1>1, <1>2, <1>8, OneFurther DEF c
<1>10. m + 1 \in 0..Len(arg)
    BY <1>1, <1>2, LenProperties
<1>11. WithinQuotes(args, n, m + 1)'
    BY <1>7, <1>8, <1>9 DEF WithinQuotes, t
<1>12. Standing(args, n)'
    BY <1>10, <1>11 DEF Standing
<1> QED BY <1>7, <1>8, <1>12 DEF QuotedProgress

LEMMA FromBehindQuotes ==
    ASSUME IInv, NEW args \in ArgumentLists, NEW n \in 0..Len(args), argv = SubSeq(args, 1, n),
           outcome = "running", n < Len(args), BehindQuotes(args, n), ReadChar \/ Return
    PROVE  QuotedProgress(args)'
<1> DEFINE p == Parts(args)
           r == Put(Quote, Inside(args, n + 1, 0))
<1>1. args \in Seq(Seq(Chars)) /\ Len(args) \in Nat /\ n \in Nat /\ n + 1 <= Len(args)
      /\ n + 1 \in 0..Len(args) /\ n + 1 # 0 /\ n + 1 \in Nat
    BY ArgumentType, LenProperties
<1>2. /\ state = "reading_string_typ_0_end" /\ token = args[n + 1]
      /\ From(str, pos) = After(p, n + 1)
    BY DEF BehindQuotes, AfterArgument
<1>3. Transition(Space) = Finish /\ Transition(Nul) = Finish
    BY <1>2, QuotedRows DEF Transition
<1>4. Append(argv, token) = SubSeq(args, 1, n + 1)
    BY <1>1, <1>2, OneFurther
<1>5. n + 1 < Len(args) => From(str, pos) = Put(Space, r) /\ r \in Seq(Chars)
    BY <1>1, <1>2, BeforeArgument
<1>6. n + 1 = Len(args) => From(str, pos) = <<>>
    <2>1. p \in Seq(Seq(Chars)) /\ Len(p) = Len(args)
        BY <1>1, PartsType
    <2> QED BY <1>1, <1>2, <2>1, AfterAll
<1>7. Space \in Chars
    BY CharFacts
<1> HIDE DEF p, r
<1>8. CASE Return
    <2>1. n + 1 = Len(args)
        <3>1. ~(n + 1 < Len(args))
            BY <1>5, <1>7, <1>8, NoReturnBefore
        <3> QED BY <1>1, <3>1
    <2>2. ProcessChar(Nul) /\ outcome' = "returned"
        BY <1>8, ReturnAtEnd
    <2>3. argv' = Append(argv, token)
        BY <1>3, <2>2, Effects
    <2>4. SubSeq(args, 1, n + 1) = args
        BY <1>1, <2>1, SubSeqFull
    <2> QED BY <1>4, <2>2, <2>3, <2>4 DEF QuotedProgress
<1>9. CASE ReadChar
    <2>1. n + 1 < Len(args)
        <3>1. From(str, pos) # <<>>
            BY <1>9, ReadNeedsMore
        <3> QED BY <1>1, <1>6, <3>1
    <2>2. /\ ProcessChar(Space) /\ outcome' = "running"
          /\ consume' = FALSE => From(str, pos)' = From(str, pos)
        BY <1>5, <1>7, <1>9, <2>1, ReadKnown
    <2>3. /\ argv' = Append(argv, token) /\ state' = "waiting_for_start" /\ consume' = FALSE
        BY <1>3, <2>2, Effects
    <2>4. BeforeQuotes(args, n + 1)'
        BY <1>2, <2>2, <2>3 DEF BeforeQuotes, p
    <2>5. Standing(args, n + 1)'
        BY <2>4 DEF Standing
    <2> QED BY <1>1, <1>4, <2>2, <2>3, <2>5 DEF QuotedProgress
<1> QED BY <1>8, <1>9

LEMMA InitQuoted == Init => QuotedInv
<1> SUFFICES ASSUME Init, NEW args \in ArgumentLists, str = CommandLine(args)
             PROVE  QuotedProgress(args)
    BY DEF QuotedInv
<1> DEFINE p == Parts(args)
<1>1. /\ str \in Seq(Chars) /\ pos = 1 /\ argv = <<>> /\ outcome = "running"
      /\ state = "waiting_for_start"
    BY InputsAssumption DEF Init
<1>2. args \in Seq(Seq(Chars)) /\ 0 \in 0..Len(args)
    BY ArgumentType, LenProperties
<1>3. p \in Seq(Seq(Chars))
    BY <1>2, PartsType
<1>4. str = FlattenSeq(p)
    BY DEF CommandLine, Parts, Part
<1> HIDE DEF p
<1>5. After(p, 0) = str
    BY <1>3, <1>4, AfterNone
<1>6. From(str, pos) = str
    BY <1>1, SubSeqFull DEF From
<1>7. BeforeQuotes(args, 0)
    BY <1>1, <1>5, <1>6 DEF BeforeQuotes, p
<1>8. argv = SubSeq(args, 1, 0)
    BY <1>1, SubSeqEmpty
<1> QED BY <1>1, <1>2, <1>7, <1>8 DEF QuotedProgress, Standing

LEMMA NextQuoted ==
    ASSUME IInv, QuotedInv, [Next]_vars
    PROVE  QuotedInv'
<1> SUFFICES ASSUME NEW args \in ArgumentLists, str' = CommandLine(args)
             PROVE  QuotedProgress(args)'
    BY DEF QuotedInv
<1>1. str' = str
    BY DEF Next, ReadChar, Return, Terminate, vars
<1>2. QuotedProgress(args)
    BY <1>1 DEF QuotedInv
<1>3. CASE ReadChar \/ Return
    <2>1. outcome = "running"
        BY <1>3 DEF ReadChar, Return
    <2>2. PICK n \in 0..Len(args) : argv = SubSeq(args, 1, n) /\ Standing(args, n)
        BY <1>2, <2>1 DEF QuotedProgress
    <2>3. CASE BeforeQuotes(args, n)
        BY <1>3, <2>1, <2>2, <2>3, FromBeforeQuotes
    <2>4. CASE n < Len(args) /\ \E m \in 0..Len(args[n + 1]) : WithinQuotes(args, n, m)
        BY <1>3, <2>1, <2>2, <2>4, FromWithinQuotes
    <2>5. CASE n < Len(args) /\ \E m \in 0..Len(args[n + 1]) : AfterBackslash(args, n, m)
        BY <1>3, <2>1, <2>2, <2>5, FromAfterBackslash
    <2>6. CASE n < Len(args) /\ BehindQuotes(args, n)
        BY <1>3, <2>1, <2>2, <2>6, FromBehindQuotes
    <2> QED BY <2>2, <2>3, <2>4, <2>5, <2>6 DEF Standing
<1>4. CASE Terminate
    <2>1. outcome = "running" /\ state = "reading_string_typ_1"
        BY <1>4 DEF Terminate, HasRow
    <2>2. \A n : ~Standing(args, n)
        BY <2>1 DEF Standing, BeforeQuotes, WithinQuotes, AfterBackslash, BehindQuotes
    <2> QED BY <1>2, <2>1, <2>2 DEF QuotedProgress
<1>5. CASE UNCHANGED vars
    BY <1>2, <1>5 DEF vars, QuotedProgress, Standing, BeforeQuotes, WithinQuotes,
                      AfterBackslash, BehindQuotes
<1> QED BY <1>3, <1>4, <1>5 DEF Next

\* make_argv against its two reference definitions, for every string and every list
\* of arguments: a list written in quotes, with a backslash before quotes and backslashes
\* and \t for a tab, is what it returns, and a string of letters and blanks is split
\* into its words.
THEOREM ArgvSplitsAsMeant == Spec => []SplitsAsMeant
<1>1. Init => PlainInv /\ QuotedInv
    BY InitPlain, InitQuoted
<1>2. IInv /\ PlainInv /\ QuotedInv /\ [Next]_vars => PlainInv' /\ QuotedInv'
    BY NextPlain, NextQuoted
<1>3. PlainInv => PlainWordsAreSplit
    BY DEF PlainInv, Plain, PlainProgress, PlainWordsAreSplit
<1>4. QuotedInv => QuotingRoundTrips
    BY ArgumentsAssumption
       DEF QuotedInv, QuotedProgress, QuotingRoundTrips, CommandLines, ArgumentLists
<1>5. PlainInv /\ QuotedInv => SplitsAsMeant
    BY <1>3, <1>4 DEF SplitsAsMeant
<1> QED BY <1>1, <1>2, <1>5, InvariantHolds, PTL DEF Spec

-----------------------------------------------------------------------------
\* The escapes in the text of an identifier.

LEMMA MarkFacts ==
    /\ KeyEnd \in Chars \ {Nul} /\ PairEnd \in Chars \ {Nul} /\ EscapeMark \in Chars \ {Nul}
    /\ KeyEnd # PairEnd /\ KeyEnd # EscapeMark /\ PairEnd # EscapeMark
    /\ Clean \subseteq Chars \ {Nul}
    /\ KeyEnd \notin Clean /\ PairEnd \notin Clean /\ EscapeMark \notin Clean
<1>1. KeyEnd \in Chars /\ PairEnd \in Chars
    BY SeparatorsAssumption DEF Chars
<1>2. EscapeMark \in Chars
    BY DEF Chars, EscapeMark, Backslash
<1>3. KeyEnd # Nul /\ PairEnd # Nul /\ EscapeMark # Nul
    BY DEF KeyEnd, PairEnd, EscapeMark, Nul
<1>4. KeyEnd # PairEnd /\ KeyEnd # EscapeMark /\ PairEnd # EscapeMark
    BY DEF KeyEnd, PairEnd, EscapeMark
<1> QED BY <1>1, <1>2, <1>3, <1>4 DEF Clean

\* A character as escaped_copy writes it.
Marks == {KeyEnd, PairEnd, EscapeMark}
Copied(c) == IF c \in Marks THEN <<EscapeMark, c>> ELSE <<c>>
Copies(s) == [n \in DOMAIN s |-> Copied(s[n])]

LEMMA EscapedAre == \A s : EscapedCopy(s) = FlattenSeq(Copies(s))
BY DEF EscapedCopy, Copies, Copied, Marks

LEMMA CopiedType ==
    ASSUME NEW S, EscapeMark \in S, NEW c \in S
    PROVE  /\ Copied(c) \in Seq(S) /\ Copied(c)[1] \in S
           /\ c \in Marks => Len(Copied(c)) = 2 /\ Copied(c)[1] = EscapeMark
                             /\ Copied(c)[2] = c
           /\ c \notin Marks => Len(Copied(c)) = 1 /\ Copied(c)[1] = c /\ Copied(c) = <<c>>
<1>1. CASE c \in Marks
    <2>1. Copied(c) = <<EscapeMark, c>>
        BY <1>1 DEF Copied
    <2> QED BY <1>1, <2>1, PairType
<1>2. CASE c \notin Marks
    <2>1. Copied(c) = <<c>>
        BY <1>2 DEF Copied
    <2> QED BY <1>2, <2>1, OneType
<1> QED BY <1>1, <1>2

LEMMA CopiesType ==
    ASSUME NEW S, EscapeMark \in S, NEW s \in Seq(S)
    PROVE  Copies(s) \in Seq(Seq(S)) /\ Len(Copies(s)) = Len(s)
<1> DEFINE n == Len(s)
<1>1. n \in Nat /\ DOMAIN s = 1..n /\ \A k \in 1..n : s[k] \in S
    BY LenProperties, ElementOfSeq
<1>2. Copies(s) \in [1..n -> Seq(S)]
    BY <1>1, CopiedType DEF Copies
<1> HIDE DEF n
<1>3. Copies(s) \in Seq(Seq(S)) /\ Len(Copies(s)) = n
    BY <1>1, <1>2, FunctionIsSequence
<1> QED BY <1>3 DEF n

LEMMA EscapedType ==
    ASSUME NEW S, EscapeMark \in S, NEW s \in Seq(S)
    PROVE  EscapedCopy(s) \in Seq(S)
BY CopiesType, FlattenType, EscapedAre

LEMMA EscapedNone == EscapedCopy(<<>>) = <<>>
<1>1. Copies(<<>>) = <<>>
    BY NoneOfNothing DEF Copies
<1> QED BY <1>1, EscapedAre, FlattenEmpty

\* The first element of a sequence, and the others.
LEMMA FirstAndOthers ==
    ASSUME NEW S, NEW s \in Seq(S), s # <<>>
    PROVE  /\ s[1] \in S /\ Tail(s) \in Seq(S) /\ Len(s) \in Nat /\ Len(s) >= 1
           /\ Len(Tail(s)) = Len(s) - 1
           /\ \A k \in 1..Len(s) - 1 : Tail(s)[k] = s[k + 1]
           /\ s = <<s[1]>> \o Tail(s)
<1> DEFINE t == Tail(s)
           n == Len(s)
           one == <<s[1]>>
           w == one \o t
<1>1. n \in Nat /\ n >= 1
    BY LenProperties, EmptySeq
<1>2. t \in Seq(S) /\ Len(t) = n - 1 /\ \A k \in 1..Len(t) : t[k] = s[k + 1]
    BY HeadTailProperties
<1>3. s[1] \in S
    BY <1>1, ElementOfSeq
<1>4. one \in Seq(S) /\ Len(one) = 1 /\ one[1] = s[1]
    BY <1>3, OneType
<1> HIDE DEF one, t, n
<1>5. /\ w \in Seq(S) /\ Len(w) = 1 + (n - 1)
      /\ \A k \in 1..1 + (n - 1) : w[k] = IF k <= 1 THEN one[k] ELSE t[k - 1]
    <2> DEFINE a == 1
               b == n - 1
    <2>1. one \in Seq(S)
        BY <1>4
    <2>2. t \in Seq(S)
        BY <1>2
    <2>3. a = Len(one)
        BY <1>4
    <2>4. b = Len(t)
        BY <1>2
    <2> HIDE DEF a, b
    <2>5. /\ w \in Seq(S) /\ Len(w) = a + b
          /\ \A k \in 1..a + b : w[k] = IF k <= a THEN one[k] ELSE t[k - a]
        BY <2>1, <2>2, <2>3, <2>4, ConcatElements
    <2> QED BY <2>5 DEF a, b
<1>6. 1 + (n - 1) = n
    BY <1>1
<1>7. ASSUME NEW k \in 1..n PROVE w[k] = s[k]
    <2>1. w[k] = IF k <= 1 THEN one[k] ELSE t[k - 1]
        BY <1>5, <1>6
    <2>2. CASE k = 1
        BY <1>4, <2>1, <2>2
    <2>3. CASE k # 1
        <3>1. k - 1 \in 1..Len(t) /\ (k - 1) + 1 = k /\ ~(k <= 1)
            BY <1>1, <1>2, <2>3
        <3> QED BY <1>2, <2>1, <3>1
    <2> QED BY <2>2, <2>3
<1> HIDE DEF w
<1>8. w = s
    BY <1>5, <1>6, <1>7, SeqEqual DEF n
<1> QED BY <1>1, <1>2, <1>3, <1>8 DEF w, one, t, n

LEMMA EscapedCons ==
    ASSUME NEW S, EscapeMark \in S, NEW s \in Seq(S), s # <<>>
    PROVE  EscapedCopy(s) = Copied(s[1]) \o EscapedCopy(Tail(s))
<1> DEFINE t == Tail(s)
           n == Len(s)
           f == Copies(s)
           g == Copies(t)
<1>1. /\ s[1] \in S /\ t \in Seq(S) /\ n \in Nat /\ n >= 1 /\ Len(t) = n - 1
      /\ \A k \in 1..n - 1 : t[k] = s[k + 1]
    BY FirstAndOthers
<1>2. DOMAIN s = 1..n /\ DOMAIN t = 1..n - 1
    BY <1>1, LenProperties
<1>3. f \in Seq(Seq(S)) /\ Len(f) = n /\ g \in Seq(Seq(S)) /\ Len(g) = n - 1
    BY <1>1, CopiesType
<1>4. /\ \A k \in 1..n : f[k] = Copied(s[k])
      /\ \A k \in 1..n - 1 : g[k] = Copied(t[k])
    BY <1>2 DEF Copies
<1> HIDE DEF f, g, t, n
<1>5. f # <<>>
    BY <1>1, <1>3, NoneOfNothing
<1>6. Tail(f) = g
    <2>1. Tail(f) \in Seq(Seq(S)) /\ Len(Tail(f)) = n - 1 /\ \A k \in 1..n - 1 : Tail(f)[k] = f[k + 1]
        BY <1>3, <1>5, FirstAndOthers
    <2>2. \A k \in 1..n - 1 : Tail(f)[k] = g[k]
        BY <1>1, <1>4, <2>1
    <2> QED BY <1>3, <2>1, <2>2, SeqEqual
<1>7. FlattenSeq(f) = f[1] \o FlattenSeq(g)
    BY <1>3, <1>5, <1>6, FlattenCons
<1>8. f[1] = Copied(s[1])
    BY <1>1, <1>4
<1> QED BY <1>7, <1>8, EscapedAre DEF f, g, t

LEMMA EscapedClean ==
    ASSUME NEW s \in Seq(Clean)
    PROVE  EscapedCopy(s) = s
<1> DEFINE D == {m \in Nat : \A x \in Seq(Clean) : Len(x) = m => EscapedCopy(x) = x}
<1>1. 0 \in D
    <2>1. \A x \in Seq(Clean) : Len(x) = 0 => x = <<>>
        BY EmptySeq
    <2> QED BY <2>1, EscapedNone
<1>2. ASSUME NEW m \in Nat, m \in D
      PROVE  m + 1 \in D
    <2>1. ASSUME NEW x \in Seq(Clean), Len(x) = m + 1
          PROVE  EscapedCopy(x) = x
        <3> DEFINE t == Tail(x)
                   c == x[1]
        <3>1. x # <<>>
            BY <2>1, NoneOfNothing
        <3>2. c \in Clean /\ t \in Seq(Clean) /\ Len(t) = m /\ x = <<c>> \o t
            <4>1. Len(t) = (m + 1) - 1
                BY <2>1, <3>1, FirstAndOthers
            <4> QED BY <3>1, <4>1, FirstAndOthers
        <3>3. EscapedCopy(t) = t
            BY <1>2, <3>2
        <3>4. EscapedCopy(x) = Copied(c) \o EscapedCopy(t)
            <4> DEFINE S == Clean \cup {EscapeMark}
            <4>1. x \in Seq(S)
                <5>1. Clean \subseteq S
                    OBVIOUS
                <5> HIDE DEF S
                <5> QED BY <5>1
            <4>2. EscapeMark \in S
                OBVIOUS
            <4> HIDE DEF S
            <4> QED BY <3>1, <4>1, <4>2, EscapedCons
        <3>5. Copied(c) = <<c>>
            BY <3>2, MarkFacts DEF Copied, Marks
        <3> HIDE DEF c, t
        <3> QED BY <3>2, <3>3, <3>4, <3>5
    <2> QED BY <2>1
<1>3. \A m \in Nat : m \in D
    <2> HIDE DEF D
    <2> QED BY <1>1, <1>2, SetInduction
<1>4. Len(s) \in Nat
    BY LenProperties
<1> QED BY <1>3, <1>4

\* Every semicolon is behind a backslash.
Guarded(s) == \A k \in 1..Len(s) : s[k] = PairEnd => k > 1 /\ s[k - 1] = EscapeMark

LEMMA GuardedJoined ==
    ASSUME NEW S, NEW s \in Seq(S), NEW t \in Seq(S), Guarded(s), Guarded(t)
    PROVE  Guarded(s \o t)
<1> DEFINE a == Len(s)
           b == Len(t)
           w == s \o t
<1>1. a \in Nat /\ b \in Nat
    BY LenProperties
<1>2. /\ Len(w) = a + b
      /\ \A k \in 1..a + b : w[k] = IF k <= a THEN s[k] ELSE t[k - a]
    BY ConcatElements
<1>3. /\ \A k \in 1..a : s[k] = PairEnd => k > 1 /\ s[k - 1] = EscapeMark
      /\ \A k \in 1..b : t[k] = PairEnd => k > 1 /\ t[k - 1] = EscapeMark
    BY DEF Guarded
<1> HIDE DEF a, b, w
<1>4. ASSUME NEW k \in 1..a + b, w[k] = PairEnd
      PROVE  k > 1 /\ w[k - 1] = EscapeMark
    <2>1. CASE k <= a
        <3>1. k \in 1..a /\ s[k] = PairEnd
            BY <1>1, <1>2, <1>4, <2>1
        <3>2. k > 1 /\ s[k - 1] = EscapeMark
            BY <1>3, <3>1
        <3>3. k - 1 \in 1..a + b /\ k - 1 <= a
            BY <1>1, <2>1, <3>2
        <3> QED BY <1>2, <3>2, <3>3
    <2>2. CASE ~(k <= a)
        <3>1. k - a \in 1..b /\ t[k - a] = PairEnd
            BY <1>1, <1>2, <1>4, <2>2
        <3>2. k - a > 1 /\ t[(k - a) - 1] = EscapeMark
            BY <1>3, <3>1
        <3>3. k - 1 \in 1..a + b /\ ~(k - 1 <= a) /\ (k - 1) - a = (k - a) - 1 /\ k > 1
            BY <1>1, <2>2, <3>2
        <3> QED BY <1>2, <3>2, <3>3
    <2> QED BY <2>1, <2>2
<1>5. Guarded(w)
    BY <1>2, <1>4 DEF Guarded
<1> QED BY <1>5 DEF w

LEMMA EscapedGuarded ==
    ASSUME NEW s \in Seq(Chars)
    PROVE  Guarded(EscapedCopy(s))
<1> DEFINE D == {m \in Nat : \A x \in Seq(Chars) : Len(x) = m => Guarded(EscapedCopy(x))}
<1>1. 0 \in D
    <2>1. \A x \in Seq(Chars) : Len(x) = 0 => x = <<>>
        BY EmptySeq
    <2>2. Guarded(<<>>)
        BY NoneOfNothing DEF Guarded
    <2> QED BY <2>1, <2>2, EscapedNone
<1>2. ASSUME NEW m \in Nat, m \in D
      PROVE  m + 1 \in D
    <2>1. ASSUME NEW x \in Seq(Chars), Len(x) = m + 1
          PROVE  Guarded(EscapedCopy(x))
        <3> DEFINE t == Tail(x)
                   c == x[1]
                   u == Copied(c)
                   e == EscapedCopy(t)
        <3>1. x # <<>>
            BY <2>1, NoneOfNothing
        <3>2. c \in Chars /\ t \in Seq(Chars) /\ Len(t) = m
            <4>1. Len(t) = (m + 1) - 1
                BY <2>1, <3>1, FirstAndOthers
            <4> QED BY <3>1, <4>1, FirstAndOthers
        <3>3. Guarded(e)
            BY <1>2, <3>2
        <3>4. EscapedCopy(x) = u \o e
            BY <3>1, MarkFacts, EscapedCons
        <3>5. u \in Seq(Chars) /\ e \in Seq(Chars)
            BY <3>2, MarkFacts, CopiedType, EscapedType
        <3>6. Guarded(u)
            <4>1. CASE c \in Marks
                <5>1. Len(u) = 2 /\ u[1] = EscapeMark
                    BY <3>2, <4>1, MarkFacts, CopiedType
                <5> HIDE DEF u
                <5>2. \A k \in 1..2 : u[k] = PairEnd => k > 1 /\ u[k - 1] = EscapeMark
                    BY <5>1, MarkFacts
                <5> QED BY <5>1, <5>2 DEF Guarded
            <4>2. CASE c \notin Marks
                <5>1. Len(u) = 1 /\ u[1] = c /\ c # PairEnd
                    BY <3>2, <4>2, MarkFacts, CopiedType DEF Marks
                <5> HIDE DEF u
                <5> QED BY <5>1 DEF Guarded
            <4> QED BY <4>1, <4>2
        <3> HIDE DEF u, e
        <3> QED BY <3>3, <3>4, <3>5, <3>6, GuardedJoined
    <2> QED BY <2>1
<1>3. \A m \in Nat : m \in D
    <2> HIDE DEF D
    <2> QED BY <1>1, <1>2, SetInduction
<1>4. Len(s) \in Nat
    BY LenProperties
<1> QED BY <1>3, <1>4

\* What the escapes wrote tells what they were written for.
LEMMA EscapedSame ==
    ASSUME NEW s \in Seq(Chars), NEW t \in Seq(Chars), EscapedCopy(s) = EscapedCopy(t)
    PROVE  s = t
<1> DEFINE D == {m \in Nat : \A x, y \in Seq(Chars) :
                    Len(x) = m /\ EscapedCopy(x) = EscapedCopy(y) => x = y}
<1>1. ASSUME NEW x \in Seq(Chars), x # <<>>
      PROVE  /\ Len(EscapedCopy(x)) > 0
             /\ x[1] \in Marks => EscapedCopy(x)[1] = EscapeMark
             /\ x[1] \notin Marks => EscapedCopy(x)[1] = x[1]
    <2> DEFINE c == x[1]
               u == Copied(c)
               e == EscapedCopy(Tail(x))
               a == Len(u)
               b == Len(e)
    <2>1. c \in Chars /\ e \in Seq(Chars) /\ EscapedCopy(x) = u \o e
        BY <1>1, MarkFacts, FirstAndOthers, EscapedType, EscapedCons
    <2>2. /\ u \in Seq(Chars)
          /\ c \in Marks => a = 2 /\ u[1] = EscapeMark
          /\ c \notin Marks => a = 1 /\ u[1] = c
        BY <2>1, MarkFacts, CopiedType
    <2>3. a \in Nat /\ a >= 1 /\ b \in Nat
        BY <2>1, <2>2, LenProperties
    <2> HIDE DEF c, u, e
    <2>4. Len(u \o e) = a + b /\ \A k \in 1..a + b : (u \o e)[k] = IF k <= a THEN u[k] ELSE e[k - a]
        BY <2>1, <2>2, ConcatElements
    <2> HIDE DEF a, b
    <2>5. 1 \in 1..a + b /\ 1 <= a /\ a + b > 0
        BY <2>3
    <2>6. (u \o e)[1] = u[1]
        BY <2>4, <2>5
    <2> QED BY <2>1, <2>2, <2>4, <2>5, <2>6 DEF c
<1>2. 0 \in D
    <2>1. ASSUME NEW x \in Seq(Chars), NEW y \in Seq(Chars), Len(x) = 0,
                 EscapedCopy(x) = EscapedCopy(y)
          PROVE  x = y
        <3>1. x = <<>>
            BY <2>1, EmptySeq
        <3>2. Len(EscapedCopy(y)) = 0
            BY <2>1, <3>1, EscapedNone, NoneOfNothing
        <3>3. y = <<>>
            BY <1>1, <3>2
        <3> QED BY <3>1, <3>3
    <2> QED BY <2>1
<1>3. ASSUME NEW m \in Nat, m \in D
      PROVE  m + 1 \in D
    <2>1. ASSUME NEW x \in Seq(Chars), NEW y \in Seq(Chars), Len(x) = m + 1,
                 EscapedCopy(x) = EscapedCopy(y)
          PROVE  x = y
        <3> DEFINE c == x[1]
                   d == y[1]
                   u == Copied(c)
                   v == Copied(d)
                   e == EscapedCopy(Tail(x))
                   f == EscapedCopy(Tail(y))
        <3>1. x # <<>>
            BY <2>1, NoneOfNothing
        <3>2. y # <<>>
            <4> SUFFICES ASSUME y = <<>> PROVE FALSE
                OBVIOUS
            <4>1. Len(EscapedCopy(x)) = 0
                BY <2>1, EscapedNone, NoneOfNothing
            <4> QED BY <1>1, <3>1, <4>1
        <3>3. /\ c \in Chars /\ Tail(x) \in Seq(Chars) /\ x = <<c>> \o Tail(x)
              /\ d \in Chars /\ Tail(y) \in Seq(Chars) /\ y = <<d>> \o Tail(y)
            BY <3>1, <3>2, FirstAndOthers
        <3>4. Len(Tail(x)) = m
            <4>1. Len(Tail(x)) = (m + 1) - 1
                BY <2>1, <3>1, FirstAndOthers
            <4> QED BY <4>1
        <3>5. EscapedCopy(x) = u \o e /\ EscapedCopy(y) = v \o f
            BY <3>1, <3>2, MarkFacts, EscapedCons
        <3>6. /\ u \in Seq(Chars) /\ v \in Seq(Chars) /\ e \in Seq(Chars) /\ f \in Seq(Chars)
            BY <3>3, MarkFacts, CopiedType, EscapedType
        <3>7. c \in Marks <=> d \in Marks
            BY <1>1, <2>1, <3>1, <3>2 DEF Marks
        <3>8. Len(u) = Len(v)
            BY <3>3, <3>7, MarkFacts, CopiedType
        <3>9. u = v /\ e = f
            <4> HIDE DEF u, v, e, f
            <4> QED BY <2>1, <3>5, <3>6, <3>8, SameStart
        <3>10. c = d
            <4>1. /\ c \in Marks => u[2] = c
                  /\ d \in Marks => v[2] = d
                  /\ c \notin Marks => u[1] = c
                  /\ d \notin Marks => v[1] = d
                BY <3>3, MarkFacts, CopiedType
            <4> HIDE DEF u, v, c, d
            <4> QED BY <3>7, <3>9, <4>1
        <3>11. Tail(x) = Tail(y)
            BY <1>3, <3>3, <3>4, <3>9
        <3> HIDE DEF c, d
        <3> QED BY <3>3, <3>10, <3>11
    <2> QED BY <2>1
<1>4. \A m \in Nat : m \in D
    <2> HIDE DEF D
    <2> QED BY <1>2, <1>3, SetInduction
<1>5. Len(s) \in Nat
    BY LenProperties
<1> QED BY <1>4, <1>5

-----------------------------------------------------------------------------
\* The parts of a sequence that is joined from two.

LEMMA PartsOfJoined ==
    ASSUME NEW S, NEW x \in Seq(S), NEW y \in Seq(S)
    PROVE  /\ SubSeq(x \o y, 1, Len(x)) = x
           /\ From(x \o y, Len(x) + 1) = y
<1> DEFINE a == Len(x)
           b == Len(y)
           w == x \o y
           front == SubSeq(w, 1, a)
           rest == SubSeq(w, a + 1, Len(w))
<1>1. a \in Nat /\ b \in Nat
    BY LenProperties
<1>2. /\ w \in Seq(S) /\ Len(w) = a + b
      /\ \A k \in 1..a + b : w[k] = IF k <= a THEN x[k] ELSE y[k - a]
    BY ConcatElements
<1>3. x \in Seq(S) /\ Len(x) = a /\ y \in Seq(S) /\ Len(y) = b
    OBVIOUS
<1> HIDE DEF a, b, w
<1>4. /\ a <= a + b /\ a + 1 >= 1 /\ a + 1 <= (a + b) + 1
      /\ a + 1 - 1 = a /\ (a + b) + 1 - (a + 1) = b /\ a + b \in Nat /\ a + 1 \in Nat
    BY <1>1
<1>5. /\ front \in Seq(S) /\ Len(front) = a + 1 - 1
      /\ \A k \in 1..a + 1 - 1 : front[k] = w[1 + k - 1]
    BY <1>1, <1>2, <1>4, PartFacts
<1>6. /\ rest \in Seq(S) /\ Len(rest) = (a + b) + 1 - (a + 1)
      /\ \A k \in 1..(a + b) + 1 - (a + 1) : rest[k] = w[(a + 1) + k - 1]
    BY <1>2, <1>4, PartFacts
<1> HIDE DEF front, rest
<1>7. front = x
    <2>1. ASSUME NEW k \in 1..a PROVE front[k] = x[k]
        <3>1. k \in 1..a + b /\ k <= a /\ 1 + k - 1 = k /\ k \in 1..a + 1 - 1
            BY <1>1
        <3> QED BY <1>2, <1>5, <3>1
    <2> QED BY <1>3, <1>4, <1>5, <2>1, SeqEqual
<1>8. rest = y
    <2>1. ASSUME NEW k \in 1..b PROVE rest[k] = y[k]
        <3>1. /\ a + k \in 1..a + b /\ ~(a + k <= a) /\ (a + k) - a = k
              /\ (a + 1) + k - 1 = a + k /\ k \in 1..(a + b) + 1 - (a + 1)
            BY <1>1
        <3> QED BY <1>2, <1>6, <3>1
    <2> QED BY <1>3, <1>4, <1>6, <2>1, SeqEqual
<1> QED BY <1>7, <1>8 DEF From, front, rest, w, a

LEMMA FlattenTwo ==
    ASSUME NEW S, NEW s \in Seq(Seq(S)), NEW n \in Nat, n >= 1, n < Len(s),
           \A k \in 1..Len(s) : k # 1 /\ k # n + 1 => s[k] = <<>>
    PROVE  FlattenSeq(s) = s[1] \o s[n + 1]
<1> DEFINE m == Len(s)
<1>1. m \in Nat /\ 0 < m /\ n < m /\ n + 1 <= m
    BY LenProperties
<1>2. ASSUME NEW a \in Nat, a <= m, NEW d \in Nat, a + d <= m,
             \A k \in a + 1..a + d : s[k] = <<>>
      PROVE  After(s, a) = After(s, a + d)
    <2> DEFINE D == {e \in Nat : e <= d => After(s, a) = After(s, a + e)}
    <2>1. 0 \in D
        OBVIOUS
    <2>2. ASSUME NEW e \in Nat, e \in D
          PROVE  e + 1 \in D
        <3>1. ASSUME e + 1 <= d
              PROVE  After(s, a) = After(s, a + (e + 1))
            <4> DEFINE b == a + e
            <4>1. b \in Nat /\ b < m /\ b + 1 \in a + 1..a + d /\ a + (e + 1) = b + 1 /\ e <= d
                BY <1>1, <1>2, <3>1
            <4>2. After(s, a) = After(s, b)
                BY <2>2, <4>1
            <4> HIDE DEF b
            <4>3. /\ After(s, b) = s[b + 1] \o After(s, b + 1)
                  /\ After(s, b + 1) \in Seq(S)
                BY <4>1, AfterOne
            <4>4. s[b + 1] = <<>>
                BY <1>2, <4>1
            <4>5. <<>> \o After(s, b + 1) = After(s, b + 1)
                BY <4>3, ConcatEmptySeq
            <4>6. After(s, b) = After(s, b + 1)
                BY <4>3, <4>4, <4>5
            <4> QED BY <4>1, <4>2, <4>6
        <3> QED BY <3>1
    <2>3. \A e \in Nat : e \in D
        <3> HIDE DEF D
        <3> QED BY <2>1, <2>2, SetInduction
    <2>4. d \in D /\ d <= d
        BY <1>2, <2>3
    <2> QED BY <2>4
<1>3. FlattenSeq(s) = After(s, 0)
    BY AfterNone
<1>4. After(s, 0) = s[1] \o After(s, 1)
    <2>1. After(s, 0) = s[0 + 1] \o After(s, 0 + 1)
        BY <1>1, AfterOne
    <2>2. 0 + 1 = 1
        OBVIOUS
    <2> QED BY <2>1, <2>2
<1>5. After(s, 1) = After(s, n)
    <2>1. /\ n - 1 \in Nat /\ 1 <= m /\ 1 + (n - 1) = n /\ 1 + (n - 1) <= m
          /\ \A k \in 1 + 1..1 + (n - 1) : k \in 1..m /\ k # 1 /\ k # n + 1
        BY <1>1
    <2>2. \A k \in 1 + 1..1 + (n - 1) : s[k] = <<>>
        BY <2>1
    <2>3. After(s, 1) = After(s, 1 + (n - 1))
        BY <1>2, <2>1, <2>2
    <2> QED BY <2>1, <2>3
<1>6. After(s, n) = s[n + 1] \o After(s, n + 1) /\ s[n + 1] \in Seq(S)
    BY <1>1, AfterOne
<1>7. After(s, n + 1) = <<>>
    <2> DEFINE a == n + 1
               d == m - a
    <2>1. /\ a \in Nat /\ d \in Nat /\ a <= m /\ a + d = m /\ a + d <= m
          /\ \A k \in a + 1..a + d : k \in 1..m /\ k # 1 /\ k # n + 1
        BY <1>1
    <2>2. \A k \in a + 1..a + d : s[k] = <<>>
        BY <2>1
    <2> HIDE DEF a, d
    <2>3. After(s, a) = After(s, a + d)
        BY <1>2, <2>1, <2>2
    <2>4. After(s, m) = <<>>
        <3>1. m >= Len(s)
            BY <1>1
        <3> HIDE DEF m
        <3> QED BY <1>1, <3>1, AfterAll
    <2> QED BY <2>1, <2>3, <2>4 DEF a
<1>8. s[n + 1] \o <<>> = s[n + 1]
    BY <1>6, ConcatEmptySeq
<1>9. After(s, 1) = s[n + 1]
    BY <1>5, <1>6, <1>7, <1>8
<1> QED BY <1>3, <1>4, <1>9

-----------------------------------------------------------------------------
\* The text of an identifier, and the identifier that is read from it.

\* A key with what stands behind its colon.
Text(key, value) == (key \o <<KeyEnd>>) \o value

LEMMA TextType ==
    ASSUME NEW S, KeyEnd \in S, NEW key \in Seq(S), NEW value \in Seq(S)
    PROVE  /\ Text(key, value) \in Seq(S)
           /\ Len(Text(key, value)) = (Len(key) + 1) + Len(value)
           /\ \A k \in 1..Len(key) : Text(key, value)[k] = key[k]
           /\ Text(key, value)[Len(key) + 1] = KeyEnd
           /\ \A k \in 1..Len(value) : Text(key, value)[Len(key) + 1 + k] = value[k]
<1> DEFINE a == Len(key)
           b == Len(value)
           q == <<KeyEnd>>
           h == key \o q
           w == h \o value
           c == a + 1
<1>1. a \in Nat /\ b \in Nat /\ c \in Nat
    BY LenProperties
<1>2. q \in Seq(S) /\ Len(q) = 1 /\ q[1] = KeyEnd
    BY OneType
<1>3. a = Len(key) /\ b = Len(value)
    OBVIOUS
<1> HIDE DEF q, a, b
<1>4. /\ h \in Seq(S) /\ Len(h) = c
      /\ \A k \in 1..c : h[k] = IF k <= a THEN key[k] ELSE q[k - a]
    <2> DEFINE d == 1
    <2>1. d = Len(q)
        BY <1>2
    <2> HIDE DEF d
    <2>2. q \in Seq(S)
        BY <1>2
    <2>3. key \in Seq(S)
        OBVIOUS
    <2>4. a = Len(key)
        BY <1>3
    <2>5. /\ h \in Seq(S) /\ Len(h) = a + d
          /\ \A k \in 1..a + d : h[k] = IF k <= a THEN key[k] ELSE q[k - a]
        BY <2>1, <2>2, <2>3, <2>4, ConcatElements
    <2> QED BY <2>5 DEF d
<1> HIDE DEF h
<1>5. /\ w \in Seq(S) /\ Len(w) = c + b
      /\ \A k \in 1..c + b : w[k] = IF k <= c THEN h[k] ELSE value[k - c]
    <2>1. h \in Seq(S)
        BY <1>4
    <2>2. value \in Seq(S)
        OBVIOUS
    <2>3. c = Len(h)
        BY <1>4
    <2>4. b = Len(value)
        BY <1>3
    <2> HIDE DEF c
    <2> QED BY <2>1, <2>2, <2>3, <2>4, ConcatElements
<1> HIDE DEF w
<1>6. \A k \in 1..a : w[k] = key[k]
    <2>1. \A k \in 1..a : k \in 1..c /\ k \in 1..c + b /\ k <= a /\ k <= c
        BY <1>1
    <2> QED BY <1>4, <1>5, <2>1
<1>7. w[c] = KeyEnd
    <2>1. c \in 1..c /\ c \in 1..c + b /\ ~(c <= a) /\ c <= c /\ c - a = 1
        BY <1>1
    <2> QED BY <1>2, <1>4, <1>5, <2>1
<1>8. ASSUME NEW k \in 1..b PROVE w[c + k] = value[k]
    <2>1. c + k \in 1..c + b /\ ~(c + k <= c) /\ (c + k) - c = k
        BY <1>1
    <2> QED BY <1>5, <2>1
<1>9. Text(key, value) = w
    BY DEF Text, w, h, q
<1> QED BY <1>3, <1>5, <1>6, <1>7, <1>8, <1>9

LEMMA CleanFacts ==
    ASSUME NEW s \in Seq(Clean)
    PROVE  /\ s \in Seq(Chars) /\ s \in Seq(Chars \ {Nul}) /\ Len(s) \in Nat
           /\ \A k \in 1..Len(s) : s[k] # KeyEnd /\ s[k] # PairEnd /\ s[k] # EscapeMark
<1>1. Clean \subseteq Chars /\ Clean \subseteq Chars \ {Nul}
    BY DEF Clean
<1>2. \A k \in 1..Len(s) : s[k] \in Clean
    BY ElementOfSeq
<1>3. \A k \in 1..Len(s) : s[k] # KeyEnd /\ s[k] # PairEnd /\ s[k] # EscapeMark
    BY <1>2, MarkFacts
<1> DEFINE C == Chars \ {Nul}
<1>4. Clean \subseteq C
    BY <1>1
<1> HIDE DEF C
<1>5. s \in Seq(Chars) /\ s \in Seq(C) /\ Len(s) \in Nat
    BY <1>1, <1>4, LenProperties
<1> QED BY <1>3, <1>5 DEF C

\* A key without a mark ends at the first colon.
LEMMA SplitText ==
    ASSUME NEW key \in Seq(Clean), NEW value \in Seq(Chars)
    PROVE  SplitPair(Text(key, value)) = <<key, value>>
<1> DEFINE w == Text(key, value)
           a == Len(key)
           b == Len(value)
           c == a + 1
           T == {n \in DOMAIN w : w[n] = KeyEnd /\ EscapeCount(w, n) % 2 = 0}
<1>1. KeyEnd \in Chars /\ key \in Seq(Chars) /\ a \in Nat /\ b \in Nat /\ c \in Nat
    BY CleanFacts, MarkFacts, LenProperties
<1>2. /\ w \in Seq(Chars) /\ Len(w) = c + b
      /\ \A k \in 1..a : w[k] = key[k]
      /\ w[c] = KeyEnd
    BY <1>1, TextType
<1>3. DOMAIN w = 1..c + b
    BY <1>2, LenProperties
<1>4. \A k \in 1..a : key[k] # KeyEnd /\ key[k] # EscapeMark
    BY CleanFacts
<1> HIDE DEF w, a, b
<1>5. EscapeCount(w, c) = 0
    <2> DEFINE E == {k \in 1..(c - 1) : \A j \in k..(c - 1) : w[j] = EscapeMark}
    <2>1. ASSUME NEW k \in E PROVE FALSE
        <3>1. k \in 1..a /\ a \in 1..a /\ a \in k..(c - 1)
            BY <1>1, <2>1
        <3>2. w[a] = EscapeMark
            BY <2>1, <3>1
        <3> QED BY <1>2, <1>4, <3>1, <3>2
    <2>2. E = {}
        BY <2>1
    <2>3. EscapeCount(w, c) = Cardinality(E)
        BY DEF EscapeCount
    <2> HIDE DEF E
    <2> QED BY <2>2, <2>3, FS_EmptySet
<1>6. 0 % 2 = 0
    OBVIOUS
<1>7. c \in T
    <2>1. c \in 1..c + b
        BY <1>1
    <2> QED BY <1>2, <1>3, <1>5, <1>6, <2>1
<1>8. T \subseteq Nat
    BY <1>3
<1>9. \A n \in T : n \in 1..c + b /\ w[n] = KeyEnd
    BY <1>3
<1> DEFINE m == Min(T)
<1>10. SplitPair(w) = IF T = {} THEN <<<<>>, w>>
                      ELSE <<SubSeq(w, 1, m - 1), SubSeq(w, m + 1, Len(w))>>
    BY DEF SplitPair
<1> HIDE DEF T
<1>11. m \in T /\ m <= c
    BY <1>7, <1>8, MinFacts
<1>12. m = c
    <2> SUFFICES ASSUME m # c PROVE FALSE
        OBVIOUS
    <2>1. m \in 1..c + b /\ w[m] = KeyEnd
        BY <1>9, <1>11
    <2>2. m \in 1..a
        BY <1>1, <1>11, <2>1
    <2> QED BY <1>2, <1>4, <2>1, <2>2
<1>13. SplitPair(w) = <<SubSeq(w, 1, m - 1), SubSeq(w, m + 1, Len(w))>>
    BY <1>7, <1>10
<1>14. c - 1 = a
    BY <1>1
<1>15. SubSeq(w, 1, a) = key
    <2> DEFINE q == <<KeyEnd>>
               r == q \o value
    <2>1. q \in Seq(Chars)
        BY <1>1, OneType
    <2> HIDE DEF q
    <2>2. r \in Seq(Chars)
        BY <2>1, ConcatType
    <2>3. w = key \o r
        BY <1>1, <2>1, ConcatAssociative DEF w, Text, q
    <2> HIDE DEF r
    <2> QED BY <1>1, <2>2, <2>3, PartsOfJoined DEF a
<1>16. SubSeq(w, c + 1, Len(w)) = value
    <2> DEFINE h == key \o <<KeyEnd>>
    <2>1. h \in Seq(Chars) /\ Len(h) = c
        <3> DEFINE q == <<KeyEnd>>
        <3>1. q \in Seq(Chars) /\ Len(q) = 1
            BY <1>1, OneType
        <3> HIDE DEF q
        <3>2. key \o q \in Seq(Chars) /\ Len(key \o q) = Len(key) + Len(q)
            BY <1>1, <3>1, ConcatType
        <3> QED BY <3>1, <3>2 DEF q, a
    <2>2. w = h \o value
        BY DEF w, Text
    <2> HIDE DEF h
    <2>3. From(w, c + 1) = value
        BY <2>1, <2>2, PartsOfJoined
    <2> QED BY <2>3 DEF From
<1>17. SplitPair(w) = <<key, value>>
    BY <1>12, <1>13, <1>14, <1>15, <1>16
<1> QED BY <1>17 DEF w

\* Two elements, one appended to the other.
LEMMA AppendOne ==
    ASSUME NEW S, NEW x \in S, NEW y \in S
    PROVE  Append(<<x>>, y) = <<x, y>> /\ <<x>> \o <<y>> = <<x, y>>
<1> DEFINE u == <<x>>
           w == Append(u, y)
           v == <<x, y>>
<1>1. u \in Seq(S) /\ Len(u) = 1 /\ u[1] = x
    BY OneType
<1>2. v \in Seq(S) /\ Len(v) = 2 /\ v[1] = x /\ v[2] = y
    BY PairType
<1> HIDE DEF u, v
<1>3. u \in Seq(S)
    BY <1>1
<1>4. w \in Seq(S) /\ Len(w) = Len(u) + 1
    BY <1>3
<1>5. w[1] = x /\ w[2] = y
    <2>1. w[Len(u) + 1] = y /\ \A k \in 1..Len(u) : w[k] = u[k]
        BY <1>3, AppendProperties
    <2> HIDE DEF w
    <2> QED BY <1>1, <2>1
<1>6. w = u \o <<y>>
    BY <1>3, AppendIsConcat
<1> HIDE DEF w
<1>7. \A k \in 1..Len(w) : w[k] = v[k]
    BY <1>1, <1>2, <1>4, <1>5
<1>8. w = v
    BY <1>1, <1>2, <1>4, <1>7, SeqEqual
<1> QED BY <1>6, <1>8 DEF w, u, v

\* Two pairs are cut apart at the semicolon between them, and nowhere else.
LEMMA TwoChunks ==
    ASSUME NEW first \in Seq(Chars), NEW second \in Seq(Chars), Len(first) >= 1,
           \A k \in 1..Len(first) : first[k] # PairEnd,
           first[Len(first)] # EscapeMark, Guarded(second)
    PROVE  Chunks(first \o Put(PairEnd, second)) = <<first, second>>
<1> DEFINE rest == Put(PairEnd, second)
           w == first \o rest
           a == Len(first)
           b == Len(second)
           N == Len(w)
           C == ChunkStarts(w)
           M == a + (1 + b)
           f == [n \in DOMAIN w |->
                    IF n \notin C THEN <<>>
                    ELSE IF n = 1 THEN <<Chunk(w, n)>> ELSE <<Tail(Chunk(w, n))>>]
<1>1. a \in Nat /\ a >= 1 /\ b \in Nat /\ M \in Nat
    BY LenProperties
<1>2. PairEnd \in Chars
    BY MarkFacts
<1>3. /\ rest \in Seq(Chars) /\ Len(rest) = 1 + b /\ rest[1] = PairEnd
      /\ \A k \in 1..b : rest[1 + k] = second[k]
    <2> DEFINE q == <<PairEnd>>
               c == 1
    <2>1. q \in Seq(Chars)
        BY <1>2, OneType
    <2>2. Len(q) = 1 /\ q[1] = PairEnd /\ c = Len(q)
        BY <1>2, OneType
    <2>3. second \in Seq(Chars)
        OBVIOUS
    <2>4. b = Len(second)
        OBVIOUS
    <2>5. rest = q \o second
        BY DEF Put
    <2> HIDE DEF q, c, b, rest
    <2>6. /\ rest \in Seq(Chars) /\ Len(rest) = c + b
          /\ \A k \in 1..c + b : rest[k] = IF k <= c THEN q[k] ELSE second[k - c]
        <3>1. c = Len(q)
            BY <2>2
        <3>2. /\ q \o second \in Seq(Chars) /\ Len(q \o second) = c + b
              /\ \A k \in 1..c + b : (q \o second)[k] = IF k <= c THEN q[k] ELSE second[k - c]
            BY <2>1, <2>3, <2>4, <3>1, ConcatElements
        <3> QED BY <2>5, <3>2
    <2>7. 1 \in 1..1 + b /\ \A k \in 1..b : 1 + k \in 1..1 + b /\ ~(1 + k <= 1) /\ (1 + k) - 1 = k
        BY <1>1 DEF b
    <2> QED BY <2>2, <2>6, <2>7 DEF c
<1>4. a = Len(first) /\ b = Len(second)
    OBVIOUS
<1>5. /\ \A k \in 1..a : first[k] # PairEnd
      /\ first[a] # EscapeMark
      /\ \A k \in 1..b : second[k] = PairEnd => k > 1 /\ second[k - 1] = EscapeMark
    BY DEF Guarded
<1> HIDE DEF rest
<1>6. /\ w \in Seq(Chars) /\ Len(w) = M
      /\ \A k \in 1..M : w[k] = IF k <= a THEN first[k] ELSE rest[k - a]
    <2> DEFINE c == 1 + b
    <2>1. first \in Seq(Chars)
        OBVIOUS
    <2>2. rest \in Seq(Chars) /\ c = Len(rest)
        BY <1>3
    <2> HIDE DEF a, c
    <2>3. /\ w \in Seq(Chars) /\ Len(w) = a + c
          /\ \A k \in 1..a + c : w[k] = IF k <= a THEN first[k] ELSE rest[k - a]
        BY <1>4, <2>1, <2>2, ConcatElements
    <2> QED BY <2>3 DEF c
<1>7. SubSeq(w, 1, a) = first /\ SubSeq(w, a + 1, Len(w)) = rest
    BY <1>3, PartsOfJoined DEF From
<1> HIDE DEF w, a, b
<1>8. /\ \A k \in 1..a : w[k] = first[k]
      /\ w[a + 1] = PairEnd
      /\ \A k \in 1..b : w[(a + 1) + k] = second[k]
    <2>1. ASSUME NEW k \in 1..a PROVE w[k] = first[k]
        <3>1. k \in 1..M /\ k <= a
            BY <1>1
        <3> QED BY <1>6, <3>1
    <2>2. w[a + 1] = PairEnd
        <3>1. a + 1 \in 1..M /\ ~(a + 1 <= a) /\ (a + 1) - a = 1
            BY <1>1
        <3> QED BY <1>3, <1>6, <3>1
    <2>3. ASSUME NEW k \in 1..b PROVE w[(a + 1) + k] = second[k]
        <3>1. (a + 1) + k \in 1..M /\ ~((a + 1) + k <= a) /\ ((a + 1) + k) - a = 1 + k
            BY <1>1
        <3> QED BY <1>3, <1>6, <3>1
    <2> QED BY <2>1, <2>2, <2>3
<1>9. DOMAIN w = 1..M
    BY <1>6, LenProperties
<1>10. C = {1, a + 1}
    <2>1. \A k : k \in C <=> k \in 1..M /\ (k = 1 \/ (w[k] = PairEnd /\ w[k - 1] # EscapeMark))
        BY <1>9 DEF ChunkStarts
    <2> HIDE DEF C
    <2>2. 1 \in C
        <3>1. 1 \in 1..M
            BY <1>1
        <3> QED BY <2>1, <3>1
    <2>3. a + 1 \in C
        <3>1. a + 1 \in 1..M /\ (a + 1) - 1 = a /\ a \in 1..a
            BY <1>1
        <3>2. w[(a + 1) - 1] # EscapeMark
            BY <1>5, <1>8, <3>1
        <3> QED BY <1>8, <2>1, <3>1, <3>2
    <2>4. ASSUME NEW k \in C, k # 1, k # a + 1 PROVE FALSE
        <3>1. k \in 1..M /\ w[k] = PairEnd /\ w[k - 1] # EscapeMark
            BY <2>1, <2>4
        <3>2. CASE k <= a
            <4>1. k \in 1..a
                BY <3>1, <3>2
            <4> QED BY <1>5, <1>8, <3>1, <4>1
        <3>3. CASE ~(k <= a)
            <4> DEFINE j == k - (a + 1)
            <4>1. j \in 1..b /\ (a + 1) + j = k
                BY <1>1, <2>4, <3>1, <3>3
            <4> HIDE DEF j
            <4>2. second[j] = PairEnd
                BY <1>8, <3>1, <4>1
            <4>3. j > 1 /\ second[j - 1] = EscapeMark
                BY <1>5, <4>1, <4>2
            <4>4. j - 1 \in 1..b /\ (a + 1) + (j - 1) = k - 1
                BY <1>1, <4>1, <4>3
            <4>5. w[k - 1] = EscapeMark
                BY <1>8, <4>3, <4>4
            <4> QED BY <3>1, <4>5
        <3> QED BY <3>2, <3>3
    <2> QED BY <2>2, <2>3, <2>4
<1>11. Chunk(w, 1) = first
    <2> DEFINE L == {n \in C : n > 1}
    <2>1. L = {a + 1}
        BY <1>1, <1>10
    <2>2. Chunk(w, 1) = SubSeq(w, 1, IF L = {} THEN Len(w) ELSE Min(L) - 1)
        BY DEF Chunk
    <2> HIDE DEF L
    <2>3. L \subseteq Nat /\ L # {}
        BY <1>1, <2>1
    <2>4. Min(L) = a + 1
        BY <2>1, <2>3, MinFacts
    <2>5. (a + 1) - 1 = a
        BY <1>1
    <2> QED BY <1>7, <2>2, <2>3, <2>4, <2>5
<1>12. Chunk(w, a + 1) = rest
    <2> DEFINE L == {n \in C : n > a + 1}
    <2>1. L = {}
        BY <1>1, <1>10
    <2>2. Chunk(w, a + 1) = SubSeq(w, a + 1, IF L = {} THEN Len(w) ELSE Min(L) - 1)
        BY DEF Chunk
    <2> HIDE DEF L
    <2> QED BY <1>7, <2>1, <2>2
<1>13. Tail(rest) = second
    <2> DEFINE t == Tail(rest)
    <2>1. rest # <<>>
        BY <1>1, <1>3, NoneOfNothing
    <2>2. /\ t \in Seq(Chars) /\ Len(t) = Len(rest) - 1
          /\ \A k \in 1..Len(rest) - 1 : t[k] = rest[k + 1]
        BY <1>3, <2>1, FirstAndOthers
    <2> HIDE DEF t
    <2>3. Len(t) = b /\ Len(rest) - 1 = b
        BY <1>1, <1>3, <2>2
    <2>4. ASSUME NEW k \in 1..b PROVE t[k] = second[k]
        <3>1. k + 1 = 1 + k
            BY <1>1
        <3> QED BY <1>3, <2>2, <2>3, <3>1
    <2>5. t = second
        BY <1>4, <2>2, <2>3, <2>4, SeqEqual
    <2> QED BY <2>5 DEF t
<1>14. f[1] = <<first>> /\ f[a + 1] = <<second>>
    <2>1. 1 \in 1..M /\ a + 1 \in 1..M /\ a + 1 # 1 /\ 1 \in C /\ a + 1 \in C
        BY <1>1, <1>10
    <2> HIDE DEF C
    <2> QED BY <1>9, <1>11, <1>12, <1>13, <2>1
<1>15. \A k \in 1..M : k # 1 /\ k # a + 1 => f[k] = <<>>
    <2>1. \A k \in 1..M : k # 1 /\ k # a + 1 => k \notin C
        BY <1>10
    <2> HIDE DEF C
    <2> QED BY <1>9, <2>1
<1>16. f \in Seq(Seq(Seq(Chars))) /\ Len(f) = M
    <2> DEFINE S == Seq(Seq(Chars))
    <2>1. <<first>> \in S /\ <<second>> \in S /\ <<>> \in S
        BY OneType
    <2> HIDE DEF S
    <2>2. ASSUME NEW k \in 1..M PROVE f[k] \in S
        <3> HIDE DEF f
        <3> QED BY <1>14, <1>15, <2>1, <2>2
    <2>3. f = [k \in 1..M |-> f[k]]
        BY <1>9
    <2> HIDE DEF f, M
    <2>4. f \in [1..M -> S]
        BY <2>2, <2>3
    <2>5. f \in Seq(S) /\ Len(f) = M
        BY <1>1, <2>4, FunctionIsSequence
    <2> QED BY <2>5 DEF S
<1>17. Chunks(w) = FlattenSeq(f)
    BY DEF Chunks
<1> HIDE DEF f, M
<1>18. FlattenSeq(f) = f[1] \o f[a + 1]
    <2> DEFINE S == Seq(Chars)
    <2>1. f \in Seq(Seq(S))
        BY <1>16
    <2>2. a < Len(f)
        BY <1>1, <1>16 DEF M
    <2>3. \A k \in 1..Len(f) : k # 1 /\ k # a + 1 => f[k] = <<>>
        BY <1>15, <1>16
    <2> HIDE DEF S
    <2> QED BY <1>1, <2>1, <2>2, <2>3, FlattenTwo
<1>19. <<first>> \o <<second>> = <<first, second>>
    BY AppendOne
<1>20. Chunks(w) = <<first, second>>
    BY <1>14, <1>17, <1>18, <1>19
<1> QED BY <1>20 DEF w, rest

-----------------------------------------------------------------------------
\* Identifiers of chats.

LEMMA ChatIs ==
    ASSUME NEW client \in Seq(Chars), NEW key \in Seq(Chars), NEW name \in Seq(Chars)
    PROVE  ChatIdentifier(client, key, name) = <<<<Ident, client>>, <<key, name>>>>
<1> DEFINE S == {<<Ident, client>>, <<key, name>>}
           p == <<Ident, client>>
           q == <<key, name>>
<1>1. p \in S /\ q \in S
    OBVIOUS
<1>2. ChatIdentifier(client, key, name) = Append(Append(<<>>, p), q)
    BY DEF ChatIdentifier, PushBack, NoPairs
<1> HIDE DEF S, p, q
<1>3. Append(<<>>, p) = <<p>>
    OBVIOUS
<1>4. Append(<<p>>, q) = <<p, q>>
    BY <1>1, AppendOne
<1> QED BY <1>2, <1>3, <1>4 DEF p, q

LEMMA ChatAccess ==
    ASSUME NEW p, NEW q
    PROVE  /\ DOMAIN <<p, q>> = {1, 2} /\ <<p, q>>[1] = p /\ <<p, q>>[2] = q
OBVIOUS

\* The text of the identifier of a chat.
LEMMA SerializeChat ==
    ASSUME NEW client \in Seq(Clean), NEW key \in Seq(Clean), NEW name \in Seq(Chars)
    PROVE  Serialize(ChatIdentifier(client, key, name)) =
                Text(Ident, client) \o Put(PairEnd, Text(key, EscapedCopy(name)))
<1> DEFINE p == <<Ident, client>>
           q == <<key, name>>
           kv == ChatIdentifier(client, key, name)
           x == Text(Ident, client)
           y == Text(key, EscapedCopy(name))
           f == [n \in DOMAIN kv |-> (IF n = 1 THEN <<>> ELSE <<PairEnd>>) \o WrittenPair(kv[n])]
<1>1. /\ Ident \in Seq(Clean) /\ Ident \in Seq(Chars) /\ client \in Seq(Chars)
      /\ key \in Seq(Chars)
    BY NamesAssumption, CleanFacts
<1>2. DOMAIN kv = {1, 2} /\ kv[1] = p /\ kv[2] = q
    BY <1>1, ChatIs, ChatAccess
<1>3. WrittenPair(p) = x
    BY <1>1, EscapedClean DEF WrittenPair, Text
<1>4. WrittenPair(q) = y
    BY EscapedClean DEF WrittenPair, Text
<1>5. x \in Seq(Chars) /\ y \in Seq(Chars)
    BY <1>1, MarkFacts, EscapedType, TextType
<1> HIDE DEF kv, x, y, p, q
<1>6. f[1] = <<>> \o x /\ f[2] = <<PairEnd>> \o y
    BY <1>2, <1>3, <1>4
<1>7. f[1] = x
    BY <1>5, <1>6, ConcatEmptySeq
<1>8. f[2] = Put(PairEnd, y)
    BY <1>6 DEF Put
<1>9. Put(PairEnd, y) \in Seq(Chars)
    BY <1>5, MarkFacts, PutFacts
<1>10. f \in Seq(Seq(Chars)) /\ Len(f) = 2
    <2> DEFINE S == Seq(Chars)
    <2>1. f[1] \in S /\ f[2] \in S
        BY <1>5, <1>7, <1>8, <1>9
    <2>2. f = [k \in 1..2 |-> f[k]]
        <3>1. 1..2 = {1, 2}
            OBVIOUS
        <3> QED BY <1>2, <3>1
    <2>3. \A k \in 1..2 : k = 1 \/ k = 2
        OBVIOUS
    <2> HIDE DEF f, S
    <2>4. f \in [1..2 -> S]
        BY <2>1, <2>2, <2>3
    <2>5. f \in Seq(S) /\ Len(f) = 2
        <3> DEFINE m == 2
        <3>1. m \in Nat /\ f \in [1..m -> S]
            BY <2>4
        <3> HIDE DEF m
        <3>2. f \in Seq(S) /\ Len(f) = m
            BY <3>1, FunctionIsSequence
        <3> QED BY <3>2 DEF m
    <2> QED BY <2>5 DEF S
<1>11. Serialize(kv) = FlattenSeq(f)
    BY DEF Serialize
<1> HIDE DEF f
<1>12. FlattenSeq(f) = f[1] \o f[2]
    <2> DEFINE S == Chars
               n == 1
    <2>1. f \in Seq(Seq(S)) /\ n \in Nat /\ n >= 1 /\ n < Len(f) /\ n + 1 = 2
        BY <1>10
    <2>2. \A k \in 1..Len(f) : k # 1 /\ k # n + 1 => f[k] = <<>>
        BY <1>10
    <2> HIDE DEF S, n
    <2>3. FlattenSeq(f) = f[1] \o f[n + 1]
        BY <2>1, <2>2, FlattenTwo
    <2> QED BY <2>1, <2>3
<1>13. Serialize(kv) = x \o Put(PairEnd, y)
    BY <1>7, <1>8, <1>11, <1>12
<1> QED BY <1>13 DEF kv, x, y

\* What is read back has the escapes of the chat's name.
LEMMA DeserializeChat ==
    ASSUME NEW client \in Seq(Clean), NEW key \in Seq(Clean), NEW name \in Seq(Chars)
    PROVE  Deserialize(Serialize(ChatIdentifier(client, key, name))) =
                <<<<Ident, client>>, <<key, EscapedCopy(name)>>>>
<1> DEFINE x == Text(Ident, client)
           e == EscapedCopy(name)
           y == Text(key, e)
           w == x \o Put(PairEnd, y)
           a == Len(Ident)
           c == Len(client)
           N == (a + 1) + c
<1>1. /\ Ident \in Seq(Clean) /\ Ident \in Seq(Chars) /\ client \in Seq(Chars)
      /\ key \in Seq(Chars) /\ a \in Nat /\ c \in Nat /\ e \in Seq(Chars) /\ KeyEnd \in Chars
    BY NamesAssumption, CleanFacts, MarkFacts, EscapedType
<1>2. /\ x \in Seq(Chars) /\ Len(x) = N
      /\ \A k \in 1..a : x[k] = Ident[k]
      /\ x[a + 1] = KeyEnd
      /\ \A k \in 1..c : x[(a + 1) + k] = client[k]
    <2>1. Ident \in Seq(Chars)
        BY <1>1
    <2>2. client \in Seq(Chars)
        BY <1>1
    <2>3. KeyEnd \in Chars
        BY <1>1
    <2>4. x \in Seq(Chars)
        BY <2>1, <2>2, <2>3, TextType
    <2>5. Len(x) = N
        BY <2>1, <2>2, <2>3, TextType
    <2>6. (\A k \in 1..a : x[k] = Ident[k]) /\ x[a + 1] = KeyEnd
        BY <2>1, <2>2, <2>3, TextType
    <2>7. \A k \in 1..c : x[(a + 1) + k] = client[k]
        BY <2>1, <2>2, <2>3, TextType
    <2> QED BY <2>4, <2>5, <2>6, <2>7
<1>3. y \in Seq(Chars)
    BY <1>1, TextType
<1>4. /\ \A k \in 1..a : Ident[k] # PairEnd /\ Ident[k] # EscapeMark
      /\ \A k \in 1..c : client[k] # PairEnd /\ client[k] # EscapeMark
    BY <1>1, CleanFacts
<1> HIDE DEF x, e, a, c
<1>5. ASSUME NEW k \in 1..N PROVE x[k] # PairEnd /\ x[k] # EscapeMark
    <2>1. CASE k <= a
        <3>1. k \in 1..a
            BY <1>1, <2>1
        <3> QED BY <1>2, <1>4, <3>1
    <2>2. CASE k = a + 1
        BY <1>2, <2>2, MarkFacts
    <2>3. CASE k > a + 1
        <3> DEFINE j == k - (a + 1)
        <3>1. j \in 1..c /\ (a + 1) + j = k
            BY <1>1, <2>3
        <3> HIDE DEF j
        <3> QED BY <1>2, <1>4, <3>1
    <2>4. k \in Nat
        BY <1>1
    <2> QED BY <1>1, <2>1, <2>2, <2>3, <2>4
<1>6. Guarded(y)
    <2> DEFINE h == key \o <<KeyEnd>>
               b == Len(key)
    <2>1. h \in Seq(Chars) /\ Guarded(h)
        <3> DEFINE n == <<>>
        <3>1. n \in Seq(Chars) /\ Len(n) = 0
            BY NoneOfNothing
        <3>2. Text(key, n) = h
            <4>1. h \in Seq(Chars)
                <5> DEFINE q == <<KeyEnd>>
                <5>1. q \in Seq(Chars)
                    BY <1>1, OneType
                <5> HIDE DEF q
                <5>2. key \o q \in Seq(Chars)
                    BY <1>1, <5>1, ConcatType
                <5> QED BY <5>2 DEF q
            <4> HIDE DEF h
            <4>2. h \o <<>> = h
                BY <4>1, ConcatEmptySeq
            <4> QED BY <4>2 DEF Text, h
        <3> HIDE DEF n, h
        <3>3. /\ h \in Seq(Chars) /\ Len(h) = (Len(key) + 1) + Len(n)
              /\ \A k \in 1..Len(key) : h[k] = key[k]
              /\ h[Len(key) + 1] = KeyEnd
            <4>1. n \in Seq(Chars)
                BY <3>1
            <4>2. key \in Seq(Chars)
                BY <1>1
            <4>3. KeyEnd \in Chars
                BY <1>1
            <4> DEFINE t == Text(key, n)
            <4>4. t \in Seq(Chars)
                BY <4>1, <4>2, <4>3, TextType
            <4>5. /\ Len(t) = (Len(key) + 1) + Len(n)
                  /\ \A k \in 1..Len(key) : t[k] = key[k]
                  /\ t[Len(key) + 1] = KeyEnd
                BY <4>1, <4>2, <4>3, TextType
            <4> QED BY <3>2, <4>4, <4>5
        <3>4. b \in Nat /\ \A k \in 1..b : key[k] # PairEnd
            BY CleanFacts
        <3>5. \A k \in 1..b + 1 : k \in 1..b \/ k = b + 1
            BY <3>4
        <3>6. Len(h) = b + 1
            BY <3>1, <3>3, <3>4
        <3>7. \A k \in 1..b + 1 : h[k] # PairEnd
            BY <3>3, <3>4, <3>5, MarkFacts
        <3> HIDE DEF b
        <3> QED BY <3>3, <3>6, <3>7 DEF Guarded
    <2>2. Guarded(e)
        BY EscapedGuarded DEF e
    <2> HIDE DEF h
    <2>3. Guarded(h \o e)
        BY <1>1, <2>1, <2>2, GuardedJoined
    <2> QED BY <2>3 DEF Text, h
<1>7. Len(x) >= 1 /\ N \in 1..N /\ Len(x) = N
    BY <1>1, <1>2
<1> HIDE DEF y, N
<1>8. Chunks(w) = <<x, y>>
    <2>1. \A k \in 1..Len(x) : x[k] # PairEnd
        BY <1>5, <1>7
    <2>2. x[Len(x)] # EscapeMark
        BY <1>5, <1>7
    <2> QED BY <1>2, <1>3, <1>6, <1>7, <2>1, <2>2, TwoChunks
<1>9. SplitPair(x) = <<Ident, client>>
    BY <1>1, SplitText DEF x
<1>10. SplitPair(y) = <<key, e>>
    BY <1>1, SplitText DEF y
<1>11. Serialize(ChatIdentifier(client, key, name)) = w
    BY SerializeChat DEF w, x, y, e
<1> HIDE DEF w
<1> DEFINE d == Deserialize(w)
           r == <<<<Ident, client>>, <<key, e>>>>
<1>12. d = r
    <2> DEFINE p == <<Ident, client>>
               q == <<key, e>>
               h == Chunks(w)
    <2>1. d = [n \in DOMAIN h |-> SplitPair(h[n])]
        BY DEF Deserialize
    <2>2. DOMAIN h = {1, 2} /\ h[1] = x /\ h[2] = y
        BY <1>8, ChatAccess
    <2>3. SplitPair(x) = p /\ SplitPair(y) = q
        BY <1>9, <1>10
    <2> HIDE DEF h, p, q
    <2>4. d = [n \in {1, 2} |-> IF n = 1 THEN p ELSE q]
        BY <2>1, <2>2, <2>3
    <2>5. <<p, q>> = [n \in {1, 2} |-> IF n = 1 THEN p ELSE q]
        <3>1. 1..2 = {1, 2}
            OBVIOUS
        <3> QED BY <3>1
    <2> QED BY <2>4, <2>5 DEF p, q
<1> QED BY <1>11, <1>12 DEF e

\* Two chats are the same for operator== when nothing about them differs.
LEMMA ChatEqual ==
    ASSUME NEW c \in Seq(Chars), NEW k \in Seq(Chars), NEW n \in Seq(Chars),
           NEW d \in Seq(Chars), NEW l \in Seq(Chars), NEW m \in Seq(Chars),
           k # Ident, l # Ident
    PROVE  Equal(ChatIdentifier(c, k, n), ChatIdentifier(d, l, m)) <=> c = d /\ k = l /\ n = m
<1> DEFINE x == ChatIdentifier(c, k, n)
           y == ChatIdentifier(d, l, m)
<1>1. DOMAIN x = {1, 2} /\ x[1] = <<Ident, c>> /\ x[2] = <<k, n>>
    <2> DEFINE p == <<Ident, c>>
               q == <<k, n>>
    <2>1. x = <<p, q>>
        BY ChatIs
    <2> HIDE DEF x, p, q
    <2>2. DOMAIN x = {1, 2} /\ x[1] = p /\ x[2] = q
        BY <2>1, ChatAccess
    <2> QED BY <2>2 DEF p, q
<1>2. DOMAIN y = {1, 2} /\ y[1] = <<Ident, d>> /\ y[2] = <<l, m>>
    <2> DEFINE p == <<Ident, d>>
               q == <<l, m>>
    <2>1. y = <<p, q>>
        BY ChatIs
    <2> HIDE DEF y, p, q
    <2>2. DOMAIN y = {1, 2} /\ y[1] = p /\ y[2] = q
        BY <2>1, ChatAccess
    <2> QED BY <2>2 DEF p, q
<1> HIDE DEF x, y
<1>3. Places(y, Ident) = {1} /\ Places(y, l) = {2} /\ (k # l => Places(y, k) = {})
    BY <1>2 DEF Places
<1>4. ASSUME NEW v \in Nat PROVE Min({v}) = v
    <2> DEFINE T == {v}
    <2>1. T \subseteq Nat /\ T # {}
        OBVIOUS
    <2> HIDE DEF T
    <2>2. Min(T) \in T
        BY <2>1, MinFacts
    <2> QED BY <2>2 DEF T
<1>5. HasKey(y, Ident) /\ Lookup(y, Ident) = d
    BY <1>2, <1>3, <1>4 DEF HasKey, Lookup
<1>6. HasKey(y, l) /\ Lookup(y, l) = m
    BY <1>2, <1>3, <1>4 DEF HasKey, Lookup
<1>7. k # l => ~HasKey(y, k)
    BY <1>3 DEF HasKey
<1>8. Equal(x, y) <=> /\ HasKey(y, Ident) /\ Lookup(y, Ident) = c
                      /\ HasKey(y, k) /\ Lookup(y, k) = n
    BY <1>1 DEF Equal
<1> QED BY <1>5, <1>6, <1>7, <1>8 DEF x, y

LEMMA ChatParts ==
    ASSUME NEW chat \in Chats
    PROVE  \E client \in Seq(Clean), key \in Seq(Clean), name \in Seq(Chars \ {Nul}) :
                key # Ident /\ chat = ChatIdentifier(client, key, name)
<1>1. PICK client \in Clients, key \in ChatKeys, name \in Names :
            chat = ChatIdentifier(client, key, name)
    BY DEF Chats
<1> DEFINE C == Chars \ {Nul}
<1>2. /\ client \in Seq(Clean) /\ key \in Seq(Clean) /\ key # Ident /\ name \in Seq(C)
    BY NamesAssumption
<1> HIDE DEF C
<1>3. \E x \in Seq(Clean), y \in Seq(Clean), z \in Seq(C) :
            y # Ident /\ chat = ChatIdentifier(x, y, z)
    BY <1>1, <1>2
<1> QED BY <1>3 DEF C

LEMMA SerializeType ==
    ASSUME NEW client \in Seq(Clean), NEW key \in Seq(Clean), NEW name \in Seq(Chars \ {Nul})
    PROVE  /\ name \in Seq(Chars)
           /\ Serialize(ChatIdentifier(client, key, name)) \in Seq(Chars \ {Nul})
<1> DEFINE C == Chars \ {Nul}
           x == Text(Ident, client)
           y == Text(key, EscapedCopy(name))
           q == <<PairEnd>>
<1>1. /\ Ident \in Seq(C) /\ client \in Seq(C) /\ key \in Seq(C)
      /\ KeyEnd \in C /\ PairEnd \in C /\ EscapeMark \in C
    BY NamesAssumption, CleanFacts, MarkFacts
<1>2. name \in Seq(C) /\ C \subseteq Chars
    OBVIOUS
<1> HIDE DEF C
<1>3. name \in Seq(Chars)
    BY <1>2
<1>4. EscapedCopy(name) \in Seq(C)
    BY <1>1, <1>2, EscapedType
<1>5. x \in Seq(C)
    <2>1. KeyEnd \in C
        BY <1>1
    <2>2. Ident \in Seq(C)
        BY <1>1
    <2>3. client \in Seq(C)
        BY <1>1
    <2> QED BY <2>1, <2>2, <2>3, TextType
<1>6. y \in Seq(C)
    BY <1>1, <1>4, TextType
<1>7. q \in Seq(C)
    BY <1>1, OneType
<1>8. Serialize(ChatIdentifier(client, key, name)) = x \o (q \o y)
    BY <1>3, SerializeChat DEF Put
<1> HIDE DEF x, y, q
<1>9. q \o y \in Seq(C)
    BY <1>6, <1>7, ConcatType
<1>10. x \o (q \o y) \in Seq(C)
    BY <1>5, <1>9, ConcatType
<1> QED BY <1>3, <1>8, <1>10 DEF C

\* The texts of identifiers are the same when the identifiers are.
LEMMA SameText ==
    ASSUME NEW chat \in Chats, NEW from \in Chats
    PROVE  Serialize(chat) = Serialize(from) <=> Equal(chat, from)
<1>1. PICK c \in Seq(Clean), k \in Seq(Clean), n \in Seq(Chars \ {Nul}) :
            k # Ident /\ chat = ChatIdentifier(c, k, n)
    BY ChatParts
<1>2. PICK d \in Seq(Clean), l \in Seq(Clean), m \in Seq(Chars \ {Nul}) :
            l # Ident /\ from = ChatIdentifier(d, l, m)
    BY ChatParts
<1>3. /\ c \in Seq(Chars) /\ k \in Seq(Chars) /\ n \in Seq(Chars)
      /\ d \in Seq(Chars) /\ l \in Seq(Chars) /\ m \in Seq(Chars)
    BY CleanFacts, SerializeType
<1>4. Equal(chat, from) <=> c = d /\ k = l /\ n = m
    BY <1>1, <1>2, <1>3, ChatEqual
<1>5. ASSUME Serialize(chat) = Serialize(from)
      PROVE  c = d /\ k = l /\ n = m
    <2> DEFINE e == EscapedCopy(n)
               f == EscapedCopy(m)
    <2>1. Deserialize(Serialize(chat)) = <<<<Ident, c>>, <<k, e>>>>
        BY <1>1, <1>3, DeserializeChat
    <2>2. Deserialize(Serialize(from)) = <<<<Ident, d>>, <<l, f>>>>
        BY <1>2, <1>3, DeserializeChat
    <2> HIDE DEF e, f
    <2>3. <<<<Ident, c>>, <<k, e>>>> = <<<<Ident, d>>, <<l, f>>>>
        BY <1>5, <2>1, <2>2
    <2>4. c = d /\ k = l /\ e = f
        BY <2>3
    <2>5. n = m
        BY <1>3, <2>4, EscapedSame DEF e, f
    <2> QED BY <2>4, <2>5
<1>6. c = d /\ k = l /\ n = m => Serialize(chat) = Serialize(from)
    BY <1>1, <1>2
<1> QED BY <1>4, <1>5, <1>6

\* What is read back is the target, compared either way.
LEMMA TargetIsRead ==
    ASSUME NEW to \in Chats
    PROVE  /\ Equal(Deserialize(Serialize(to)), TargetOf(to))
           /\ Equal(TargetOf(to), Deserialize(Serialize(to)))
<1>1. PICK c \in Seq(Clean), k \in Seq(Clean), n \in Seq(Chars \ {Nul}) :
            k # Ident /\ to = ChatIdentifier(c, k, n)
    BY ChatParts
<1> DEFINE e == EscapedCopy(n)
<1>2. /\ c \in Seq(Chars) /\ k \in Seq(Chars) /\ n \in Seq(Chars)
    BY CleanFacts, SerializeType
<1>3. e \in Seq(Chars)
    BY <1>2, MarkFacts, EscapedType
<1>4. Deserialize(Serialize(to)) = <<<<Ident, c>>, <<k, e>>>>
    BY <1>1, <1>2, DeserializeChat
<1>5. TargetOf(to) = ChatIdentifier(c, k, e)
    <2> DEFINE p == <<Ident, c>>
               q == <<k, n>>
    <2>1. to = <<p, q>>
        BY <1>1, <1>2, ChatIs
    <2>2. p[2] = c /\ q[1] = k /\ q[2] = n
        BY ChatAccess
    <2> HIDE DEF p, q
    <2>3. to[1] = p /\ to[2] = q
        BY <2>1, ChatAccess
    <2> QED BY <2>2, <2>3 DEF TargetOf
<1> HIDE DEF e
<1>6. Deserialize(Serialize(to)) = ChatIdentifier(c, k, e)
    BY <1>2, <1>3, <1>4, ChatIs
<1>7. Equal(ChatIdentifier(c, k, e), ChatIdentifier(c, k, e))
    BY <1>1, <1>2, <1>3, ChatEqual
<1> QED BY <1>5, <1>6, <1>7

\* A mapping between any two chats, whatever their names: an addmap with the texts of
\* their identifiers in quotes comes out of make_argv as three arguments, the text of
\* the first is that of the identifier of this chat's messages and of no other's, so
\* that the relay applies the mapping to them alone, and the identifier read back from
\* the second leads to the client and to the chat by its name with the escapes.
THEOREM MappingsReach == Spec => []MappingsReachTheirChats
<1>1. Init => QuotedInv
    BY InitQuoted
<1>2. IInv /\ QuotedInv /\ [Next]_vars => QuotedInv'
    BY NextQuoted
<1>3. QuotedInv => MappingsReachTheirChats
    <2> SUFFICES ASSUME QuotedInv, outcome = "returned",
                        NEW mapping \in Mappings, str = AddMapLines[mapping]
                 PROVE  /\ Len(argv) = 3
                        /\ \A chat \in Chats :
                              (Serialize(chat) = argv[2]) <=> Equal(chat, mapping[1])
                        /\ Equal(Deserialize(argv[3]), TargetOf(mapping[2]))
                        /\ Equal(TargetOf(mapping[2]), Deserialize(argv[3]))
        BY DEF MappingsReachTheirChats
    <2> DEFINE from == mapping[1]
               to == mapping[2]
               args == AddMapArguments(from, to)
               C == Chars \ {Nul}
    <2>1. from \in Chats /\ to \in Chats
        BY MappingsAssumption
    <2>2. Serialize(from) \in Seq(C) /\ Serialize(to) \in Seq(C)
        <3>1. ASSUME NEW chat \in Chats PROVE Serialize(chat) \in Seq(C)
            BY ChatParts, SerializeType
        <3> HIDE DEF C, from, to
        <3> QED BY <2>1, <3>1
    <2>3. CommandName \in Seq(C)
        BY CommandNameAssumption, CleanFacts
    <2>4. str = CommandLine(args)
        BY DEF AddMapLines
    <2>5. args = <<CommandName, Serialize(from), Serialize(to)>>
        BY DEF AddMapArguments
    <2> HIDE DEF args, from, to, C
    <2>6. args \in Seq(Seq(C)) /\ Len(args) = 3 /\ args[2] = Serialize(from) /\ args[3] = Serialize(to)
        <3> DEFINE S == Seq(C)
                   x == Serialize(from)
                   y == Serialize(to)
        <3>1. CommandName \in S /\ x \in S /\ y \in S /\ args = <<CommandName, x, y>>
            BY <2>2, <2>3, <2>5
        <3> HIDE DEF S, x, y
        <3>2. args \in Seq(S) /\ Len(args) = 3 /\ args[2] = x /\ args[3] = y
            BY <3>1
        <3> QED BY <3>2 DEF S, x, y
    <2>7. argv = args
        <3>1. args \in ArgumentLists
            BY <2>6 DEF ArgumentLists, C
        <3>2. QuotedProgress(args)
            BY <2>4, <3>1 DEF QuotedInv
        <3> QED BY <3>2 DEF QuotedProgress
    <2>8. \A chat \in Chats : (Serialize(chat) = argv[2]) <=> Equal(chat, from)
        BY <2>1, <2>6, <2>7, SameText
    <2>9. Equal(Deserialize(argv[3]), TargetOf(to)) /\ Equal(TargetOf(to), Deserialize(argv[3]))
        BY <2>1, <2>6, <2>7, TargetIsRead
    <2> QED BY <2>6, <2>7, <2>8, <2>9 DEF from, to
<1> QED BY <1>1, <1>2, <1>3, InvariantHolds, PTL DEF Spec

=============================================================================
