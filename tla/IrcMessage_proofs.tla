-------------------------- MODULE IrcMessage_proofs --------------------------
(***************************************************************************)
(* IrcMessage, for every message, every size of a line and every way a     *)
(* line is cut into reads.  What encode and the reader compute is defined  *)
(* by functions on sequences; general facts are in SequenceFacts_proofs.   *)
(***************************************************************************)
EXTENDS IrcMessage, SequenceFacts_proofs

-----------------------------------------------------------------------------
\* Characters and parts of sequences.

LEMMA Members ==
    /\ Blank \in Characters /\ Colon \in Characters /\ Linefeed \in Characters
    /\ "!" \in Characters /\ "@" \in Characters /\ "\r" \in Characters
<1> DEFINE r == "\r"
           n == Linefeed
           e == "!"
           a == "@"
<1>1. CrLf = <<r, n>>
    BY DEF CrLf, Linefeed
<1>2. Blank \in Characters /\ Colon \in Characters /\ e \in Characters /\ a \in Characters
      /\ ToSet(CrLf) \subseteq Characters
    BY CharactersAssumption
<1> HIDE DEF r, n, e, a
<1>3. CrLf[1] = r /\ CrLf[2] = n /\ DOMAIN CrLf = 1..2
    BY <1>1
<1>4. r \in Characters /\ n \in Characters
    BY <1>2, <1>3 DEF ToSet
<1> QED BY <1>2, <1>4 DEF r, n, e, a

LEMMA Different ==
    /\ Blank # Linefeed /\ Colon # Linefeed
    /\ "!" # Linefeed /\ "@" # Linefeed /\ "\r" # Linefeed
BY DEF Blank, Colon, Linefeed

LEMMA CrLfFacts ==
    /\ CrLf \in Text /\ Len(CrLf) = 2
    /\ CrLf[1] # Linefeed /\ CrLf[2] = Linefeed
<1> DEFINE r == "\r"
           n == Linefeed
<1>1. r \in Characters /\ n \in Characters /\ r # n /\ CrLf = <<r, n>>
    BY Members, Different DEF CrLf, Linefeed
<1> HIDE DEF r, n
<1>2. CrLf \in Seq(Characters) /\ Len(CrLf) = 2 /\ CrLf[1] = r /\ CrLf[2] = n
    BY <1>1, PairType
<1> QED BY <1>1, <1>2 DEF Text, n

LEMMA DropFacts ==
    ASSUME NEW S, NEW s \in Seq(S), NEW n \in 0..Len(s)
    PROVE  /\ Drop(s, n) \in Seq(S) /\ Len(Drop(s, n)) = Len(s) - n
           /\ \A k \in 1..Len(s) - n : Drop(s, n)[k] = s[n + k]
<1> DEFINE len == Len(s)
<1>1. len \in Nat /\ n \in 0..len
    BY LenProperties
<1> HIDE DEF len
<1>2. n + 1 \in Nat /\ n + 1 >= 1 /\ n + 1 <= len + 1 /\ len <= len /\ len + 1 - (n + 1) = len - n
    BY <1>1
<1>3. /\ SubSeq(s, n + 1, len) \in Seq(S) /\ Len(SubSeq(s, n + 1, len)) = len - n
      /\ \A k \in 1..len - n : SubSeq(s, n + 1, len)[k] = s[(n + 1) + k - 1]
    BY <1>1, <1>2, PartFacts DEF len
<1>4. \A k \in 1..len - n : (n + 1) + k - 1 = n + k
    BY <1>1
<1> QED BY <1>3, <1>4 DEF Drop, len

LEMMA BeforeFacts ==
    ASSUME NEW S, NEW s \in Seq(S), NEW C
    PROVE  \E n \in 0..Len(s) :
            /\ Before(s, C) = SubSeq(s, 1, n)
            /\ Before(s, C) \in Seq(S) /\ Len(Before(s, C)) = n
            /\ \A k \in 1..n : Before(s, C)[k] = s[k] /\ s[k] \notin C
            /\ n < Len(s) => s[n + 1] \in C
<1> DEFINE len == Len(s)
           stops == {k \in DOMAIN s : s[k] \in C}
<1>1. len \in Nat /\ DOMAIN s = 1..len
    BY LenProperties
<1>2. ASSUME NEW n \in 0..len, Before(s, C) = SubSeq(s, 1, n)
      PROVE  /\ Before(s, C) \in Seq(S) /\ Len(Before(s, C)) = n
             /\ \A k \in 1..n : Before(s, C)[k] = s[k]
    <2>1. 1 <= n + 1 /\ n <= len /\ n \in Nat /\ n + 1 - 1 = n
        BY <1>1, <1>2
    <2>2. \A k \in 1..n : 1 + k - 1 = k
        BY <1>1
    <2> QED BY <1>2, <2>1, <2>2, PartFacts
<1>3. CASE stops = {}
    <2>1. Before(s, C) = SubSeq(s, 1, len)
        BY <1>3 DEF Before
    <2>2. len \in 0..len /\ ~(len < len)
        BY <1>1
    <2>3. \A k \in 1..len : s[k] \notin C
        BY <1>1, <1>3
    <2> QED BY <1>2, <2>1, <2>2, <2>3
<1>4. CASE stops # {}
    <2>1. stops \subseteq Nat
        BY <1>1
    <2>2. Min(stops) \in stops /\ \A k \in stops : Min(stops) <= k
        BY <1>4, <2>1, MinFacts
    <2> DEFINE m == Min(stops)
               n == m - 1
    <2>3. Before(s, C) = SubSeq(s, 1, n)
        BY <1>4 DEF Before
    <2>4. m \in 1..len /\ s[m] \in C
        BY <1>1, <2>2
    <2>5. \A k \in stops : m <= k
        BY <2>2
    <2> HIDE DEF m
    <2>6. n \in 0..len /\ n + 1 = m
        BY <1>1, <2>4
    <2>7. ASSUME NEW k \in 1..n PROVE s[k] \notin C
        <3>1. k \in 1..len /\ ~(m <= k)
            BY <1>1, <2>4
        <3> QED BY <1>1, <2>5, <3>1
    <2> HIDE DEF n
    <2> QED BY <1>2, <2>3, <2>4, <2>6, <2>7
<1> QED BY <1>3, <1>4

-----------------------------------------------------------------------------
\* What encode and a server write: a header, the text, and the end of the line.

HeaderOf(m) ==
    Prefix(m) \o m.command
    \o FlattenSeq([k \in DOMAIN m.params |-> <<Blank>> \o m.params[k]])

\* The parts of m but its text are made of the characters in S.
HeaderIn(m, S) ==
    /\ {m.name, m.user, m.host} \subseteq Seq(S) \cup {None}
    /\ m.command \in Seq(S) /\ m.params \in Seq(Seq(S))

Marks(S) == Blank \in S /\ Colon \in S /\ "!" \in S /\ "@" \in S

LEMMA OptionalType ==
    ASSUME NEW S, NEW mark \in S, NEW part \in Seq(S) \cup {None}
    PROVE  Optional(mark, part) \in Seq(S)
<1>1. CASE part = None
    BY <1>1 DEF Optional
<1>2. CASE part # None
    BY <1>2, OneType, ConcatType DEF Optional
<1> QED BY <1>1, <1>2

LEMMA PrefixType ==
    ASSUME NEW S, NEW m, HeaderIn(m, S), Marks(S)
    PROVE  Prefix(m) \in Seq(S)
<1> DEFINE user == Optional("!", m.user)
           host == Optional("@", m.host)
           name == m.name
<1>1. user \in Seq(S) /\ host \in Seq(S)
    BY OptionalType DEF HeaderIn, Marks
<1>2. <<Colon>> \in Seq(S) /\ <<Blank>> \in Seq(S)
    BY OneType DEF Marks
<1>3. name \in Seq(S) \cup {None}
    BY DEF HeaderIn
<1>4. Prefix(m) = IF name = None THEN <<>> ELSE <<Colon>> \o name \o user \o host \o <<Blank>>
    BY DEF Prefix
<1> DEFINE colon == <<Colon>>
           blank == <<Blank>>
<1> HIDE DEF user, host, name, colon, blank
<1>5. ASSUME name \in Seq(S), colon \in Seq(S), blank \in Seq(S)
      PROVE  colon \o name \o user \o host \o blank \in Seq(S)
    BY <1>1, <1>5, ConcatType
<1>6. CASE name = None
    <2>1. Prefix(m) = <<>>
        BY <1>4, <1>6
    <2> QED BY <2>1
<1>7. CASE name # None
    <2>1. Prefix(m) = colon \o name \o user \o host \o blank
        BY <1>4, <1>7 DEF colon, blank
    <2>2. name \in Seq(S) /\ colon \in Seq(S) /\ blank \in Seq(S)
        BY <1>2, <1>3, <1>7 DEF colon, blank
    <2> QED BY <1>5, <2>1, <2>2
<1> QED BY <1>6, <1>7

LEMMA ParamsType ==
    ASSUME NEW S, NEW params \in Seq(Seq(S)), NEW gap \in Seq(S)
    PROVE  FlattenSeq([k \in DOMAIN params |-> gap \o params[k]]) \in Seq(S)
<1> DEFINE f == [k \in DOMAIN params |-> gap \o params[k]]
<1>1. DOMAIN params = 1..Len(params) /\ Len(params) \in Nat
      /\ \A k \in 1..Len(params) : params[k] \in Seq(S)
    BY LenProperties, ElementOfSeq
<1>2. \A k \in 1..Len(params) : gap \o params[k] \in Seq(S)
    BY <1>1, ConcatType
<1>3. f \in [1..Len(params) -> Seq(S)]
    BY <1>1, <1>2
<1>4. f \in Seq(Seq(S))
    <2> HIDE DEF f
    <2> QED BY <1>1, <1>3, FunctionIsSequence
<1> QED BY <1>4, FlattenType

LEMMA HeaderType ==
    ASSUME NEW S, NEW m, HeaderIn(m, S), Marks(S)
    PROVE  HeaderOf(m) \in Seq(S)
<1> DEFINE flat == FlattenSeq([k \in DOMAIN m.params |-> <<Blank>> \o m.params[k]])
<1>1. Prefix(m) \in Seq(S)
    BY PrefixType
<1>2. m.command \in Seq(S) /\ m.params \in Seq(Seq(S)) /\ <<Blank>> \in Seq(S)
    BY OneType DEF HeaderIn, Marks
<1>3. flat \in Seq(S)
    BY <1>2, ParamsType
<1>4. HeaderOf(m) = Prefix(m) \o m.command \o flat
    BY DEF HeaderOf
<1> HIDE DEF flat
<1> QED BY <1>1, <1>2, <1>3, <1>4, ConcatType

LEMMA MessageHeader ==
    ASSUME NEW m \in MessageType
    PROVE  HeaderIn(m, Characters) /\ Marks(Characters)
BY Members DEF MessageType, HeaderIn, Text, Marks

\* Where the text of an encoded message is.
LEMMA EncodeFacts ==
    ASSUME NEW m \in MessageType, NEW t \in Text
    PROVE  LET line == EncodeTo(m, t)
               h    == Len(HeaderOf(m))
           IN  /\ line \in Text /\ h \in Nat /\ Len(t) \in Nat
               /\ Len(line) = h + 3 + Len(t)
               /\ \A k \in 1..Len(t) : line[h + 1 + k] = t[k]
<1> DEFINE line == EncodeTo(m, t)
           header == HeaderOf(m)
           h == Len(header)
           mark == <<Blank>>
           front == header \o (mark \o t)
<1>1. header \in Seq(Characters) /\ t \in Seq(Characters) /\ CrLf \in Seq(Characters)
      /\ Len(CrLf) = 2
    BY MessageHeader, HeaderType, CrLfFacts DEF Text
<1>2. mark \in Seq(Characters) /\ Len(mark) = 1
    BY Members, OneType
<1>3. line = front \o CrLf
    BY NoneAssumption DEF EncodeTo, HeaderOf, Optional
<1> HIDE DEF line, header, mark
<1>4. h \in Nat /\ Len(t) \in Nat
    BY <1>1, LenProperties
<1>5. /\ mark \o t \in Seq(Characters) /\ Len(mark \o t) = 1 + Len(t)
      /\ \A k \in 1..1 + Len(t) :
            (mark \o t)[k] = IF k <= 1 THEN mark[k] ELSE t[k - 1]
    <2> DEFINE one == Len(mark)
    <2>1. one = 1
        BY <1>2
    <2>2. /\ mark \o t \in Seq(Characters) /\ Len(mark \o t) = one + Len(t)
          /\ \A k \in 1..one + Len(t) :
                (mark \o t)[k] = IF k <= one THEN mark[k] ELSE t[k - one]
        <3>1. mark \in Seq(Characters)
            BY <1>2
        <3>2. t \in Seq(Characters)
            BY <1>1
        <3> QED BY <3>1, <3>2, ConcatProperties
    <2> HIDE DEF one
    <2> QED BY <2>1, <2>2
<1> DEFINE text == mark \o t
<1> HIDE DEF text
<1>6. /\ text \in Seq(Characters) /\ Len(text) = 1 + Len(t)
      /\ \A k \in 1..Len(t) : text[1 + k] = t[k]
    <2>1. \A k \in 1..Len(t) : 1 + k \in 1..1 + Len(t) /\ ~(1 + k <= 1) /\ (1 + k) - 1 = k
        BY <1>4
    <2> QED BY <1>5, <2>1 DEF text
<1>7. /\ front \in Seq(Characters) /\ Len(front) = h + (1 + Len(t))
      /\ \A k \in 1..h + (1 + Len(t)) :
            front[k] = IF k <= h THEN header[k] ELSE text[k - h]
    <2>1. front = header \o text
        BY DEF text
    <2> QED BY <1>1, <1>4, <1>6, <2>1, ConcatElements
<1> HIDE DEF front
<1>8. \A k \in 1..Len(t) : front[h + 1 + k] = t[k]
    <2>1. \A k \in 1..Len(t) : /\ h + 1 + k \in 1..h + (1 + Len(t)) /\ ~(h + 1 + k <= h)
                               /\ (h + 1 + k) - h = 1 + k
        BY <1>4
    <2> QED BY <1>6, <1>7, <2>1
<1>9. /\ line \in Seq(Characters) /\ Len(line) = Len(front) + 2
      /\ \A k \in 1..Len(front) + 2 :
            line[k] = IF k <= Len(front) THEN front[k] ELSE CrLf[k - Len(front)]
    <2> DEFINE two == Len(CrLf)
    <2>1. two = 2
        BY <1>1
    <2>2. /\ line \in Seq(Characters) /\ Len(line) = Len(front) + two
          /\ \A k \in 1..Len(front) + two :
                line[k] = IF k <= Len(front) THEN front[k] ELSE CrLf[k - Len(front)]
        <3>1. front \in Seq(Characters)
            BY <1>7
        <3>2. CrLf \in Seq(Characters)
            BY <1>1
        <3> QED BY <1>3, <3>1, <3>2, ConcatProperties
    <2> HIDE DEF two
    <2> QED BY <2>1, <2>2
<1>10. \A k \in 1..Len(t) : line[h + 1 + k] = t[k]
    <2>1. \A k \in 1..Len(t) : h + 1 + k \in 1..Len(front) + 2 /\ h + 1 + k <= Len(front)
        BY <1>4, <1>7
    <2> QED BY <1>8, <1>9, <2>1
<1>11. Len(line) = h + 3 + Len(t)
    BY <1>4, <1>7, <1>9
<1> QED BY <1>4, <1>9, <1>10, <1>11 DEF line, Text, header

LEMMA EncodeNoneFacts ==
    ASSUME NEW m \in MessageType
    PROVE  /\ EncodeTo(m, None) = HeaderOf(m) \o CrLf
           /\ EncodeTo(m, None) \in Text
           /\ Len(EncodeTo(m, None)) = Len(HeaderOf(m)) + 2
<1> DEFINE header == HeaderOf(m)
<1>1. header \in Seq(Characters) /\ CrLf \in Seq(Characters) /\ Len(CrLf) = 2
    BY MessageHeader, HeaderType, CrLfFacts DEF Text
<1>2. EncodeTo(m, None) = header \o <<>> \o CrLf
    BY DEF EncodeTo, HeaderOf, Optional
<1> HIDE DEF header
<1>3. header \o <<>> = header
    BY <1>1, ConcatEmptySeq
<1>4. EncodeTo(m, None) = header \o CrLf
    BY <1>2, <1>3
<1>5. header \o CrLf \in Seq(Characters) /\ Len(header \o CrLf) = Len(header) + 2
    BY <1>1, ConcatType
<1> QED BY <1>4, <1>5 DEF header, Text

LEMMA SizeFacts ==
    ASSUME NEW m \in MessageType
    PROVE  /\ Len(HeaderOf(m)) \in Nat
           /\ SizeWithoutTrailing(m) = Len(HeaderOf(m)) + 3
           /\ TrailingPerMessage(m) \in Nat
           /\ SizeWithoutTrailing(m) < Limit =>
                TrailingPerMessage(m) = Limit - SizeWithoutTrailing(m)
<1>1. <<>> \in Text /\ Len(<<>>) = 0
    BY DEF Text
<1>2. Len(HeaderOf(m)) \in Nat /\ SizeWithoutTrailing(m) = Len(HeaderOf(m)) + 3
    BY <1>1, EncodeFacts DEF SizeWithoutTrailing
<1> DEFINE size == SizeWithoutTrailing(m)
<1> HIDE DEF size
<1>3. size \in Nat /\ Limit \in Nat /\ SizeMax \in Nat /\ Limit < SizeMax
    BY <1>2, SizesAssumption DEF size
<1>4. (Limit - size) % SizeMax \in Nat
    BY <1>3
<1>5. ASSUME size < Limit PROVE (Limit - size) % SizeMax = Limit - size
    <2>1. Limit - size \in Nat /\ Limit - size < SizeMax
        BY <1>3, <1>5
    <2>2. \A x, y \in Nat : x < y => x % y = x
        OBVIOUS
    <2> QED BY <1>3, <2>1, <2>2
<1> QED BY <1>2, <1>4, <1>5 DEF size, TrailingPerMessage

-----------------------------------------------------------------------------
\* The types of what from_chars returns.

LEMMA BeforeType ==
    ASSUME NEW s \in Text, NEW C
    PROVE  /\ Before(s, C) \in Text /\ Len(Before(s, C)) \in 0..Len(s)
           /\ Drop(s, Len(Before(s, C))) \in Text
<1>1. s \in Seq(Characters)
    BY DEF Text
<1>2. Before(s, C) \in Seq(Characters) /\ Len(Before(s, C)) \in 0..Len(s)
    BY <1>1, BeforeFacts
<1> QED BY <1>1, <1>2, DropFacts DEF Text

LEMMA TailOrNoneType ==
    ASSUME NEW s \in Text
    PROVE  TailOrNone(s) \in Text \cup {None}
BY HeadTailProperties DEF TailOrNone, Text

LEMMA InitPrefixType ==
    ASSUME NEW text \in Text
    PROVE  LET prefix == InitPrefix(text)
           IN  /\ {prefix.name, prefix.user, prefix.host} \subseteq Text \cup {None}
               /\ prefix.rest \in Text
<1> DEFINE prefix == IF text # <<>> /\ Head(text) = Colon
                     THEN Before(text, {Blank}) ELSE <<>>
           name   == Before(prefix, {"!", "@"})
           after  == Drop(prefix, Len(name))
           user   == Before(after, {"@"})
           host   == Drop(prefix, Len(name) + Len(user))
<1>1. prefix \in Text /\ Drop(text, Len(prefix)) \in Text
    <2>1. CASE text # <<>> /\ Head(text) = Colon
        BY <2>1, BeforeType
    <2>2. CASE ~(text # <<>> /\ Head(text) = Colon)
        <3>1. prefix = <<>> /\ Len(<<>>) = 0 /\ <<>> \in Text
            BY <2>2 DEF Text
        <3>2. text \in Seq(Characters) /\ 0 \in 0..Len(text)
            BY LenProperties DEF Text
        <3>3. Drop(text, 0) \in Text
            BY <3>2, DropFacts DEF Text
        <3> HIDE DEF prefix
        <3> QED BY <3>1, <3>3
    <2> QED BY <2>1, <2>2
<1>unfold. InitPrefix(text) = [name |-> TailOrNone(name), user |-> TailOrNone(user),
                          host |-> TailOrNone(host), rest |-> Drop(text, Len(prefix))]
    BY DEF InitPrefix
<1> HIDE DEF prefix
<1>2. name \in Text /\ Len(name) \in 0..Len(prefix) /\ after \in Text
    BY <1>1, BeforeType
<1> HIDE DEF name
<1>3. prefix \in Seq(Characters) /\ Len(prefix) \in Nat /\ Len(after) = Len(prefix) - Len(name)
    BY <1>1, <1>2, DropFacts, LenProperties DEF Text
<1> HIDE DEF after
<1>4. user \in Text /\ Len(user) \in 0..Len(after)
    BY <1>2, BeforeType
<1> HIDE DEF user
<1>5. host \in Text
    <2>1. Len(name) + Len(user) \in 0..Len(prefix)
        BY <1>2, <1>3, <1>4
    <2> QED BY <1>3, <2>1, DropFacts DEF Text
<1> HIDE DEF host
<1> QED BY <1>1, <1>2, <1>4, <1>5, <1>unfold, TailOrNoneType

LEMMA WordsType ==
    ASSUME NEW s \in Text
    PROVE  Words(s) \in Seq(Text)
<1> DEFINE f == [k \in DOMAIN s |->
                    IF s[k] # Blank /\ (k = 1 \/ s[k - 1] = Blank)
                    THEN <<Before(Drop(s, k - 1), {Blank})>> ELSE <<>>]
<1>1. s \in Seq(Characters) /\ DOMAIN s = 1..Len(s) /\ Len(s) \in Nat
    BY LenProperties DEF Text
<1>2. ASSUME NEW k \in 1..Len(s)
      PROVE  <<Before(Drop(s, k - 1), {Blank})>> \in Seq(Text)
    <2>1. k - 1 \in 0..Len(s)
        BY <1>1
    <2>2. Drop(s, k - 1) \in Text
        BY <1>1, <2>1, DropFacts DEF Text
    <2>3. Before(Drop(s, k - 1), {Blank}) \in Text
        BY <2>2, BeforeType
    <2> QED BY <2>3, OneType
<1>3. <<>> \in Seq(Text)
    OBVIOUS
<1>4. f \in [1..Len(s) -> Seq(Text)]
    <2>1. \A k \in 1..Len(s) : f[k] \in Seq(Text)
        BY <1>1, <1>2, <1>3
    <2>2. f = [k \in 1..Len(s) |-> f[k]]
        BY <1>1
    <2> HIDE DEF f
    <2> QED BY <2>1, <2>2
<1> HIDE DEF f
<1>5. f \in Seq(Seq(Text))
    BY <1>1, <1>4, FunctionIsSequence
<1>6. FlattenSeq(f) \in Seq(Text)
    BY <1>5, FlattenType
<1> QED BY <1>6 DEF Words, f

LEMMA ViewType ==
    ASSUME NEW prefix, NEW text \in Text,
           {prefix.name, prefix.user, prefix.host} \subseteq Text \cup {None}
    PROVE  View(prefix, text) \in MessageType
<1> DEFINE command == Before(text, {Blank})
           after   == Drop(text, Len(command))
           params  == Before(after, {Colon})
           behind  == Drop(after, Len(params))
<1>1. command \in Text /\ after \in Text
    BY BeforeType
<1>unfold. View(prefix, text) =
        [name |-> prefix.name, user |-> prefix.user, host |-> prefix.host,
         command |-> command, params |-> Words(params), trailing |-> TailOrNone(behind)]
    BY DEF View
<1> HIDE DEF command, after
<1>2. params \in Text /\ behind \in Text
    BY <1>1, BeforeType
<1> HIDE DEF params, behind
<1>3. Words(params) \in Seq(Text) /\ TailOrNone(behind) \in Text \cup {None}
    BY <1>2, WordsType, TailOrNoneType
<1> QED BY <1>1, <1>3, <1>unfold DEF MessageType

LEMMA FromCharsType ==
    ASSUME NEW line \in Text, Len(line) >= 2, FromChars(line) # Thrown
    PROVE  FromChars(line) \in MessageType \cup {Refused}
<1> DEFINE text   == SubSeq(line, 1, Len(line) - Len(CrLf))
           prefix == InitPrefix(text)
           rest   == prefix.rest
           starts == {k \in DOMAIN rest : rest[k] # Blank}
           behind == Drop(rest, Min(starts) - 1)
<1>1. text \in Text
    <2>1. line \in Seq(Characters) /\ Len(line) \in Nat /\ Len(CrLf) = 2
        BY CrLfFacts, LenProperties DEF Text
    <2> DEFINE n == Len(line) - Len(CrLf)
    <2>2. n \in Nat /\ 1 <= n + 1 /\ n <= Len(line)
        BY <2>1
    <2> HIDE DEF n
    <2>3. SubSeq(line, 1, n) \in Seq(Characters)
        BY <2>1, <2>2, PartFacts
    <2> QED BY <2>3 DEF n, Text
<1>unfold. FromChars(line) =
        CASE rest = <<>> -> Refused
          [] rest # <<>> /\ prefix.name = None -> View(prefix, text)
          [] rest # <<>> /\ prefix.name # None /\ starts = {} -> Thrown
          [] OTHER -> View(prefix, behind)
    BY DEF FromChars
<1> HIDE DEF text
<1>2. {prefix.name, prefix.user, prefix.host} \subseteq Text \cup {None} /\ rest \in Text
    BY <1>1, InitPrefixType
<1> HIDE DEF prefix
<1>3. ASSUME starts # {} PROVE behind \in Text
    <2>1. rest \in Seq(Characters) /\ Len(rest) \in Nat /\ DOMAIN rest = 1..Len(rest)
        BY <1>2, LenProperties DEF Text
    <2>2. starts \subseteq Nat
        BY <2>1
    <2>3. Min(starts) \in starts
        BY <1>3, <2>2, MinFacts
    <2> DEFINE n == Min(starts) - 1
    <2>4. n \in 0..Len(rest)
        BY <2>1, <2>3
    <2> HIDE DEF n
    <2>5. Drop(rest, n) \in Text
        BY <2>1, <2>4, DropFacts DEF Text
    <2> QED BY <2>5 DEF n
<1>4. View(prefix, text) \in MessageType
    BY <1>1, <1>2, ViewType
<1>5. ASSUME starts # {} PROVE View(prefix, behind) \in MessageType
    <2>1. behind \in Text
        BY <1>3, <1>5
    <2> HIDE DEF behind
    <2> QED BY <1>2, <2>1, ViewType
<1> HIDE DEF rest, starts, behind
<1>6. CASE rest = <<>>
    BY <1>6, <1>unfold
<1>7. CASE rest # <<>> /\ prefix.name = None
    BY <1>4, <1>7, <1>unfold
<1>8. CASE rest # <<>> /\ prefix.name # None /\ starts = {}
    BY <1>8, <1>unfold
<1>9. CASE rest # <<>> /\ prefix.name # None /\ starts # {}
    BY <1>5, <1>9, <1>unfold
<1> QED BY <1>6, <1>7, <1>8, <1>9

-----------------------------------------------------------------------------
\* What goes into a line.

LEMMA MessageParts ==
    ASSUME msg \in Messages \cup ServerMessages
    PROVE  /\ msg \in MessageType
           /\ msg.trailing # None => msg.trailing \in Text
<1>1. msg \in MessageType
    BY MessagesAssumption
<1> QED BY <1>1 DEF MessageType

LEMMA CurTrailingFacts ==
    ASSUME msg \in MessageType, msg.trailing \in Text, i \in Nat, i < Len(msg.trailing)
    PROVE  LET t == msg.trailing
               n == Len(CurTrailing)
           IN  /\ CurTrailing \in Text /\ n \in Nat /\ n <= TrailingPerMessage(msg)
               /\ Len(t) \in Nat /\ i + n <= Len(t)
               /\ \A k \in 1..n : CurTrailing[k] = t[i + k] /\ t[i + k] # Linefeed
               /\ \/ i + n = Len(t)
                  \/ i + n + 1 \in 1..Len(t)
                     /\ (t[i + n + 1] = Linefeed \/ n = TrailingPerMessage(msg))
<1> DEFINE t    == msg.trailing
           len  == Len(t)
           room == TrailingPerMessage(msg)
           part == Before(Rest, {Linefeed})
           n    == IF Len(part) < room THEN Len(part) ELSE room
<1>1. t \in Seq(Characters) /\ len \in Nat /\ i \in 0..len /\ room \in Nat
    BY SizeFacts, LenProperties DEF Text
<1>2. /\ Rest \in Seq(Characters) /\ Len(Rest) = len - i
      /\ \A k \in 1..len - i : Rest[k] = t[i + k]
    BY <1>1, DropFacts DEF Rest
<1>3. PICK p \in 0..Len(Rest) :
        /\ part \in Seq(Characters) /\ Len(part) = p
        /\ \A k \in 1..p : part[k] = Rest[k] /\ Rest[k] \notin {Linefeed}
        /\ p < Len(Rest) => Rest[p + 1] \in {Linefeed}
    BY <1>2, BeforeFacts
<1>unfold. CurTrailing = SubSeq(part, 1, n)
    BY DEF CurTrailing
<1> HIDE DEF t, room, part
<1>4. /\ n \in Nat /\ n <= p /\ n <= room /\ p \in 0..len - i /\ p \in Nat /\ len - i \in Nat
      /\ n = p \/ n = room
    BY <1>1, <1>2, <1>3
<1> HIDE DEF n, len
<1>5. /\ CurTrailing \in Seq(Characters) /\ Len(CurTrailing) = n
      /\ \A k \in 1..n : CurTrailing[k] = part[k]
    <2>1. 1 <= n + 1 /\ n <= Len(part) /\ n + 1 - 1 = n /\ \A k \in 1..n : 1 + k - 1 = k
        BY <1>3, <1>4
    <2> QED BY <1>3, <1>4, <1>unfold, <2>1, PartFacts
<1>6. ASSUME NEW k \in 1..n
      PROVE  CurTrailing[k] = t[i + k] /\ t[i + k] # Linefeed
    <2>1. k \in 1..p /\ k \in 1..len - i
        BY <1>4
    <2> QED BY <1>2, <1>3, <1>5, <2>1
<1>7. i + n <= len /\ (i + n # len => i + n + 1 \in 1..len /\ n + 1 \in 1..len - i)
    BY <1>1, <1>4
<1>8. ASSUME i + n # len, n # room
      PROVE  t[i + n + 1] = Linefeed
    <2>1. n = p /\ p < Len(Rest) /\ p + 1 \in 1..len - i
        BY <1>1, <1>2, <1>4, <1>7, <1>8
    <2>2. Rest[p + 1] = Linefeed /\ Rest[p + 1] = t[i + (p + 1)]
        BY <1>2, <1>3, <2>1
    <2>3. i + (p + 1) = i + n + 1
        BY <1>1, <1>4, <2>1
    <2> QED BY <2>2, <2>3
<1> QED BY <1>1, <1>4, <1>5, <1>6, <1>7, <1>8 DEF Text, t, len, room

-----------------------------------------------------------------------------
\* Types.

LEMMA AppendText ==
    ASSUME NEW s \in Seq(Text), NEW x \in Text
    PROVE  Append(s, x) \in Seq(Text)
BY AppendProperties

LEMMA FlattenText ==
    ASSUME NEW s \in Seq(Text)
    PROVE  FlattenSeq(s) \in Text
BY FlattenType DEF Text

LEMMA ServerLineType ==
    ASSUME NEW S, NEW m, HeaderIn(m, S), Marks(S), m.trailing \in Seq(S) \cup {None},
           NEW gap \in Seq(S)
    PROVE  \E body \in Seq(S) : ServerLine(m, gap) = body \o CrLf
<1> DEFINE flat == FlattenSeq([k \in DOMAIN m.params |-> gap \o m.params[k]])
           last == IF m.trailing = None THEN <<>> ELSE gap \o <<Colon>> \o m.trailing
           body == Prefix(m) \o m.command \o flat \o last
<1>1. Prefix(m) \in Seq(S)
    BY PrefixType
<1>2. m.command \in Seq(S) /\ flat \in Seq(S)
    BY ParamsType DEF HeaderIn
<1>3. last \in Seq(S)
    <2>1. CASE m.trailing = None
        <3>1. last = <<>>
            BY <2>1
        <3> QED BY <3>1
    <2>2. CASE m.trailing # None
        <3>1. <<Colon>> \in Seq(S) /\ m.trailing \in Seq(S)
            BY <2>2, OneType DEF Marks
        <3>2. gap \o <<Colon>> \o m.trailing \in Seq(S)
            <4> DEFINE colon == <<Colon>>
            <4> HIDE DEF colon
            <4>1. colon \in Seq(S)
                BY <3>1 DEF colon
            <4>2. gap \o colon \o m.trailing \in Seq(S)
                BY <3>1, <4>1, ConcatType
            <4> QED BY <4>2 DEF colon
        <3> QED BY <2>2, <3>2
    <2> QED BY <2>1, <2>2
<1>4. ServerLine(m, gap) = body \o CrLf
    BY DEF ServerLine
<1>5. body \in Seq(S)
    <2> HIDE DEF flat, last
    <2> QED BY <1>1, <1>2, <1>3, ConcatType
<1> QED BY <1>4, <1>5

LEMMA GapTypes ==
    ASSUME NEW S, Marks(S), NEW gap \in {<<Blank>>, <<Blank, Blank>>}
    PROVE  gap \in Seq(S)
<1>1. Blank \in S
    BY DEF Marks
<1>2. <<Blank>> \in Seq(S) /\ <<Blank, Blank>> \in Seq(S)
    BY <1>1, PairType, OneType
<1> QED BY <1>2

LEMMA ServerText ==
    ASSUME NEW m \in MessageType, NEW gap \in {<<Blank>>, <<Blank, Blank>>}
    PROVE  ServerLine(m, gap) \in Text
<1>1. HeaderIn(m, Characters) /\ Marks(Characters)
    BY MessageHeader
<1>2. m.trailing \in Seq(Characters) \cup {None}
    BY DEF MessageType, Text
<1>3. gap \in Seq(Characters)
    BY <1>1, GapTypes
<1>4. PICK body \in Seq(Characters) : ServerLine(m, gap) = body \o CrLf
    BY <1>1, <1>2, <1>3, ServerLineType
<1> QED BY <1>4, CrLfFacts, ConcatType DEF Text

LEMMA InitType == Init => TypeOK
<1> SUFFICES ASSUME Init PROVE TypeOK
    OBVIOUS
<1>1. <<>> \in Text /\ <<>> \in Seq(Text) /\ Len(<<>>) = 0 /\ DOMAIN <<>> = {}
    BY DEF Text
<1>2. Limit \in Nat
    BY SizesAssumption
<1>3. i \in Nat /\ buffer \in Text /\ Len(buffer) <= Limit
      /\ received \in Seq(MessageType \cup {Refused})
    BY <1>1, <1>2 DEF Init
<1>4. CASE origin = "client" /\ msg \in Messages /\ stage = "encoding" /\ lines = <<>> /\ wire = <<>>
    BY <1>1, <1>3, <1>4 DEF TypeOK
<1>5. CASE /\ origin = "server" /\ msg \in ServerMessages /\ stage = "sent"
           /\ \E gap \in {<<Blank>>, <<Blank, Blank>>} : lines = <<ServerLine(msg, gap)>>
           /\ wire = lines[1]
    <2>1. PICK gap \in {<<Blank>>, <<Blank, Blank>>} : lines = <<ServerLine(msg, gap)>>
        BY <1>5
    <2>2. msg \in MessageType
        BY <1>5, MessagesAssumption
    <2>3. ServerLine(msg, gap) \in Text
        BY <2>2, ServerText
    <2>4. lines \in Seq(Text) /\ lines[1] \in Text
        BY <2>1, <2>3, OneType
    <2> QED BY <1>3, <1>5, <2>4 DEF TypeOK
<1> QED BY <1>4, <1>5 DEF Init

LEMMA LineEndsFacts ==
    ASSUME buffer \in Text
    PROVE  /\ LineEnds \subseteq 2..Len(buffer) /\ Len(buffer) \in Nat
           /\ LineEnds # {} =>
                /\ Min(LineEnds) \in LineEnds /\ Min(LineEnds) \in 2..Len(buffer)
                /\ \A k \in LineEnds : Min(LineEnds) <= k
<1>1. Len(buffer) \in Nat
    BY LenProperties DEF Text
<1>2. LineEnds \subseteq 2..Len(buffer)
    BY DEF LineEnds
<1>3. LineEnds \subseteq Nat
    BY <1>1, <1>2
<1>4. LineEnds # {} => Min(LineEnds) \in LineEnds /\ \A k \in LineEnds : Min(LineEnds) <= k
    BY <1>3, MinFacts
<1> QED BY <1>1, <1>2, <1>4

\* The first line in the buffer, and what is behind it.
LEMMA TakenFacts ==
    ASSUME buffer \in Text, LineEnds # {}
    PROVE  LET taken == SubSeq(buffer, 1, Min(LineEnds))
           IN  /\ taken \in Text /\ Len(taken) >= 2 /\ Len(taken) = Min(LineEnds)
               /\ \A k \in 1..Min(LineEnds) : taken[k] = buffer[k]
               /\ Drop(buffer, Min(LineEnds)) \in Text
               /\ Len(Drop(buffer, Min(LineEnds))) <= Len(buffer)
<1> DEFINE m == Min(LineEnds)
<1>1. m \in 2..Len(buffer) /\ Len(buffer) \in Nat /\ buffer \in Seq(Characters)
    BY LineEndsFacts DEF Text
<1> HIDE DEF m
<1>2. /\ m \in Nat /\ 1 <= m + 1 /\ m <= Len(buffer) /\ m + 1 - 1 = m
      /\ m \in 0..Len(buffer) /\ m >= 2 /\ Len(buffer) - m <= Len(buffer)
      /\ \A k \in 1..m : 1 + k - 1 = k
    BY <1>1
<1>3. /\ SubSeq(buffer, 1, m) \in Seq(Characters) /\ Len(SubSeq(buffer, 1, m)) = m
      /\ \A k \in 1..m : SubSeq(buffer, 1, m)[k] = buffer[k]
    BY <1>1, <1>2, PartFacts
<1>4. Drop(buffer, m) \in Seq(Characters) /\ Len(Drop(buffer, m)) = Len(buffer) - m
    BY <1>1, <1>2, DropFacts
<1> QED BY <1>2, <1>3, <1>4 DEF m, Text

LEMMA SplitAt ==
    ASSUME NEW S, NEW s \in Seq(S), NEW n \in 0..Len(s)
    PROVE  /\ SubSeq(s, 1, n) \in Seq(S) /\ Drop(s, n) \in Seq(S)
           /\ Len(SubSeq(s, 1, n)) = n /\ Len(Drop(s, n)) = Len(s) - n
           /\ SubSeq(s, 1, n) \o Drop(s, n) = s
<1> DEFINE moved == SubSeq(s, 1, n)
           rest  == Drop(s, n)
           w     == moved \o rest
           len   == Len(s)
<1>1. len \in Nat /\ n \in Nat /\ n <= len /\ 1 <= n + 1 /\ n + 1 - 1 = n /\ n + (len - n) = len
      /\ \A k \in 1..n : 1 + k - 1 = k
    BY LenProperties
<1>2. moved \in Seq(S) /\ Len(moved) = n /\ \A k \in 1..n : moved[k] = s[k]
    BY <1>1, PartFacts
<1>3. /\ rest \in Seq(S) /\ Len(rest) = len - n
      /\ \A k \in 1..len - n : rest[k] = s[n + k]
    BY DropFacts
<1> HIDE DEF moved, rest
<1>4. /\ w \in Seq(S) /\ Len(w) = n + (len - n)
      /\ \A k \in 1..n + (len - n) : w[k] = IF k <= n THEN moved[k] ELSE rest[k - n]
    BY <1>2, <1>3, ConcatElements
<1> HIDE DEF w, len
<1>5. ASSUME NEW k \in 1..len PROVE w[k] = s[k]
    <2>1. CASE k <= n
        <3>1. k \in 1..n
            BY <1>1, <2>1
        <3> QED BY <1>1, <1>2, <1>4, <2>1, <3>1
    <2>2. CASE ~(k <= n)
        <3>1. k - n \in 1..len - n /\ n + (k - n) = k
            BY <1>1, <2>2
        <3> QED BY <1>1, <1>3, <1>4, <2>2, <3>1
    <2> QED BY <2>1, <2>2
<1>6. w = s
    BY <1>1, <1>4, <1>5, SeqEqual DEF len
<1> QED BY <1>2, <1>3, <1>6 DEF w, moved, rest, len

\* What is moved from the wire to the buffer.
LEMMA ReadFacts ==
    ASSUME buffer \in Text, wire \in Text, NEW n \in 1..Limit, n <= Len(wire)
    PROVE  /\ buffer \o SubSeq(wire, 1, n) \in Text
           /\ Len(buffer \o SubSeq(wire, 1, n)) = Len(buffer) + n
           /\ Drop(wire, n) \in Text
           /\ (buffer \o SubSeq(wire, 1, n)) \o Drop(wire, n) = buffer \o wire
<1> DEFINE moved == SubSeq(wire, 1, n)
           rest  == Drop(wire, n)
<1>1. /\ n \in Nat /\ 1 <= n + 1 /\ n + 1 - 1 = n /\ n \in 0..Len(wire) /\ Len(wire) \in Nat
      /\ wire \in Seq(Characters) /\ buffer \in Seq(Characters)
      /\ \A k \in 1..n : 1 + k - 1 = k
    BY SizesAssumption, LenProperties DEF Text
<1>2. moved \in Seq(Characters) /\ Len(moved) = n /\ \A k \in 1..n : moved[k] = wire[k]
    BY <1>1, PartFacts
<1>3. /\ rest \in Seq(Characters) /\ Len(rest) = Len(wire) - n
      /\ \A k \in 1..Len(wire) - n : rest[k] = wire[n + k]
    BY <1>1, DropFacts
<1> HIDE DEF moved, rest
<1>4. buffer \o moved \in Seq(Characters) /\ Len(buffer \o moved) = Len(buffer) + n
    BY <1>1, <1>2, ConcatType
<1>5. moved \o rest = wire
    BY <1>1, SplitAt DEF moved, rest
<1>6. (buffer \o moved) \o rest = buffer \o wire
    <2> DEFINE front == buffer \o moved
               whole == front \o rest
    <2>1. front = buffer \o moved /\ whole = front \o rest
        OBVIOUS
    <2> HIDE DEF front, whole
    <2>2. whole = buffer \o (moved \o rest)
        BY <1>1, <1>2, <1>3, <2>1, OneMorePart
    <2> QED BY <1>5, <2>2 DEF front, whole
<1> QED BY <1>3, <1>4, <1>6 DEF moved, rest, Text

LEMMA NextType == TypeOK /\ [Next]_vars => TypeOK'
<1> SUFFICES ASSUME TypeOK, [Next]_vars PROVE TypeOK'
    OBVIOUS
<1>0. /\ msg \in MessageType /\ (msg.trailing # None => msg.trailing \in Text)
      /\ buffer \in Text /\ wire \in Text /\ lines \in Seq(Text) /\ i \in Nat
      /\ Limit \in Nat /\ Len(buffer) <= Limit /\ Len(buffer) \in Nat
    BY MessageParts, SizesAssumption, LineEndsFacts DEF TypeOK
<1>1. CASE EncodeWithoutTrailing
    <2>1. EncodeTo(msg, None) \in Text
        BY <1>0, EncodeNoneFacts
    <2>2. lines' \in Seq(Text) /\ lines'[1] \in Text
        BY <1>1, <2>1, OneType DEF EncodeWithoutTrailing
    <2> QED BY <1>1, <2>2 DEF EncodeWithoutTrailing, TypeOK
<1>2. CASE EncodeLine
    <2>1. CurTrailing \in Text /\ Len(CurTrailing) \in Nat
        BY <1>0, <1>2, CurTrailingFacts DEF EncodeLine
    <2>2. EncodeTo(msg, CurTrailing) \in Text
        BY <1>0, <2>1, EncodeFacts
    <2>3. lines' \in Seq(Text)
        BY <1>0, <1>2, <2>2, AppendText DEF EncodeLine
    <2>4. i' \in Nat
        BY <1>0, <1>2, <2>1 DEF EncodeLine
    <2> QED BY <1>2, <2>3, <2>4 DEF EncodeLine, TypeOK
<1>3. CASE SendLines
    <2>1. wire' \in Text
        BY <1>0, <1>3, FlattenText DEF SendLines
    <2> QED BY <1>3, <2>1 DEF SendLines, TypeOK, writerVars
<1>4. CASE Read
    <2>1. PICK n \in 1..Limit :
            /\ n <= Len(wire) /\ Len(buffer) + n <= Limit
            /\ buffer' = buffer \o SubSeq(wire, 1, n) /\ wire' = Drop(wire, n)
        BY <1>4 DEF Read
    <2>2. buffer' \in Text /\ wire' \in Text /\ Len(buffer') <= Limit
        BY <1>0, <2>1, ReadFacts
    <2> QED BY <1>4, <2>2 DEF Read, TypeOK, writerVars
<1>5. CASE TakeLine
    <2> DEFINE parsed == FromChars(SubSeq(buffer, 1, Min(LineEnds)))
    <2>1. buffer' \in Text /\ Len(buffer') <= Limit
        BY <1>0, <1>5, TakenFacts DEF TakeLine
    <2>2. parsed \in MessageType \cup {Refused}
        <3>1. SubSeq(buffer, 1, Min(LineEnds)) \in Text /\ Len(SubSeq(buffer, 1, Min(LineEnds))) >= 2
            BY <1>0, <1>5, TakenFacts DEF TakeLine
        <3> QED BY <1>5, <3>1, FromCharsType DEF TakeLine
    <2>3. received' = Append(received, parsed)
        BY <1>5 DEF TakeLine
    <2> HIDE DEF parsed
    <2>4. received' \in Seq(MessageType \cup {Refused})
        BY <2>2, <2>3, AppendProperties DEF TypeOK
    <2> QED BY <1>5, <2>1, <2>4 DEF TakeLine, TypeOK, writerVars
<1>6. CASE LeaveByException
    BY <1>6 DEF LeaveByException, TypeOK, writerVars
<1>7. CASE UNCHANGED vars
    BY <1>7 DEF vars, TypeOK
<1> QED BY <1>1, <1>2, <1>3, <1>4, <1>5, <1>6, <1>7 DEF Next

\* Every variable keeps its type; what from_chars returns is a message or an error
\* (message_view::from_chars), and the buffer never holds more than its size (run_inner).
THEOREM MessageTypes == Spec => []TypeOK
BY InitType, NextType, PTL DEF Spec

-----------------------------------------------------------------------------
\* Lines fit.

\* The message stays, and lines and index but for the steps of encode.
LEMMA MessageStays ==
    ASSUME [Next]_vars
    PROVE  /\ msg' = msg /\ origin' = origin
           /\ ~EncodeWithoutTrailing /\ ~EncodeLine => lines' = lines /\ i' = i
BY DEF Next, EncodeWithoutTrailing, EncodeLine, SendLines, Read, TakeLine, LeaveByException,
       writerVars, vars

LEMMA AppendedLine ==
    ASSUME NEW s \in Seq(Text), NEW x \in Text
    PROVE  /\ Len(s) \in Nat /\ Len(Append(s, x)) = Len(s) + 1 /\ DOMAIN s = 1..Len(s)
           /\ Append(s, x) # <<>>
           /\ DOMAIN Append(s, x) = 1..Len(s) + 1
           /\ \A n \in 1..Len(s) : Append(s, x)[n] = s[n]
           /\ Append(s, x)[Len(s) + 1] = x
<1>1. /\ Len(s) \in Nat /\ DOMAIN s = 1..Len(s) /\ Append(s, x) \in Seq(Text)
      /\ Len(Append(s, x)) = Len(s) + 1 /\ Append(s, x)[Len(s) + 1] = x
      /\ \A n \in 1..Len(s) : Append(s, x)[n] = s[n]
    BY AppendProperties, LenProperties
<1>2. DOMAIN Append(s, x) = 1..Len(Append(s, x))
    BY <1>1, LenProperties
<1>3. Append(s, x) # <<>>
    BY <1>1, EmptySeq
<1> QED BY <1>1, <1>2, <1>3

LEMMA NextFits == TypeOK /\ LinesFit /\ [Next]_vars => LinesFit'
<1> SUFFICES ASSUME TypeOK, LinesFit, [Next]_vars, HasRoom'
             PROVE  \A n \in DOMAIN lines' : Len(lines'[n]) <= Limit
    BY DEF LinesFit
<1>0. /\ msg \in MessageType /\ (msg.trailing # None => msg.trailing \in Text)
      /\ lines \in Seq(Text) /\ i \in Nat /\ Limit \in Nat /\ msg' = msg /\ origin' = origin
    BY MessageParts, SizesAssumption, MessageStays DEF TypeOK
<1> DEFINE size == SizeWithoutTrailing(msg)
           room == TrailingPerMessage(msg)
<1>1. HasRoom /\ size < Limit
    BY <1>0 DEF HasRoom
<1>2. \A n \in DOMAIN lines : Len(lines[n]) <= Limit
    BY <1>1 DEF LinesFit
<1>3. Len(HeaderOf(msg)) \in Nat /\ size = Len(HeaderOf(msg)) + 3 /\ room = Limit - size
    BY <1>0, <1>1, SizeFacts
<1> HIDE DEF size, room
<1>4. CASE EncodeWithoutTrailing
    <2> DEFINE l == EncodeTo(msg, None)
    <2>1. l \in Text /\ Len(l) = Len(HeaderOf(msg)) + 2
        BY <1>0, EncodeNoneFacts
    <2>2. Len(l) <= Limit
        BY <1>0, <1>1, <1>3, <2>1
    <2>3. lines' = <<l>>
        BY <1>4 DEF EncodeWithoutTrailing
    <2> HIDE DEF l
    <2>4. DOMAIN lines' = {1} /\ lines'[1] = l
        BY <2>3
    <2> QED BY <2>2, <2>4
<1>5. CASE EncodeLine
    <2> DEFINE l == EncodeTo(msg, CurTrailing)
    <2>1. CurTrailing \in Text /\ Len(CurTrailing) \in Nat /\ Len(CurTrailing) <= room
        BY <1>0, <1>5, CurTrailingFacts DEF EncodeLine, room
    <2>2. l \in Text /\ Len(l) = Len(HeaderOf(msg)) + 3 + Len(CurTrailing)
        BY <1>0, <2>1, EncodeFacts
    <2>3. Len(l) <= Limit
        BY <1>0, <1>1, <1>3, <2>1, <2>2
    <2>4. lines' = Append(lines, l)
        BY <1>5 DEF EncodeLine
    <2> HIDE DEF l
    <2>5. \A n \in 1..Len(lines) + 1 : n \in 1..Len(lines) \/ n = Len(lines) + 1
        BY <1>0, LenProperties
    <2> QED BY <1>0, <1>2, <2>2, <2>3, <2>4, <2>5, AppendedLine
<1>6. CASE ~EncodeWithoutTrailing /\ ~EncodeLine
    BY <1>2, <1>6, MessageStays
<1> QED BY <1>4, <1>5, <1>6

LEMMA InitFits == Init => LinesFit
BY DEF Init, LinesFit, HasRoom

\* No line is longer than what a server and the buffer of the other end take,
\* whatever is written and wherever it is cut, if the header leaves room for one
\* character (message::encode).
THEOREM NoLineTooLong == Spec => []LinesFit
BY InitFits, NextFits, MessageTypes, PTL DEF Spec

-----------------------------------------------------------------------------
\* encode gets on.

AdvanceInv ==
    HasRoom /\ msg.trailing # None =>
        /\ Len(lines) <= i
        /\ i > 0 => lines # <<>>
        /\ lines # <<>> => msg.trailing # <<>>
        /\ stage # "encoding" => i >= Len(msg.trailing)

LEMMA InitAdvance == Init => AdvanceInv
<1> SUFFICES ASSUME Init PROVE AdvanceInv
    OBVIOUS
<1>1. Len(<<>>) = 0
    BY EmptySeq
<1> QED BY <1>1 DEF Init, AdvanceInv, HasRoom

LEMMA NextAdvance == TypeOK /\ AdvanceInv /\ [Next]_vars => AdvanceInv'
<1> SUFFICES ASSUME TypeOK, AdvanceInv, [Next]_vars, HasRoom', msg'.trailing # None
             PROVE  /\ Len(lines') <= i'
                    /\ i' > 0 => lines' # <<>>
                    /\ lines' # <<>> => msg'.trailing # <<>>
                    /\ stage' # "encoding" => i' >= Len(msg'.trailing)
    BY DEF AdvanceInv
<1>0. /\ msg \in MessageType /\ lines \in Seq(Text) /\ i \in Nat /\ Limit \in Nat
      /\ msg' = msg /\ origin' = origin /\ Len(lines) \in Nat
    BY MessageParts, SizesAssumption, MessageStays, LenProperties DEF TypeOK
<1>1. HasRoom /\ SizeWithoutTrailing(msg) < Limit /\ msg.trailing # None
    BY <1>0 DEF HasRoom
<1>2. msg.trailing \in Text
    BY <1>1, MessageParts DEF TypeOK
<1> DEFINE t == msg.trailing
           room == TrailingPerMessage(msg)
<1>3. room \in Nat /\ room >= 1
    <2>1. /\ Len(HeaderOf(msg)) \in Nat /\ SizeWithoutTrailing(msg) = Len(HeaderOf(msg)) + 3
          /\ room = Limit - SizeWithoutTrailing(msg)
        BY <1>0, <1>1, SizeFacts
    <2> HIDE DEF room
    <2> QED BY <1>0, <1>1, <2>1
<1>4. /\ Len(lines) <= i
      /\ i > 0 => lines # <<>>
      /\ lines # <<>> => t # <<>>
      /\ stage # "encoding" => i >= Len(t)
    BY <1>1 DEF AdvanceInv
<1>5. CASE EncodeWithoutTrailing
    BY <1>1, <1>5 DEF EncodeWithoutTrailing
<1>6. CASE EncodeLine
    <2> DEFINE n == Len(CurTrailing)
               l == EncodeTo(msg, CurTrailing)
    <2>1. /\ CurTrailing \in Text /\ n \in Nat /\ Len(t) \in Nat /\ i < Len(t)
          /\ \/ i + n = Len(t)
             \/ i + n + 1 \in 1..Len(t) /\ (t[i + n + 1] = Linefeed \/ n = room)
        BY <1>0, <1>2, <1>6, CurTrailingFacts DEF EncodeLine
    <2>2. l \in Text
        BY <1>0, <2>1, EncodeFacts
    <2>3. /\ lines' = Append(lines, l) /\ stage' = stage
          /\ i' = i + n + (IF Linefeed \in ToSet(Rest) THEN 1 ELSE 0)
        BY <1>6 DEF EncodeLine
    <2>4. i' \in Nat /\ i' >= i + 1
        <3>1. CASE Linefeed \in ToSet(Rest)
            BY <1>0, <2>1, <2>3, <3>1
        <3>2. CASE Linefeed \notin ToSet(Rest)
            <4>1. i' = i + n
                BY <1>0, <2>1, <2>3, <3>2
            <4>2. CASE n = 0
                <5>1. i + n + 1 \in 1..Len(t) /\ t[i + 1] = Linefeed /\ i + 1 \in 1..Len(t)
                    <6> HIDE DEF n, t, room
                    <6>1. i + n # Len(t) /\ n # room /\ i + n + 1 = i + 1
                        BY <1>0, <1>3, <2>1, <4>2
                    <6> QED BY <2>1, <6>1
                <5>2. Linefeed \in ToSet(Rest)
                    <6>1. t \in Seq(Characters) /\ i \in 0..Len(t)
                        BY <1>0, <1>2, <2>1 DEF Text
                    <6>2. /\ Rest \in Seq(Characters) /\ Len(Rest) = Len(t) - i
                          /\ \A k \in 1..Len(t) - i : Rest[k] = t[i + k]
                        BY <6>1, DropFacts DEF Rest
                    <6>3. 1 \in 1..Len(t) - i /\ DOMAIN Rest = 1..Len(Rest)
                        BY <1>0, <2>1, <6>2, LenProperties
                    <6>4. Rest[1] = Linefeed
                        BY <5>1, <6>2, <6>3
                    <6> QED BY <6>2, <6>3, <6>4 DEF ToSet
                <5> QED BY <3>2, <5>2
            <4>3. CASE n # 0
                BY <1>0, <2>1, <4>1, <4>3
            <4> QED BY <4>2, <4>3
        <3> QED BY <3>1, <3>2
    <2>5. Len(lines') = Len(lines) + 1 /\ lines' # <<>>
        BY <1>0, <2>2, <2>3, AppendedLine
    <2>6. t # <<>>
        BY <1>0, <2>1, EmptySeq
    <2>7. stage' = "encoding"
        BY <1>6, <2>3 DEF EncodeLine, Encoding
    <2> HIDE DEF n, l, t
    <2> QED BY <1>0, <1>4, <2>4, <2>5, <2>6, <2>7 DEF t
<1>7. CASE ~EncodeWithoutTrailing /\ ~EncodeLine
    <2>1. lines' = lines /\ i' = i
        BY <1>7, MessageStays
    <2>2. stage' # "encoding" => stage # "encoding" \/ i >= Len(t)
        BY <1>7 DEF Next, SendLines, Read, TakeLine, LeaveByException, vars
    <2> QED BY <1>0, <1>4, <2>1, <2>2
<1> QED BY <1>5, <1>6, <1>7

\* encode returns after as many lines as the text has characters, at most, and a text
\* that is not empty is written to one line at least, if the header leaves room for
\* one character (message::encode): every cut and every linefeed moves the index on.
THEOREM EncodeAdvances == Spec => []EveryLineAdvances
<1>1. TypeOK /\ AdvanceInv => EveryLineAdvances
    <2> SUFFICES ASSUME TypeOK, AdvanceInv, HasRoom, msg.trailing # None
                 PROVE  /\ Len(lines) <= i
                        /\ stage = "sent" => ((lines = <<>>) = (msg.trailing = <<>>))
        BY DEF EveryLineAdvances
    <2>1. /\ Len(lines) <= i /\ (i > 0 => lines # <<>>)
          /\ (lines # <<>> => msg.trailing # <<>>)
          /\ (stage # "encoding" => i >= Len(msg.trailing))
        BY DEF AdvanceInv
    <2>2. msg.trailing \in Seq(Characters) /\ i \in Nat
        BY MessageParts DEF TypeOK, Text
    <2>3. msg.trailing # <<>> => Len(msg.trailing) > 0 /\ Len(msg.trailing) \in Nat
        BY <2>2, EmptySeq, LenProperties
    <2>4. stage = "sent" /\ msg.trailing # <<>> => lines # <<>>
        BY <2>1, <2>2, <2>3
    <2> QED BY <2>1, <2>4
<1> QED BY <1>1, InitAdvance, NextAdvance, MessageTypes, PTL DEF Spec

-----------------------------------------------------------------------------
\* What is read.

\* The characters of a line but its end.
Plain == Characters \ {Linefeed}

IsLine(line) == \E body \in Seq(Plain) : line = body \o CrLf

LEMMA PlainType ==
    ASSUME NEW s \in Text, \A k \in 1..Len(s) : s[k] # Linefeed
    PROVE  s \in Seq(Plain)
<1>1. s \in Seq(Characters) /\ Len(s) \in Nat /\ DOMAIN s = 1..Len(s)
    BY LenProperties DEF Text
<1>2. \A k \in 1..Len(s) : s[k] \in Plain
    BY <1>1, ElementOfSeq DEF Plain
<1>3. s = [k \in 1..Len(s) |-> s[k]]
    BY <1>1
<1>4. s \in [1..Len(s) -> Plain]
    BY <1>2, <1>3
<1> QED BY <1>1, <1>4, FunctionIsSequence

LEMMA PlainParts ==
    ASSUME NEW s \in Text, Linefeed \notin ToSet(s)
    PROVE  s \in Seq(Plain)
<1>1. DOMAIN s = 1..Len(s)
    BY LenProperties DEF Text
<1>2. \A k \in 1..Len(s) : s[k] # Linefeed
    BY <1>1 DEF ToSet
<1> QED BY <1>2, PlainType

LEMMA PlainMarks == Marks(Plain)
BY Members, Different DEF Marks, Plain

LEMMA PlainHeader ==
    ASSUME msg \in MessageType, OneLine
    PROVE  /\ HeaderIn(msg, Plain)
           /\ origin = "server" => msg.trailing \in Seq(Plain) \cup {None}
<1>1. /\ msg.name \in Text \cup {None} /\ msg.user \in Text \cup {None}
      /\ msg.host \in Text \cup {None} /\ msg.trailing \in Text \cup {None}
      /\ msg.command \in Text /\ msg.params \in Seq(Text)
    BY DEF MessageType
<1>2. /\ \A part \in {msg.name, msg.user, msg.host, msg.command} :
            part # None => Linefeed \notin ToSet(part)
      /\ \A part \in ToSet(msg.params) : part # None => Linefeed \notin ToSet(part)
      /\ origin = "server" => (msg.trailing # None => Linefeed \notin ToSet(msg.trailing))
    BY DEF OneLine
<1>3. ASSUME NEW part \in Text \cup {None}, part # None => Linefeed \notin ToSet(part)
      PROVE  part \in Seq(Plain) \cup {None}
    BY <1>3, PlainParts
<1>4. {msg.name, msg.user, msg.host} \subseteq Seq(Plain) \cup {None}
    BY <1>1, <1>2, <1>3
<1>5. msg.command \in Seq(Plain)
    BY <1>1, <1>2, PlainParts, NoneAssumption
<1>6. msg.params \in Seq(Seq(Plain))
    <2>1. Len(msg.params) \in Nat /\ DOMAIN msg.params = 1..Len(msg.params)
        BY <1>1, LenProperties
    <2>2. ASSUME NEW k \in 1..Len(msg.params) PROVE msg.params[k] \in Seq(Plain)
        <3>1. msg.params[k] \in Text
            BY <1>1, ElementOfSeq
        <3>2. msg.params[k] \in ToSet(msg.params)
            BY <2>1 DEF ToSet
        <3> QED BY <1>2, <3>1, <3>2, PlainParts, NoneAssumption
    <2>3. msg.params = [k \in 1..Len(msg.params) |-> msg.params[k]]
        BY <1>1, <2>1
    <2>4. msg.params \in [1..Len(msg.params) -> Seq(Plain)]
        BY <2>2, <2>3
    <2> QED BY <2>1, <2>4, FunctionIsSequence
<1>7. origin = "server" => msg.trailing \in Seq(Plain) \cup {None}
    BY <1>1, <1>2, <1>3
<1> QED BY <1>4, <1>5, <1>6, <1>7 DEF HeaderIn

\* What encode writes is a line when there is no linefeed in its parts.
LEMMA EncodedLine ==
    ASSUME NEW m \in MessageType, HeaderIn(m, Plain), NEW t \in Seq(Plain)
    PROVE  t # None => IsLine(EncodeTo(m, t))
<1> SUFFICES ASSUME t # None PROVE IsLine(EncodeTo(m, t))
    OBVIOUS
<1> DEFINE header == HeaderOf(m)
           mark == <<Blank>>
           body == header \o (mark \o t)
<1>1. header \in Seq(Plain)
    BY PlainMarks, HeaderType
<1>2. mark \in Seq(Plain)
    BY PlainMarks, OneType DEF Marks
<1>3. EncodeTo(m, t) = body \o CrLf
    BY DEF EncodeTo, HeaderOf, Optional
<1> HIDE DEF header, mark
<1>4. mark \o t \in Seq(Plain)
    BY <1>2, ConcatType
<1>5. body \in Seq(Plain)
    BY <1>1, <1>4, ConcatType
<1> QED BY <1>3, <1>5 DEF IsLine

\* A line has one linefeed, and it is the last character.
LEMMA IsLineFacts ==
    ASSUME NEW line, IsLine(line)
    PROVE  /\ line \in Text /\ Len(line) \in Nat /\ Len(line) >= 2
           /\ line[Len(line) - 1] = CrLf[1] /\ line[Len(line)] = Linefeed
           /\ \A k \in 1..Len(line) - 1 : line[k] # Linefeed
<1>1. PICK body \in Seq(Plain) : line = body \o CrLf
    BY DEF IsLine
<1> DEFINE n == Len(body)
           two == Len(CrLf)
<1>2. /\ n \in Nat /\ body \in Seq(Characters)
      /\ \A k \in 1..n : body[k] # Linefeed
    <2>1. body \in [1..n -> Plain] /\ n \in Nat
        BY LenProperties
    <2>2. \A k \in 1..n : body[k] \in Characters /\ body[k] # Linefeed
        BY <2>1 DEF Plain
    <2>3. body \in [1..n -> Characters]
        BY <2>1, <2>2
    <2> QED BY <2>1, <2>2, <2>3, FunctionIsSequence
<1>3. two = 2
    BY CrLfFacts
<1>4. /\ line \in Seq(Characters) /\ Len(line) = n + two
      /\ \A k \in 1..n + two : line[k] = IF k <= n THEN body[k] ELSE CrLf[k - n]
    <2>1. CrLf \in Seq(Characters)
        BY CrLfFacts DEF Text
    <2> QED BY <1>1, <1>2, <2>1, ConcatProperties
<1> HIDE DEF n, two
<1>5. /\ n + two - 1 = n + 1 /\ n + 1 \in 1..n + two /\ ~(n + 1 <= n) /\ (n + 1) - n = 1
      /\ n + two \in 1..n + two /\ ~(n + two <= n) /\ (n + two) - n = 2
    BY <1>2, <1>3
<1>6. line[n + 1] = CrLf[1] /\ line[n + two] = Linefeed
    BY <1>4, <1>5, CrLfFacts
<1>7. ASSUME NEW k \in 1..n + 1 PROVE line[k] # Linefeed
    <2>1. CASE k <= n
        <3>1. k \in 1..n /\ k \in 1..n + two
            BY <1>2, <1>3, <2>1
        <3> QED BY <1>2, <1>4, <2>1, <3>1
    <2>2. CASE ~(k <= n)
        <3>1. k = n + 1
            BY <1>2, <2>2
        <3> QED BY <1>6, <3>1, CrLfFacts
    <2> QED BY <2>1, <2>2
<1>8. Len(line) \in Nat /\ Len(line) >= 2 /\ Len(line) - 1 = n + 1
    BY <1>2, <1>3, <1>4
<1>9. line[Len(line) - 1] = CrLf[1] /\ line[Len(line)] = Linefeed
    BY <1>4, <1>6, <1>8
<1>10. \A k \in 1..Len(line) - 1 : line[k] # Linefeed
    BY <1>7, <1>8
<1> QED BY <1>4, <1>8, <1>9, <1>10 DEF Text

\* The first element of a part of s, and what is behind it.
LEMMA DropOne ==
    ASSUME NEW S, NEW s \in Seq(S), NEW n \in Nat, n < Len(s)
    PROVE  /\ Drop(s, n) \in Seq(S) /\ Drop(s, n) # <<>>
           /\ Drop(s, n)[1] = s[n + 1] /\ s[n + 1] \in S
           /\ Tail(Drop(s, n)) = Drop(s, n + 1)
<1> DEFINE len == Len(s)
           d   == Drop(s, n)
           e   == Drop(s, n + 1)
           t   == Tail(d)
<1>1. len \in Nat /\ n \in 0..len /\ n + 1 \in 0..len /\ n + 1 \in 1..len
    BY LenProperties
<1>2. d \in Seq(S) /\ Len(d) = len - n /\ \A k \in 1..len - n : d[k] = s[n + k]
    BY <1>1, DropFacts
<1>3. /\ e \in Seq(S) /\ Len(e) = len - (n + 1)
      /\ \A k \in 1..len - (n + 1) : e[k] = s[(n + 1) + k]
    BY <1>1, DropFacts
<1> HIDE DEF d, e
<1>4. d # <<>>
    BY <1>1, <1>2, EmptySeq
<1>5. t \in Seq(S) /\ Len(t) = Len(d) - 1 /\ \A k \in 1..Len(d) - 1 : t[k] = d[k + 1]
    BY <1>2, <1>4, HeadTailProperties
<1> HIDE DEF t, len
<1>6. Len(t) = Len(e) /\ Len(t) = len - (n + 1)
    BY <1>1, <1>2, <1>3, <1>5
<1>7. ASSUME NEW k \in 1..Len(t) PROVE t[k] = e[k]
    <2>1. /\ k \in 1..Len(d) - 1 /\ k + 1 \in 1..len - n /\ k \in 1..len - (n + 1)
          /\ n + (k + 1) = (n + 1) + k
        BY <1>1, <1>2, <1>5, <1>6
    <2> QED BY <1>2, <1>3, <1>5, <2>1
<1>8. t = e
    BY <1>3, <1>5, <1>6, <1>7, SeqEqual
<1>9. d[1] = s[n + 1]
    <2>1. 1 \in 1..len - n
        BY <1>1
    <2> QED BY <1>2, <2>1
<1>10. s[n + 1] \in S
    BY <1>1, ElementOfSeq DEF len
<1> QED BY <1>2, <1>4, <1>8, <1>9, <1>10 DEF d, e, t

LEMMA DropAll ==
    ASSUME NEW S, NEW s \in Seq(S)
    PROVE  Drop(s, Len(s)) = <<>> /\ Drop(s, 0) = s
<1> DEFINE len == Len(s)
<1>1. len \in Nat /\ len \in 0..len /\ 0 \in 0..len /\ len - len = 0 /\ len - 0 = len
    BY LenProperties
<1>2. Drop(s, len) \in Seq(S) /\ Len(Drop(s, len)) = len - len
    BY <1>1, DropFacts
<1>3. /\ Drop(s, 0) \in Seq(S) /\ Len(Drop(s, 0)) = len - 0
      /\ \A k \in 1..len - 0 : Drop(s, 0)[k] = s[0 + k]
    BY <1>1, DropFacts
<1> DEFINE d == Drop(s, 0)
<1> HIDE DEF d
<1>4. d \in Seq(S) /\ Len(d) = Len(s) /\ \A k \in 1..Len(s) : d[k] = s[k]
    <2>1. \A k \in 1..len : k \in 1..len - 0 /\ 0 + k = k
        BY <1>1
    <2> QED BY <1>1, <1>3, <2>1 DEF d
<1>5. d = s
    BY <1>4, SeqEqual
<1>6. Drop(s, len) = <<>>
    BY <1>1, <1>2, EmptySeq
<1> QED BY <1>5, <1>6 DEF d

\* When the buffer and what is still to be read begin with a line, the first line end
\* in the buffer is that line's.
LEMMA FirstLine ==
    ASSUME buffer \in Text, wire \in Text, LineEnds # {},
           NEW line, IsLine(line), NEW behind \in Text, buffer \o wire = line \o behind
    PROVE  /\ SubSeq(buffer, 1, Min(LineEnds)) = line
           /\ Drop(buffer, Min(LineEnds)) \o wire = behind
<1> DEFINE n == Len(line)
           m == Min(LineEnds)
           b == Len(buffer)
           w == Len(wire)
           whole == buffer \o wire
<1>1. /\ n \in Nat /\ n >= 2 /\ line \in Seq(Characters) /\ line[n - 1] = CrLf[1]
      /\ line[n] = Linefeed /\ \A k \in 1..n - 1 : line[k] # Linefeed
    BY IsLineFacts DEF Text
<1>2. /\ m \in LineEnds /\ m \in 2..b /\ b \in Nat /\ \A k \in LineEnds : m <= k
      /\ buffer \in Seq(Characters) /\ wire \in Seq(Characters) /\ w \in Nat
    BY LineEndsFacts, LenProperties DEF Text
<1>3. /\ Len(whole) = b + w
      /\ \A k \in 1..b + w : whole[k] = IF k <= b THEN buffer[k] ELSE wire[k - b]
    BY <1>2, ConcatElements
<1>4. Len(behind) \in Nat /\ behind \in Seq(Characters)
    BY LenProperties DEF Text
<1>5. /\ Len(whole) = n + Len(behind)
      /\ \A k \in 1..n + Len(behind) : whole[k] = IF k <= n THEN line[k] ELSE behind[k - n]
    BY <1>1, <1>4, ConcatElements
<1>6. ASSUME NEW k \in 2..b
      PROVE  /\ SubSeq(buffer, k - 1, k) \in Seq(Characters)
             /\ Len(SubSeq(buffer, k - 1, k)) = 2
             /\ SubSeq(buffer, k - 1, k)[1] = buffer[k - 1]
             /\ SubSeq(buffer, k - 1, k)[2] = buffer[k]
    <2>1. /\ k - 1 \in Nat /\ k - 1 >= 1 /\ k \in Nat /\ k - 1 <= k + 1 /\ k <= b
          /\ k + 1 - (k - 1) = 2 /\ 1 \in 1..2 /\ 2 \in 1..2
          /\ (k - 1) + 1 - 1 = k - 1 /\ (k - 1) + 2 - 1 = k
        BY <1>2
    <2> DEFINE a == k - 1
    <2>2. /\ SubSeq(buffer, a, k) \in Seq(Characters) /\ Len(SubSeq(buffer, a, k)) = k + 1 - a
          /\ \A j \in 1..k + 1 - a : SubSeq(buffer, a, k)[j] = buffer[a + j - 1]
        <3> HIDE DEF a
        <3>1. a \in Nat /\ a >= 1 /\ k \in Nat /\ a <= k + 1 /\ k <= Len(buffer)
            BY <2>1 DEF a
        <3>2. buffer \in Seq(Characters)
            BY <1>2
        <3> QED BY <3>1, <3>2, PartFacts
    <2> QED BY <2>1, <2>2
<1> HIDE DEF n, m, b, w, whole
<1>7. m >= n
    <2>1. buffer[m] = Linefeed
        <3>1. SubSeq(buffer, m - 1, m) = CrLf
            BY <1>2 DEF LineEnds
        <3> QED BY <1>2, <1>6, <3>1, CrLfFacts
    <2>2. m \in 1..b + w /\ m <= b
        BY <1>2
    <2>3. whole[m] = Linefeed
        BY <1>3, <2>1, <2>2
    <2>4. SUFFICES ASSUME ~(m >= n) PROVE FALSE
        OBVIOUS
    <2>5. m \in 1..n - 1 /\ m \in 1..n + Len(behind) /\ m <= n
        BY <1>1, <1>2, <1>4, <2>4
    <2> QED BY <1>1, <1>5, <2>3, <2>5
<1>8. n \in 2..b /\ n - 1 \in 1..b + w /\ n \in 1..b + w /\ n - 1 <= b /\ n <= b
      /\ n - 1 \in 1..n + Len(behind) /\ n \in 1..n + Len(behind) /\ n - 1 <= n
    BY <1>1, <1>2, <1>4, <1>7
<1>9. n \in LineEnds
    <2>1. buffer[n - 1] = CrLf[1] /\ buffer[n] = CrLf[2]
        BY <1>1, <1>3, <1>5, <1>8, CrLfFacts
    <2> DEFINE s == SubSeq(buffer, n - 1, n)
    <2>2. s \in Seq(Characters) /\ Len(s) = 2 /\ s[1] = CrLf[1] /\ s[2] = CrLf[2]
        BY <1>6, <1>8, <2>1
    <2> HIDE DEF s
    <2>3. \A k \in 1..2 : s[k] = CrLf[k]
        BY <2>2
    <2>4. s = CrLf
        BY <2>2, <2>3, CrLfFacts, SeqEqual DEF Text
    <2>5. \A k \in 2..Len(buffer) : SubSeq(buffer, k - 1, k) = CrLf => k \in LineEnds
        BY DEF LineEnds
    <2> QED BY <1>8, <2>4, <2>5 DEF s, b
<1>10. m = n
    BY <1>1, <1>2, <1>7, <1>9
<1> DEFINE taken == SubSeq(buffer, 1, m)
           rest  == Drop(buffer, m)
<1>11. /\ taken \in Seq(Characters) /\ Len(taken) = m
       /\ \A k \in 1..m : taken[k] = buffer[k]
    BY <1>2, TakenFacts DEF m, Text
<1>12. rest \in Seq(Characters) /\ taken \o rest = buffer
    <2>1. m \in 0..Len(buffer)
        BY <1>2 DEF b
    <2> QED BY <1>2, <2>1, SplitAt
<1> HIDE DEF taken, rest
<1>13. taken = line
    <2>1. ASSUME NEW k \in 1..m PROVE taken[k] = line[k]
        <3>1. k \in 1..b + w /\ k <= b /\ k \in 1..n + Len(behind) /\ k <= n
            BY <1>2, <1>4, <1>10
        <3> QED BY <1>3, <1>5, <1>11, <3>1
    <2> QED BY <1>1, <1>10, <1>11, <2>1, SeqEqual DEF n
<1>14. rest \o wire = behind
    <2>1. whole = taken \o (rest \o wire)
        <3>1. taken \in Seq(Characters) /\ rest \in Seq(Characters) /\ wire \in Seq(Characters)
            BY <1>2, <1>11, <1>12
        <3>2. buffer = taken \o rest /\ whole = buffer \o wire
            BY <1>12 DEF whole
        <3> QED BY <3>1, <3>2, OneMorePart
    <2>2. taken \o (rest \o wire) = taken \o behind
        BY <1>13, <2>1 DEF whole
    <2>3. rest \o wire \in Seq(Characters)
        BY <1>2, <1>12, ConcatType
    <2> DEFINE y == rest \o wire
    <2> HIDE DEF y
    <2>4. y = behind
        BY <1>4, <1>11, <2>2, <2>3, SameFront DEF y
    <2> QED BY <2>4 DEF y
<1> QED BY <1>13, <1>14 DEF taken, rest, m

\* Every line ends where it should and nowhere before, what is in the buffer and on the
\* wire is what is left of the lines, and what was taken was taken in order.
ReadInv ==
    OneLine =>
        /\ \A n \in DOMAIN lines : IsLine(lines[n])
        /\ Len(received) <= Len(lines)
        /\ \A n \in 1..Len(received) : received[n] = FromChars(lines[n])
        /\ stage = "encoding" => buffer = <<>> /\ received = <<>>
        /\ stage # "encoding" =>
             buffer \o wire = FlattenSeq(Drop(lines, Len(received)))

LEMMA InitRead == Init => ReadInv
<1> SUFFICES ASSUME Init, OneLine
             PROVE  /\ \A n \in DOMAIN lines : IsLine(lines[n])
                    /\ Len(received) <= Len(lines)
                    /\ \A n \in 1..Len(received) : received[n] = FromChars(lines[n])
                    /\ stage = "encoding" => buffer = <<>> /\ received = <<>>
                    /\ stage # "encoding" =>
                         buffer \o wire = FlattenSeq(Drop(lines, Len(received)))
    BY DEF ReadInv
<1>1. /\ TypeOK /\ buffer = <<>> /\ received = <<>> /\ Len(received) = 0
      /\ lines \in Seq(Text) /\ Len(lines) \in Nat
    BY InitType, NoneOfNothing, LenProperties DEF Init, TypeOK
<1>2. Len(received) <= Len(lines) /\ 1..Len(received) = {}
    BY <1>1
<1>3. CASE stage = "encoding" /\ lines = <<>>
    <2>1. \A n \in DOMAIN lines : IsLine(lines[n])
        BY <1>3, NoneOfNothing
    <2> QED BY <1>1, <1>2, <1>3, <2>1
<1>4. CASE /\ origin = "server" /\ msg \in ServerMessages /\ stage = "sent"
           /\ \E gap \in {<<Blank>>, <<Blank, Blank>>} : lines = <<ServerLine(msg, gap)>>
           /\ wire = lines[1]
    <2>1. PICK gap \in {<<Blank>>, <<Blank, Blank>>} : lines = <<ServerLine(msg, gap)>>
        BY <1>4
    <2> DEFINE line == ServerLine(msg, gap)
    <2>2. msg \in MessageType
        BY <1>4, MessagesAssumption
    <2>3. HeaderIn(msg, Plain) /\ msg.trailing \in Seq(Plain) \cup {None}
        BY <1>4, <2>2, PlainHeader
    <2>4. gap \in Seq(Plain)
        BY PlainMarks, GapTypes
    <2>5. IsLine(line)
        BY <2>3, <2>4, PlainMarks, ServerLineType DEF IsLine
    <2>6. line \in Text
        BY <2>5, IsLineFacts
    <2>7. lines = <<line>>
        BY <2>1
    <2> HIDE DEF line
    <2>8. wire = line /\ DOMAIN lines = {1} /\ lines[1] = line
        BY <1>4, <2>7
    <2>9. \A n \in DOMAIN lines : IsLine(lines[n])
        BY <2>5, <2>8
    <2>10. Drop(lines, Len(received)) = lines
        BY <1>1, DropAll
    <2>11. buffer \o wire = line
        BY <1>1, <2>6, <2>8, ConcatEmptySeq DEF Text
    <2>12. FlattenSeq(lines) = line
        BY <2>6, <2>7, FlattenOne DEF Text
    <2> QED BY <1>1, <1>2, <1>4, <2>9, <2>10, <2>11, <2>12
<1> QED BY <1>3, <1>4 DEF Init

LEMMA NextRead == TypeOK /\ ReadInv /\ [Next]_vars => ReadInv'
<1> DEFINE r == Len(received)
<1> SUFFICES ASSUME TypeOK, ReadInv, [Next]_vars, OneLine'
             PROVE  /\ \A n \in DOMAIN lines' : IsLine(lines'[n])
                    /\ r' <= Len(lines')
                    /\ \A n \in 1..r' : received'[n] = FromChars(lines'[n])
                    /\ stage' = "encoding" => buffer' = <<>> /\ received' = <<>>
                    /\ stage' # "encoding" =>
                         buffer' \o wire' = FlattenSeq(Drop(lines', r'))
    BY DEF ReadInv
<1>0. /\ msg \in MessageType /\ lines \in Seq(Text) /\ buffer \in Text /\ wire \in Text
      /\ msg' = msg /\ origin' = origin /\ i \in Nat
      /\ received \in Seq(MessageType \cup {Refused})
    BY MessageParts, MessageStays DEF TypeOK
<1>1. OneLine
    BY <1>0 DEF OneLine
<1>2. /\ \A n \in DOMAIN lines : IsLine(lines[n])
      /\ r <= Len(lines)
      /\ \A n \in 1..r : received[n] = FromChars(lines[n])
      /\ stage = "encoding" => buffer = <<>> /\ received = <<>>
      /\ stage # "encoding" => buffer \o wire = FlattenSeq(Drop(lines, r))
    BY <1>1 DEF ReadInv
<1>3. /\ r \in Nat /\ Len(lines) \in Nat /\ DOMAIN lines = 1..Len(lines)
      /\ buffer \in Seq(Characters) /\ wire \in Seq(Characters)
    BY <1>0, LenProperties DEF Text
<1>4. HeaderIn(msg, Plain)
    BY <1>0, <1>1, PlainHeader
<1>5. CASE EncodeWithoutTrailing
    <2> DEFINE line == EncodeTo(msg, None)
    <2>1. line = HeaderOf(msg) \o CrLf /\ line \in Text
        BY <1>0, EncodeNoneFacts
    <2>2. IsLine(line)
        BY <1>4, <2>1, PlainMarks, HeaderType DEF IsLine
    <2>3. /\ lines' = <<line>> /\ wire' = lines'[1] /\ received = <<>> /\ received' = received
          /\ buffer = <<>> /\ buffer' = buffer /\ stage' = "sent"
        BY <1>2, <1>5 DEF EncodeWithoutTrailing, Encoding
    <2> HIDE DEF line
    <2>4. /\ DOMAIN lines' = {1} /\ lines'[1] = line /\ lines' \in Seq(Text) /\ Len(lines') = 1
          /\ r' = 0
        BY <2>1, <2>3, NoneOfNothing
    <2>5. Drop(lines', r') = lines'
        BY <2>4, DropAll
    <2>6. buffer' \o wire' = line
        BY <2>1, <2>3, <2>4, ConcatEmptySeq DEF Text
    <2>7. FlattenSeq(lines') = line
        BY <2>1, <2>3, FlattenOne DEF Text
    <2>8. \A n \in DOMAIN lines' : IsLine(lines'[n])
        BY <2>2, <2>4
    <2>9. r' <= Len(lines') /\ 1..r' = {}
        BY <2>4
    <2> QED BY <2>3, <2>5, <2>6, <2>7, <2>8, <2>9
<1>6. CASE EncodeLine
    <2> DEFINE line == EncodeTo(msg, CurTrailing)
    <2>1. msg.trailing \in Text /\ msg.trailing # None /\ i < Len(msg.trailing)
        BY <1>6, MessageParts DEF EncodeLine, TypeOK
    <2>2. /\ CurTrailing \in Text
          /\ \A k \in 1..Len(CurTrailing) : CurTrailing[k] # Linefeed
        BY <1>0, <2>1, CurTrailingFacts
    <2>3. CurTrailing \in Seq(Plain) /\ CurTrailing # None
        BY <2>2, PlainType, NoneAssumption
    <2>4. IsLine(line) /\ line \in Text
        BY <1>0, <1>4, <2>3, EncodedLine, IsLineFacts
    <2>5. /\ lines' = Append(lines, line) /\ received = <<>> /\ received' = received
          /\ buffer = <<>> /\ buffer' = buffer /\ stage' = "encoding"
        BY <1>2, <1>6 DEF EncodeLine, Encoding
    <2> HIDE DEF line
    <2>6. /\ DOMAIN lines' = 1..Len(lines) + 1 /\ Len(lines') = Len(lines) + 1
          /\ \A n \in 1..Len(lines) : lines'[n] = lines[n]
          /\ lines'[Len(lines) + 1] = line
        BY <1>0, <2>4, <2>5, AppendedLine
    <2>7. \A n \in DOMAIN lines' : IsLine(lines'[n])
        <3>1. \A n \in 1..Len(lines) + 1 : n \in 1..Len(lines) \/ n = Len(lines) + 1
            BY <1>3
        <3> QED BY <1>2, <1>3, <2>4, <2>6, <3>1
    <2>8. r' = 0
        BY <2>5, NoneOfNothing
    <2>9. r' <= Len(lines') /\ 1..r' = {}
        BY <1>3, <2>6, <2>8
    <2> QED BY <2>5, <2>7, <2>9
<1>7. CASE SendLines
    <2>1. /\ lines' = lines /\ received = <<>> /\ received' = received /\ stage' = "sent"
          /\ buffer = <<>> /\ buffer' = buffer /\ wire' = FlattenSeq(lines)
        BY <1>2, <1>7 DEF SendLines, Encoding, writerVars
    <2>2. r = 0 /\ r' = r
        BY <2>1, NoneOfNothing
    <2>3. Drop(lines', r') = lines
        BY <1>0, <2>1, <2>2, DropAll
    <2>4. FlattenSeq(lines) \in Seq(Characters)
        BY <1>0, FlattenText DEF Text
    <2>5. buffer' \o wire' = FlattenSeq(lines)
        BY <2>1, <2>4, ConcatEmptySeq
    <2> QED BY <1>2, <2>1, <2>2, <2>3, <2>5
<1>8. CASE Read
    <2>1. PICK n \in 1..Limit :
            n <= Len(wire) /\ buffer' = buffer \o SubSeq(wire, 1, n) /\ wire' = Drop(wire, n)
        BY <1>8 DEF Read
    <2>2. buffer' \o wire' = buffer \o wire
        BY <1>0, <2>1, ReadFacts
    <2>3. lines' = lines /\ received' = received /\ stage' = stage /\ stage = "sent"
        BY <1>8 DEF Read, writerVars
    <2> QED BY <1>2, <2>2, <2>3
<1>9. CASE TakeLine
    <2> DEFINE taken == SubSeq(buffer, 1, Min(LineEnds))
               left  == Drop(lines, r)
               flat  == FlattenSeq(left)
    <2>1. /\ lines' = lines /\ stage = "sent" /\ stage' = stage /\ wire' = wire
          /\ LineEnds # {} /\ buffer' = Drop(buffer, Min(LineEnds))
          /\ received' = Append(received, FromChars(taken))
          /\ FromChars(taken) # Thrown
        BY <1>9 DEF TakeLine, writerVars
    <2>2. taken \in Text /\ Len(taken) >= 2
        BY <1>0, <2>1, TakenFacts
    <2>3. FromChars(taken) \in MessageType \cup {Refused}
        BY <2>1, <2>2, FromCharsType
    <2> HIDE DEF taken
    <2>4. /\ r' = r + 1 /\ received'[r + 1] = FromChars(taken)
          /\ \A n \in 1..r : received'[n] = received[n]
        BY <1>0, <2>1, <2>3, AppendProperties
    <2>5. buffer \o wire = flat
        BY <1>2, <2>1
    <2>6. r < Len(lines)
        <3> SUFFICES ASSUME ~(r < Len(lines)) PROVE FALSE
            OBVIOUS
        <3>1. r = Len(lines)
            BY <1>2, <1>3
        <3>2. flat = <<>>
            BY <1>0, <3>1, DropAll, FlattenEmpty
        <3>3. Len(buffer) = 0
            <4>1. Len(buffer \o wire) = Len(buffer) + Len(wire) /\ Len(buffer) \in Nat /\ Len(wire) \in Nat
                BY <1>3, ConcatType, LenProperties
            <4>2. Len(buffer \o wire) = 0
                BY <2>5, <3>2, NoneOfNothing
            <4> QED BY <4>1, <4>2
        <3>4. 2..Len(buffer) = {}
            BY <3>3
        <3> QED BY <1>0, <2>1, <3>4, LineEndsFacts
    <2>7. /\ left \in Seq(Text) /\ left # <<>> /\ left[1] = lines[r + 1]
          /\ Tail(left) = Drop(lines, r + 1) /\ lines[r + 1] \in Text
        BY <1>0, <1>3, <2>6, DropOne
    <2> DEFINE line   == lines[r + 1]
               behind == FlattenSeq(Drop(lines, r + 1))
    <2>8. flat = line \o behind
        BY <2>7, FlattenCons DEF Text
    <2>9. IsLine(line)
        BY <1>2, <1>3, <2>6
    <2>10. behind \in Text
        <3>1. Tail(left) \in Seq(Text)
            BY <2>7, HeadTailProperties
        <3> QED BY <2>7, <3>1, FlattenText
    <2>11. taken = line /\ Drop(buffer, Min(LineEnds)) \o wire = behind
        BY <1>0, <2>1, <2>5, <2>8, <2>9, <2>10, FirstLine DEF taken
    <2>12. \A n \in 1..r' : received'[n] = FromChars(lines'[n])
        <3>1. \A n \in 1..r + 1 : n \in 1..r \/ n = r + 1
            BY <1>3
        <3>2. FromChars(taken) = FromChars(lines[r + 1])
            BY <2>11
        <3> QED BY <1>2, <2>1, <2>4, <3>1, <3>2
    <2>13. buffer' \o wire' = FlattenSeq(Drop(lines', r'))
        BY <2>1, <2>4, <2>11
    <2>14. r' <= Len(lines')
        BY <1>3, <2>1, <2>4, <2>6
    <2> QED BY <1>2, <2>1, <2>12, <2>13, <2>14
<1>10. CASE LeaveByException
    BY <1>2, <1>10 DEF LeaveByException, writerVars
<1>11. CASE UNCHANGED vars
    BY <1>2, <1>11 DEF vars
<1> QED BY <1>5, <1>6, <1>7, <1>8, <1>9, <1>10, <1>11 DEF Next

\* Whatever is written and in whatever pieces it arrives, every line is taken out of the
\* buffer whole, in order and once, and nothing of what is behind it is lost
\* (irc_client::run_inner), provided that no linefeed is hidden in a name, a command or
\* a parameter.
THEOREM LinesReadInOrder == Spec => []ReadInOrder
<1>1. TypeOK /\ ReadInv => ReadInOrder
    <2> SUFFICES ASSUME TypeOK, ReadInv, OneLine, stage = "sent"
                 PROVE  /\ buffer \o wire = FlattenSeq(Drop(lines, Len(received)))
                        /\ received = [n \in DOMAIN received |-> FromChars(lines[n])]
        BY DEF ReadInOrder
    <2>1. /\ buffer \o wire = FlattenSeq(Drop(lines, Len(received)))
          /\ \A n \in 1..Len(received) : received[n] = FromChars(lines[n])
        BY DEF ReadInv
    <2>2. received \in [1..Len(received) -> MessageType \cup {Refused}]
        BY LenProperties DEF TypeOK
    <2>3. DOMAIN received = 1..Len(received)
        BY <2>2
    <2>4. received = [n \in DOMAIN received |-> received[n]]
        BY <2>2
    <2> QED BY <2>1, <2>3, <2>4
<1> QED BY <1>1, InitRead, NextRead, MessageTypes, PTL DEF Spec

-----------------------------------------------------------------------------
\* What is kept of the text.

\* What one character of a text leaves of it, and the first n.
Single(c) == IF c = Linefeed THEN <<>> ELSE <<c>>
Kept(t, n) == WithoutLinefeeds(SubSeq(t, 1, n))

LEMMA SingleType ==
    ASSUME NEW c \in Characters
    PROVE  Single(c) \in Seq(Characters)
<1>1. CASE c = Linefeed
    BY <1>1 DEF Single
<1>2. CASE c # Linefeed
    BY <1>2, OneType DEF Single
<1> QED BY <1>1, <1>2

\* The parts the kept text is made of.
LEMMA KeptParts ==
    ASSUME NEW t \in Text, NEW n \in 0..Len(t)
    PROVE  /\ [k \in 1..n |-> Single(t[k])] \in Seq(Seq(Characters))
           /\ Len([k \in 1..n |-> Single(t[k])]) = n
           /\ Kept(t, n) = FlattenSeq([k \in 1..n |-> Single(t[k])])
           /\ Kept(t, n) \in Text
<1> DEFINE f == [k \in 1..n |-> Single(t[k])]
           front == SubSeq(t, 1, n)
<1>1. /\ DOMAIN front = 1..n /\ n \in Nat
      /\ \A k \in 1..n : front[k] = t[k] /\ t[k] \in Characters
    BY FrontFacts DEF Text
<1>2. f \in Seq(Seq(Characters)) /\ Len(f) = n
    <2>1. \A k \in 1..n : Single(t[k]) \in Seq(Characters)
        BY <1>1, SingleType
    <2>2. f \in [1..n -> Seq(Characters)]
        BY <2>1
    <2> HIDE DEF f
    <2> QED BY <1>1, <2>2, FunctionIsSequence
<1>3. Kept(t, n) = FlattenSeq(f)
    <2>1. Kept(t, n) = FlattenSeq([k \in DOMAIN front |->
                                     IF front[k] = Linefeed THEN <<>> ELSE <<front[k]>>])
        BY DEF Kept, WithoutLinefeeds
    <2> HIDE DEF front
    <2>2. [k \in DOMAIN front |-> IF front[k] = Linefeed THEN <<>> ELSE <<front[k]>>] = f
        BY <1>1 DEF Single
    <2> QED BY <2>1, <2>2
<1> HIDE DEF f
<1> QED BY <1>2, <1>3, FlattenType DEF f, Text

LEMMA KeptNothing ==
    ASSUME NEW t \in Text
    PROVE  Kept(t, 0) = <<>>
<1>1. t \in Seq(Characters) /\ 0 \in 0..Len(t)
    BY LenProperties DEF Text
<1> DEFINE f == [k \in 1..0 |-> Single(t[k])]
<1>2. f \in Seq(Seq(Characters)) /\ Len(f) = 0 /\ Kept(t, 0) = FlattenSeq(f)
    BY <1>1, KeptParts
<1> HIDE DEF f
<1>3. f = <<>>
    BY <1>2, EmptySeq
<1> QED BY <1>2, <1>3, FlattenEmpty

LEMMA KeptOneMore ==
    ASSUME NEW t \in Text, NEW n \in Nat, n < Len(t)
    PROVE  Kept(t, n + 1) = Kept(t, n) \o Single(t[n + 1])
<1>1. /\ t \in Seq(Characters) /\ Len(t) \in Nat /\ n \in 0..Len(t) /\ n + 1 \in 0..Len(t)
      /\ n + 1 \in 1..Len(t)
    BY LenProperties DEF Text
<1> DEFINE f == [k \in 1..n |-> Single(t[k])]
           g == [k \in 1..n + 1 |-> Single(t[k])]
           c == Single(t[n + 1])
<1>2. f \in Seq(Seq(Characters)) /\ Len(f) = n /\ Kept(t, n) = FlattenSeq(f)
    BY <1>1, KeptParts
<1>3. g \in Seq(Seq(Characters)) /\ Len(g) = n + 1 /\ Kept(t, n + 1) = FlattenSeq(g)
    BY <1>1, KeptParts
<1>4. c \in Seq(Characters)
    <2>1. t[n + 1] \in Characters
        BY <1>1, ElementOfSeq
    <2> QED BY <2>1, SingleType
<1>5. /\ \A k \in 1..n : f[k] = Single(t[k])
      /\ \A k \in 1..n + 1 : g[k] = Single(t[k])
    OBVIOUS
<1> HIDE DEF f, g
<1>6. g = Append(f, c)
    <2> DEFINE h == Append(f, c)
    <2>1. /\ h \in Seq(Seq(Characters)) /\ Len(h) = n + 1 /\ h[n + 1] = c
          /\ \A k \in 1..n : h[k] = f[k]
        BY <1>2, <1>4, AppendProperties
    <2> HIDE DEF h
    <2>2. ASSUME NEW k \in 1..n + 1 PROVE g[k] = h[k]
        <3>1. k \in 1..n \/ k = n + 1
            OBVIOUS
        <3> QED BY <1>5, <2>1, <3>1
    <2>3. g = h
        BY <1>3, <2>1, <2>2, SeqEqual
    <2> QED BY <2>3 DEF h
<1> HIDE DEF c
<1>7. FlattenSeq(g) = FlattenSeq(f) \o c
    BY <1>2, <1>4, <1>6, FlattenAppend
<1> QED BY <1>2, <1>3, <1>7 DEF c

LEMMA KeptLinefeed ==
    ASSUME NEW t \in Text, NEW n \in Nat, n < Len(t), t[n + 1] = Linefeed
    PROVE  Kept(t, n + 1) = Kept(t, n)
<1>1. n \in 0..Len(t)
    BY LenProperties DEF Text
<1>2. Kept(t, n) \in Seq(Characters) /\ Single(t[n + 1]) = <<>>
    BY <1>1, KeptParts DEF Text, Single
<1> QED BY <1>2, KeptOneMore, ConcatEmptySeq

\* A stretch of the text without a linefeed is kept.
LEMMA KeptStretch ==
    ASSUME NEW t \in Text, NEW n \in Nat, NEW x \in Text, n + Len(x) <= Len(t),
           \A k \in 1..Len(x) : x[k] = t[n + k] /\ t[n + k] # Linefeed
    PROVE  Kept(t, n + Len(x)) = Kept(t, n) \o x
<1> DEFINE len == Len(x)
           D == {m \in Nat : m <= len => Kept(t, n + m) = Kept(t, n) \o SubSeq(x, 1, m)}
<1>1. /\ len \in Nat /\ Len(t) \in Nat /\ x \in Seq(Characters) /\ t \in Seq(Characters)
      /\ n \in 0..Len(t)
    BY LenProperties DEF Text
<1>2. Kept(t, n) \in Seq(Characters)
    BY <1>1, KeptParts DEF Text
<1>3. 0 \in D
    <2>1. SubSeq(x, 1, 0) = <<>>
        <3>1. 0 \in 0..Len(x)
            BY <1>1
        <3>2. SubSeq(x, 1, 0) \in Seq(Characters) /\ Len(SubSeq(x, 1, 0)) = 0
            BY <1>1, <3>1, FrontFacts
        <3> QED BY <3>2, EmptySeq
    <2>2. n + 0 = n
        OBVIOUS
    <2>3. Kept(t, n + 0) = Kept(t, n) \o SubSeq(x, 1, 0)
        BY <1>2, <2>1, <2>2, ConcatEmptySeq
    <2> QED BY <2>3
<1>4. ASSUME NEW m \in Nat, m \in D, m + 1 <= len
      PROVE  Kept(t, n + (m + 1)) = Kept(t, n) \o SubSeq(x, 1, m + 1)
    <2> DEFINE head == SubSeq(x, 1, m)
               last == x[m + 1]
               one  == <<last>>
               kept == Kept(t, n)
    <2>1. Kept(t, n + m) = kept \o head
        BY <1>1, <1>4
    <2> HIDE DEF D
    <2>2. /\ m + 1 \in 1..len /\ n + m \in Nat /\ n + m < Len(t) /\ (n + m) + 1 = n + (m + 1)
          /\ m \in 0..Len(x) /\ m + 1 \in 0..Len(x)
        BY <1>1, <1>4
    <2>3. /\ head \in Seq(Characters) /\ Len(head) = m
          /\ \A k \in 1..m : head[k] = x[k]
        BY <1>1, <2>2, FrontFacts
    <2>4. last \in Characters /\ last # Linefeed /\ last = t[(n + m) + 1]
        <3>1. x[m + 1] = t[n + (m + 1)] /\ t[n + (m + 1)] # Linefeed
            BY <2>2
        <3>2. x[m + 1] \in Characters
            BY <1>1, <2>2, ElementOfSeq
        <3> QED BY <2>2, <3>1, <3>2
    <2>5. Kept(t, (n + m) + 1) = Kept(t, n + m) \o Single(t[(n + m) + 1])
        BY <2>2, KeptOneMore
    <2>6. Single(t[(n + m) + 1]) = one
        BY <2>4 DEF Single
    <2>7. one \in Seq(Characters) /\ Len(one) = 1 /\ one[1] = last
        BY <2>4, OneType
    <2> DEFINE both == SubSeq(x, 1, m + 1)
    <2>8. /\ both \in Seq(Characters) /\ Len(both) = m + 1
          /\ \A k \in 1..m + 1 : both[k] = x[k]
        BY <1>1, <2>2, FrontFacts
    <2> HIDE DEF head, last, one, kept, both, len
    <2>9. head \o one = both
        <3> DEFINE w == head \o one
        <3>1. /\ w \in Seq(Characters) /\ Len(w) = m + 1
              /\ \A k \in 1..m + 1 : w[k] = IF k <= m THEN head[k] ELSE one[k - m]
            <4> DEFINE unit == Len(one)
            <4>1. unit = 1
                BY <2>7
            <4>2. /\ w \in Seq(Characters) /\ Len(w) = m + unit
                  /\ \A k \in 1..m + unit : w[k] = IF k <= m THEN head[k] ELSE one[k - m]
                <5>1. one \in Seq(Characters)
                    BY <2>7
                <5>2. head \in Seq(Characters) /\ m = Len(head)
                    BY <2>3
                <5> QED BY <5>1, <5>2, ConcatElements
            <4> HIDE DEF unit
            <4> QED BY <4>1, <4>2
        <3> HIDE DEF w
        <3>2. ASSUME NEW k \in 1..m + 1 PROVE w[k] = both[k]
            <4>1. CASE k <= m
                <5>1. k \in 1..m
                    BY <4>1
                <5> QED BY <2>3, <2>8, <3>1, <4>1, <5>1
            <4>2. CASE ~(k <= m)
                <5>1. k = m + 1 /\ k - m = 1
                    BY <4>2
                <5> QED BY <2>7, <2>8, <3>1, <4>2, <5>1 DEF last
            <4> QED BY <4>1, <4>2
        <3>3. w = both
            BY <2>8, <3>1, <3>2, SeqEqual
        <3> QED BY <3>3 DEF w
    <2> DEFINE before == Kept(t, n + m)
               after  == Kept(t, (n + m) + 1)
    <2>10. before = kept \o head /\ after = before \o one
        BY <2>1, <2>5, <2>6
    <2> HIDE DEF before, after
    <2>11. kept \in Seq(Characters) /\ head \in Seq(Characters) /\ one \in Seq(Characters)
        BY <1>2, <2>3, <2>7 DEF kept
    <2>12. after = kept \o (head \o one)
        BY <2>10, <2>11, OneMorePart
    <2> QED BY <2>2, <2>9, <2>12 DEF after, kept, both
<1>5. ASSUME NEW m \in Nat, m \in D
      PROVE  m + 1 \in D
    <2>1. m + 1 <= len => Kept(t, n + (m + 1)) = Kept(t, n) \o SubSeq(x, 1, m + 1)
        <3> HIDE DEF D
        <3> QED BY <1>4, <1>5
    <2>2. m + 1 \in Nat
        OBVIOUS
    <2> QED BY <2>1, <2>2
<1>6. \A m \in Nat : m \in D
    <2> HIDE DEF D
    <2> QED BY <1>3, <1>5, SetInduction
<1>7. Kept(t, n + len) = Kept(t, n) \o SubSeq(x, 1, len)
    BY <1>1, <1>6
<1>8. SubSeq(x, 1, len) = x
    <2>1. len \in 0..Len(x)
        BY <1>1
    <2> DEFINE s == SubSeq(x, 1, len)
    <2>2. s \in Seq(Characters) /\ Len(s) = Len(x) /\ \A k \in 1..Len(x) : s[k] = x[k]
        BY <1>1, <2>1, FrontFacts
    <2> HIDE DEF s
    <2>3. s = x
        BY <1>1, <2>2, SeqEqual
    <2> QED BY <2>3 DEF s
<1> QED BY <1>7, <1>8

\* The text of an encoded line.
LEMMA ChunkOf ==
    ASSUME msg \in MessageType, NEW t \in Text
    PROVE  LET line == EncodeTo(msg, t)
           IN  SubSeq(line, SizeWithoutTrailing(msg) - 1, Len(line) - 2) = t
<1> DEFINE line == EncodeTo(msg, t)
           h == Len(HeaderOf(msg))
           len == Len(t)
           chunk == SubSeq(line, h + 2, h + 1 + len)
<1>1. /\ line \in Seq(Characters) /\ h \in Nat /\ len \in Nat
      /\ Len(line) = h + 3 + len
      /\ \A k \in 1..len : line[h + 1 + k] = t[k]
    BY EncodeFacts DEF Text
<1>2. SizeWithoutTrailing(msg) = h + 3
    BY SizeFacts
<1> HIDE DEF line, h, len
<1>3. /\ h + 2 \in Nat /\ h + 2 >= 1 /\ h + 1 + len \in Nat /\ h + 2 <= (h + 1 + len) + 1
      /\ h + 1 + len <= Len(line) /\ (h + 1 + len) + 1 - (h + 2) = len
      /\ (h + 3) - 1 = h + 2 /\ (h + 3 + len) - 2 = h + 1 + len
      /\ \A k \in 1..len : (h + 2) + k - 1 = h + 1 + k
    BY <1>1
<1>4. /\ chunk \in Seq(Characters) /\ Len(chunk) = len
      /\ \A k \in 1..len : chunk[k] = line[h + 1 + k]
    BY <1>1, <1>3, PartFacts
<1> HIDE DEF chunk
<1>5. chunk = t
    BY <1>1, <1>4, SeqEqual DEF len, Text
<1>6. SubSeq(line, SizeWithoutTrailing(msg) - 1, Len(line) - 2) = chunk
    BY <1>1, <1>2, <1>3 DEF chunk
<1> QED BY <1>5, <1>6 DEF line

\* The lines hold the text as far as it is encoded, but for its linefeeds.
KeptInv ==
    HasRoom /\ msg.trailing # None =>
        /\ i <= Len(msg.trailing)
        /\ stage # "encoding" => i >= Len(msg.trailing)
        /\ Chunks \in Seq(Seq(Plain))
        /\ FlattenSeq(Chunks) = Kept(msg.trailing, i) \/ LongLineBeforeLinefeed(msg.trailing)

LEMMA InitKept == Init => KeptInv
<1> SUFFICES ASSUME Init, HasRoom, msg.trailing # None
             PROVE  /\ i <= Len(msg.trailing)
                    /\ stage # "encoding" => i >= Len(msg.trailing)
                    /\ Chunks \in Seq(Seq(Plain))
                    /\ FlattenSeq(Chunks) = Kept(msg.trailing, i)
    BY DEF KeptInv
<1>1. i = 0 /\ stage = "encoding" /\ lines = <<>> /\ msg.trailing \in Text
    BY InitType, MessageParts DEF Init, HasRoom, TypeOK
<1>2. Len(msg.trailing) \in Nat
    BY <1>1, LenProperties DEF Text
<1>3. Chunks = <<>>
    BY <1>1, NoneOfNothing DEF Chunks
<1>4. Kept(msg.trailing, i) = <<>>
    BY <1>1, KeptNothing
<1> QED BY <1>1, <1>2, <1>3, <1>4, FlattenEmpty

\* The next line has the next stretch of the text, and what is stepped over behind it
\* is a linefeed, unless the line is full.
LEMMA LineKept ==
    ASSUME TypeOK, EncodeLine, HasRoom
    PROVE  LET t == msg.trailing
           IN  /\ i' \in Nat /\ i' <= Len(t)
               /\ \/ Kept(t, i') = Kept(t, i) \o CurTrailing
                  \/ LongLineBeforeLinefeed(t)
<1> DEFINE t == msg.trailing
           n == Len(CurTrailing)
           room == TrailingPerMessage(msg)
           len == Len(t)
<1>1. /\ msg \in MessageType /\ t \in Text /\ i \in Nat /\ i < len
      /\ i' = i + n + (IF Linefeed \in ToSet(Rest) THEN 1 ELSE 0)
    BY MessageParts DEF TypeOK, EncodeLine
<1>2. /\ CurTrailing \in Text /\ n \in Nat /\ n <= room /\ len \in Nat /\ i + n <= len
      /\ \A k \in 1..n : CurTrailing[k] = t[i + k] /\ t[i + k] # Linefeed
      /\ \/ i + n = len
         \/ i + n + 1 \in 1..len /\ (t[i + n + 1] = Linefeed \/ n = room)
    BY <1>1, CurTrailingFacts
<1>3. Kept(t, i + n) = Kept(t, i) \o CurTrailing
    <2> HIDE DEF t
    <2> QED BY <1>1, <1>2, KeptStretch DEF len
<1>4. /\ Rest \in Seq(Characters) /\ Len(Rest) = len - i /\ DOMAIN Rest = 1..len - i
      /\ \A k \in 1..len - i : Rest[k] = t[i + k]
    <2>1. i \in 0..Len(t) /\ t \in Seq(Characters)
        BY <1>1, <1>2 DEF Text
    <2>2. /\ Rest \in Seq(Characters) /\ Len(Rest) = len - i
          /\ \A k \in 1..len - i : Rest[k] = t[i + k]
        BY <2>1, DropFacts DEF Rest
    <2>3. DOMAIN Rest = 1..len - i
        BY <2>2, LenProperties
    <2> QED BY <2>2, <2>3
<1> HIDE DEF t, n, room, len
<1>5. CASE Linefeed \notin ToSet(Rest)
    BY <1>1, <1>2, <1>3, <1>5 DEF t, len
<1>6. CASE Linefeed \in ToSet(Rest)
    <2>1. PICK k \in 1..len - i : t[i + k] = Linefeed
        BY <1>4, <1>6 DEF ToSet
    <2>2. ~(k \in 1..n) /\ k \in Nat
        BY <1>2, <2>1
    <2>3. k >= n + 1 /\ i + n # len /\ i + n < len
        BY <1>1, <1>2, <2>1, <2>2
    <2>4. i' = (i + n) + 1 /\ i' \in Nat /\ i' <= len
        BY <1>1, <1>2, <1>6, <2>3
    <2>5. CASE t[i + n + 1] = Linefeed
        <3>1. i + n \in Nat /\ t \in Text /\ i + n < Len(t) /\ t[(i + n) + 1] = Linefeed
            BY <1>1, <1>2, <2>3, <2>5 DEF len
        <3>2. Kept(t, (i + n) + 1) = Kept(t, i + n)
            BY <3>1, KeptLinefeed
        <3> QED BY <1>3, <2>4, <3>2 DEF t, len
    <2>6. CASE t[i + n + 1] # Linefeed
        <3> DEFINE first == i + 1
                   last  == i + n + 1
        <3>1. /\ n = room /\ last \in 1..len /\ last - room = first /\ first >= 1 /\ k # n + 1
              /\ last \in 0..len /\ first \in Nat /\ first >= 1 /\ last \in Nat
              /\ first <= last + 1 /\ last <= len /\ last + 1 - first = n + 1
              /\ i + k - last \in 1..len - last /\ last + (i + k - last) = i + k
            BY <1>1, <1>2, <2>1, <2>3, <2>6
        <3>2. t \in Seq(Characters) /\ len = Len(t) /\ DOMAIN t = 1..len
            BY <1>1, LenProperties DEF Text, len
        <3>3. Linefeed \notin ToSet(SubSeq(t, first, last))
            <4> DEFINE s == SubSeq(t, first, last)
            <4>1. /\ s \in Seq(Characters) /\ Len(s) = n + 1
                  /\ \A j \in 1..n + 1 : s[j] = t[first + j - 1]
                <5> HIDE DEF first, last
                <5> QED BY <3>1, <3>2, PartFacts
            <4>2. DOMAIN s = 1..n + 1
                BY <4>1, LenProperties
            <4> HIDE DEF s
            <4>3. ASSUME NEW j \in 1..n + 1 PROVE s[j] # Linefeed
                <5>1. first + j - 1 = i + j /\ (j \in 1..n \/ j = n + 1)
                    BY <1>1, <1>2
                <5>2. s[j] = t[i + j]
                    BY <4>1, <5>1
                <5>3. CASE j \in 1..n
                    BY <1>2, <5>2, <5>3
                <5>4. CASE j = n + 1
                    <6>1. i + j = i + n + 1
                        BY <1>1, <1>2, <5>4
                    <6> QED BY <2>6, <5>2, <6>1
                <5> QED BY <5>1, <5>3, <5>4
            <4> QED BY <4>2, <4>3 DEF ToSet, s
        <3>4. Linefeed \in ToSet(Drop(t, last))
            <4> DEFINE d == Drop(t, last)
            <4>1. /\ d \in Seq(Characters) /\ Len(d) = len - last
                  /\ \A j \in 1..len - last : d[j] = t[last + j]
                <5> HIDE DEF last
                <5> QED BY <3>1, <3>2, DropFacts
            <4>2. DOMAIN d = 1..len - last
                BY <4>1, LenProperties
            <4> HIDE DEF d, last
            <4>3. d[i + k - last] = Linefeed
                BY <2>1, <3>1, <4>1
            <4> QED BY <3>1, <4>2, <4>3 DEF ToSet, d
        <3>5. LongLineBeforeLinefeed(t)
            <4> HIDE DEF first, last
            <4> QED BY <3>1, <3>2, <3>3, <3>4 DEF LongLineBeforeLinefeed, room
        <3> QED BY <2>4, <3>5 DEF t, len
    <2> QED BY <2>5, <2>6
<1> QED BY <1>5, <1>6

LEMMA ChunksAppend ==
    ASSUME msg \in MessageType, msg' = msg, lines \in Seq(Text), NEW x \in Text,
           lines' = Append(lines, EncodeTo(msg, x)), Chunks \in Seq(Seq(Plain)), x \in Seq(Plain)
    PROVE  Chunks' = Append(Chunks, x)
<1> DEFINE line == EncodeTo(msg, x)
           size == SizeWithoutTrailing(msg)
           n    == Len(lines)
           part(l) == SubSeq(l, size - 1, Len(l) - 2)
<1>1. line \in Text
    BY EncodeFacts
<1>2. part(line) = x
    BY ChunkOf
<1>3. SizeWithoutTrailing(msg)' = size
    OBVIOUS
<1>4. /\ Chunks = [k \in DOMAIN lines |-> part(lines[k])]
      /\ Chunks' = [k \in DOMAIN lines' |-> part(lines'[k])]
    BY <1>3 DEF Chunks
<1> HIDE DEF line, size, part
<1>5. lines' = Append(lines, line)
    BY DEF line
<1>6. /\ n \in Nat /\ DOMAIN lines = 1..n /\ DOMAIN lines' = 1..n + 1
      /\ \A k \in 1..n : lines'[k] = lines[k]
      /\ lines'[n + 1] = line
    BY <1>1, <1>5, AppendedLine
<1> DEFINE c == Chunks
           d == Append(c, x)
<1>7. Len(c) = n
    BY <1>4, <1>6
<1>8. d \in Seq(Seq(Plain)) /\ Len(d) = n + 1 /\ d[n + 1] = x /\ \A k \in 1..n : d[k] = c[k]
    BY <1>7, AppendProperties
<1>9. \A k \in 1..n : c[k] = part(lines[k])
    BY <1>4, <1>6
<1> HIDE DEF c, d
<1>10. d = [k \in 1..n + 1 |-> d[k]]
    BY <1>8, LenProperties
<1>11. ASSUME NEW k \in 1..n + 1 PROVE d[k] = part(lines'[k])
    <2>1. k \in 1..n \/ k = n + 1
        BY <1>6
    <2>2. CASE k \in 1..n
        BY <1>6, <1>8, <1>9, <2>2
    <2>3. CASE k = n + 1
        BY <1>2, <1>6, <1>8, <2>3
    <2> QED BY <2>1, <2>2, <2>3
<1>12. d = [k \in 1..n + 1 |-> part(lines'[k])]
    BY <1>10, <1>11
<1> QED BY <1>4, <1>6, <1>12 DEF c, d

LEMMA NextKept == TypeOK /\ KeptInv /\ [Next]_vars => KeptInv'
<1> SUFFICES ASSUME TypeOK, KeptInv, [Next]_vars, HasRoom', msg'.trailing # None
             PROVE  /\ i' <= Len(msg'.trailing)
                    /\ stage' # "encoding" => i' >= Len(msg'.trailing)
                    /\ Chunks' \in Seq(Seq(Plain))
                    /\ \/ FlattenSeq(Chunks') = Kept(msg'.trailing, i')
                       \/ LongLineBeforeLinefeed(msg.trailing)'
    BY DEF KeptInv
<1>0. /\ msg \in MessageType /\ lines \in Seq(Text) /\ i \in Nat
      /\ msg' = msg /\ origin' = origin
    BY MessageParts, MessageStays DEF TypeOK
<1>1. HasRoom /\ msg.trailing # None /\ msg.trailing \in Text
    BY <1>0, MessageParts DEF HasRoom, TypeOK
<1> DEFINE t == msg.trailing
           long == LongLineBeforeLinefeed(t)
<1>2. /\ i <= Len(t)
      /\ stage # "encoding" => i >= Len(t)
      /\ Chunks \in Seq(Seq(Plain))
      /\ FlattenSeq(Chunks) = Kept(t, i) \/ long
    BY <1>1 DEF KeptInv
<1>3. long' = long
    BY <1>0 DEF LongLineBeforeLinefeed
<1>4. CASE EncodeWithoutTrailing
    BY <1>1, <1>4 DEF EncodeWithoutTrailing
<1>5. CASE EncodeLine
    <2> DEFINE x == CurTrailing
    <2>1. i < Len(t) /\ lines' = Append(lines, EncodeTo(msg, x)) /\ stage' = "encoding"
        BY <1>5 DEF EncodeLine, Encoding
    <2>2. x \in Text /\ \A k \in 1..Len(x) : x[k] # Linefeed
        BY <1>0, <1>1, <2>1, CurTrailingFacts
    <2>3. x \in Seq(Plain)
        BY <2>2, PlainType
    <2>4. i' <= Len(t) /\ (Kept(t, i') = Kept(t, i) \o x \/ long)
        BY <1>1, <1>5, LineKept
    <2> HIDE DEF x, long
    <2>5. Chunks' = Append(Chunks, x)
        BY <1>0, <1>2, <2>1, <2>2, <2>3, ChunksAppend
    <2>6. Chunks' \in Seq(Seq(Plain))
        BY <1>2, <2>3, <2>5, AppendProperties
    <2>7. FlattenSeq(Append(Chunks, x)) = FlattenSeq(Chunks) \o x
        BY <1>2, <2>3, FlattenAppend
    <2>8. FlattenSeq(Chunks') = Kept(t, i') \/ long
        <3>1. CASE long
            BY <3>1
        <3>2. CASE ~long
            BY <1>2, <2>4, <2>5, <2>7, <3>2
        <3> QED BY <3>1, <3>2
    <2> QED BY <1>0, <1>3, <2>1, <2>4, <2>6, <2>8 DEF long
<1>6. CASE ~EncodeWithoutTrailing /\ ~EncodeLine
    <2>1. lines' = lines /\ i' = i
        BY <1>6, MessageStays
    <2>2. Chunks' = Chunks
        BY <1>0, <2>1 DEF Chunks
    <2>3. stage' # "encoding" => stage # "encoding" \/ i >= Len(t)
        BY <1>6 DEF Next, SendLines, Read, TakeLine, LeaveByException, vars
    <2> HIDE DEF long
    <2> QED BY <1>0, <1>2, <1>3, <2>1, <2>2, <2>3 DEF long
<1> QED BY <1>4, <1>5, <1>6

\* Whatever the text is and wherever it is cut, each line that encode writes holds a
\* part without a linefeed, and the parts put together are the text without its
\* linefeeds, unless it has a stretch too long for a line before another line, the case
\* in which encode drops a character (message::encode).
THEOREM NothingElseLost == Spec => []TextIsKept
<1>1. TypeOK /\ KeptInv => TextIsKept
    <2> SUFFICES ASSUME TypeOK, KeptInv, HasRoom, stage = "sent", msg.trailing # None
                 PROVE  /\ \A n \in DOMAIN Chunks : Linefeed \notin ToSet(Chunks[n])
                        /\ \/ FlattenSeq(Chunks) = WithoutLinefeeds(msg.trailing)
                           \/ LongLineBeforeLinefeed(msg.trailing)
        BY DEF TextIsKept
    <2> DEFINE t == msg.trailing
    <2>1. t \in Seq(Characters) /\ Len(t) \in Nat /\ i \in Nat
        BY MessageParts, LenProperties DEF TypeOK, Text
    <2>2. /\ i <= Len(t) /\ i >= Len(t) /\ Chunks \in Seq(Seq(Plain))
          /\ FlattenSeq(Chunks) = Kept(t, i) \/ LongLineBeforeLinefeed(t)
        BY DEF KeptInv
    <2>3. ASSUME NEW n \in DOMAIN Chunks PROVE Linefeed \notin ToSet(Chunks[n])
        <3>1. Chunks[n] \in Seq(Plain)
            BY <2>2
        <3>2. \A k \in DOMAIN Chunks[n] : Chunks[n][k] \in Plain
            BY <3>1
        <3> QED BY <3>2 DEF ToSet, Plain
    <2>4. i = Len(t)
        BY <2>1, <2>2
    <2>5. SubSeq(t, 1, i) = t
        <3> DEFINE s == SubSeq(t, 1, i)
        <3>1. i \in 0..Len(t)
            BY <2>1, <2>4
        <3>2. s \in Seq(Characters) /\ Len(s) = i /\ \A k \in 1..i : s[k] = t[k]
            BY <2>1, <3>1, FrontFacts
        <3> HIDE DEF s, t
        <3>3. s = t
            BY <2>1, <2>4, <3>2, SeqEqual
        <3> QED BY <3>3 DEF s
    <2>6. Kept(t, i) = WithoutLinefeeds(t)
        BY <2>5 DEF Kept
    <2> QED BY <2>2, <2>3, <2>6
<1> QED BY <1>1, InitKept, NextKept, MessageTypes, PTL DEF Spec

-----------------------------------------------------------------------------
\* from_chars on what is put together from parts.

\* No element of s is in C.
Without(s, C) == \A k \in 1..Len(s) : s[k] \notin C

\* What follows a part is nothing, or starts with an element of C.
EndsAt(t, C) == t = <<>> \/ t[1] \in C

LEMMA JoinedParts ==
    ASSUME NEW S, NEW s \in Seq(S), NEW t \in Seq(S)
    PROVE  /\ s \o t \in Seq(S)
           /\ SubSeq(s \o t, 1, Len(s)) = s
           /\ Drop(s \o t, Len(s)) = t
<1> DEFINE w == s \o t
           a == Len(s)
           b == Len(t)
           front == SubSeq(w, 1, a)
           behind == Drop(w, a)
<1>1. a \in Nat /\ b \in Nat
    BY LenProperties
<1>2. /\ w \in Seq(S) /\ Len(w) = a + b
      /\ \A k \in 1..a + b : w[k] = IF k <= a THEN s[k] ELSE t[k - a]
    BY ConcatElements
<1> HIDE DEF w
<1>3. a \in 0..Len(w) /\ Len(w) - a = b
    BY <1>1, <1>2
<1>4. front \in Seq(S) /\ Len(front) = a /\ \A k \in 1..a : front[k] = w[k]
    BY <1>2, <1>3, FrontFacts
<1>5. behind \in Seq(S) /\ Len(behind) = b /\ \A k \in 1..b : behind[k] = w[a + k]
    BY <1>2, <1>3, DropFacts
<1> HIDE DEF front, behind
<1>6. front = s
    <2>1. ASSUME NEW k \in 1..a PROVE front[k] = s[k]
        <3>1. k \in 1..a + b /\ k <= a
            BY <1>1
        <3> QED BY <1>2, <1>4, <3>1
    <2> QED BY <1>4, <2>1, SeqEqual
<1>7. behind = t
    <2>1. ASSUME NEW k \in 1..b PROVE behind[k] = t[k]
        <3>1. a + k \in 1..a + b /\ ~(a + k <= a) /\ (a + k) - a = k
            BY <1>1
        <3> QED BY <1>2, <1>5, <3>1
    <2> QED BY <1>5, <2>1, SeqEqual
<1> QED BY <1>2, <1>6, <1>7 DEF w, front, behind

LEMMA NotEmptySeq ==
    ASSUME NEW S, NEW s \in Seq(S)
    PROVE  /\ Len(s) \in Nat /\ (s # <<>>) = (Len(s) > 0)
           /\ s # <<>> => s[1] \in S /\ 1 \in 1..Len(s)
<1>1. Len(s) \in Nat /\ (s = <<>>) = (Len(s) = 0)
    BY LenProperties, EmptySeq
<1>2. s # <<>> => 1 \in 1..Len(s)
    BY <1>1
<1> QED BY <1>1, <1>2, ElementOfSeq

\* Before leaves what it looks for behind.
LEMMA BeforeBehind ==
    ASSUME NEW S, NEW s \in Seq(S), NEW t \in Seq(S), NEW C, Without(s, C), EndsAt(t, C)
    PROVE  Before(s \o t, C) = s
<1> DEFINE w == s \o t
           a == Len(s)
           b == Len(t)
<1>1. a \in Nat /\ b \in Nat /\ (t # <<>>) = (b > 0)
    BY NotEmptySeq
<1>2. /\ w \in Seq(S) /\ Len(w) = a + b
      /\ \A k \in 1..a + b : w[k] = IF k <= a THEN s[k] ELSE t[k - a]
    BY ConcatElements
<1>3. SubSeq(w, 1, a) = s
    BY JoinedParts
<1> HIDE DEF w
<1>4. PICK n \in 0..Len(w) :
        /\ Before(w, C) = SubSeq(w, 1, n)
        /\ \A k \in 1..n : w[k] \notin C
        /\ n < Len(w) => w[n + 1] \in C
    BY <1>2, BeforeFacts
<1>5. n = a
    <2>1. CASE n < a
        <3>1. n + 1 \in 1..a /\ n + 1 \in 1..a + b /\ n + 1 <= a /\ n < Len(w)
            BY <1>1, <1>2, <2>1
        <3>2. w[n + 1] = s[n + 1] /\ s[n + 1] \notin C
            BY <1>2, <3>1 DEF Without
        <3> QED BY <1>4, <3>1, <3>2
    <2>2. CASE n > a
        <3>1. /\ a + 1 \in 1..n /\ a + 1 \in 1..a + b /\ ~(a + 1 <= a) /\ (a + 1) - a = 1
              /\ b > 0
            BY <1>1, <1>2, <2>2
        <3>2. w[a + 1] = t[1] /\ t[1] \in C
            BY <1>1, <1>2, <3>1 DEF EndsAt
        <3> QED BY <1>4, <3>1, <3>2
    <2> QED BY <1>1, <1>2, <2>1, <2>2
<1> QED BY <1>3, <1>4, <1>5 DEF w

\* Before goes on behind a part without what it looks for.
LEMMA BeforeGoesOn ==
    ASSUME NEW S, NEW s \in Seq(S), NEW t \in Seq(S), NEW C, Without(s, C)
    PROVE  Before(s \o t, C) = s \o Before(t, C)
<1> DEFINE a == Len(s)
           x == Before(t, C)
           y == Drop(t, Len(x))
           b == Len(t)
           u == s \o x
<1>1. PICK n \in 0..Len(t) :
        /\ x \in Seq(S) /\ Len(x) = n
        /\ x = SubSeq(t, 1, n)
        /\ \A k \in 1..n : x[k] = t[k] /\ t[k] \notin C
        /\ n < Len(t) => t[n + 1] \in C
    BY BeforeFacts
<1>2. b \in Nat /\ n \in Nat /\ a \in Nat
    BY <1>1, LenProperties
<1>3. y \in Seq(S) /\ Len(y) = b - n /\ \A k \in 1..b - n : y[k] = t[n + k]
    BY <1>1, DropFacts
<1>4. x \o y = t
    BY <1>1, SplitAt
<1> HIDE DEF x, y
<1>5. /\ u \in Seq(S) /\ Len(u) = a + n
      /\ \A k \in 1..a + n : u[k] = IF k <= a THEN s[k] ELSE x[k - a]
    <2> DEFINE c == Len(x)
    <2>1. x \in Seq(S) /\ c = n
        BY <1>1
    <2>2. /\ u \in Seq(S) /\ Len(u) = a + c
          /\ \A k \in 1..a + c : u[k] = IF k <= a THEN s[k] ELSE x[k - a]
        <3>1. x \in Seq(S)
            BY <2>1
        <3> QED BY <3>1, ConcatElements
    <2> HIDE DEF c, u, a
    <2> QED BY <2>1, <2>2
<1>6. s \o t = u \o y
    <2> DEFINE whole == u \o y
    <2>1. x \in Seq(S) /\ y \in Seq(S)
        BY <1>1, <1>3
    <2>2. whole = u \o y /\ u = s \o x
        OBVIOUS
    <2> HIDE DEF whole, u
    <2>3. whole = s \o (x \o y)
        BY <2>1, <2>2, OneMorePart
    <2> QED BY <1>4, <2>3 DEF whole
<1> HIDE DEF u
<1>7. Without(u, C)
    <2>1. ASSUME NEW k \in 1..a + n PROVE u[k] \notin C
        <3>1. CASE k <= a
            <4>1. k \in 1..a
                BY <1>2, <3>1
            <4> QED BY <1>5, <3>1, <4>1 DEF Without
        <3>2. CASE ~(k <= a)
            <4>1. k - a \in 1..n
                BY <1>2, <3>2
            <4> QED BY <1>1, <1>5, <3>2, <4>1
        <3> QED BY <3>1, <3>2
    <2> QED BY <1>5, <2>1 DEF Without
<1>8. EndsAt(y, C)
    <2>1. SUFFICES ASSUME y # <<>> PROVE y[1] \in C
        BY DEF EndsAt
    <2>2. Len(y) > 0
        BY <1>3, <2>1, NotEmptySeq
    <2>3. n < Len(t) /\ 1 \in 1..b - n
        BY <1>2, <1>3, <2>2
    <2> QED BY <1>1, <1>3, <2>3
<1>9. Before(u \o y, C) = u
    BY <1>3, <1>5, <1>7, <1>8, BeforeBehind
<1> QED BY <1>6, <1>9 DEF u, x

LEMMA BeforeNothing ==
    ASSUME NEW C
    PROVE  Before(<<>>, C) = <<>> /\ Drop(<<>>, 0) = <<>> /\ TailOrNone(<<>>) = None
<1> DEFINE s == <<>>
<1>1. s \in Seq(Nat) /\ Len(s) = 0
    OBVIOUS
<1>2. Before(s, C) \in Seq(Nat) /\ Len(Before(s, C)) \in 0..0
    <2> HIDE DEF s
    <2>1. PICK n \in 0..Len(s) : Before(s, C) \in Seq(Nat) /\ Len(Before(s, C)) = n
        <3>1. s \in Seq(Nat)
            BY <1>1
        <3> QED BY <3>1, BeforeFacts
    <2> QED BY <1>1, <2>1
<1>3. Before(s, C) = <<>>
    BY <1>2, EmptySeq
<1>4. Drop(s, 0) = s
    BY <1>1, DropAll
<1> QED BY <1>3, <1>4 DEF TailOrNone

-----------------------------------------------------------------------------
\* The words of a string, read from the front.

\* The word that starts at k, if one does.
WordFrom(s, k) ==
    IF s[k] # Blank /\ (k = 1 \/ s[k - 1] = Blank)
    THEN <<Before(Drop(s, k - 1), {Blank})>> ELSE <<>>

WordParts(s) == [k \in DOMAIN s |-> WordFrom(s, k)]

Blanks(gap) == \A k \in 1..Len(gap) : gap[k] = Blank

LEMMA WordsAre == \A s : Words(s) = FlattenSeq(WordParts(s))
BY DEF Words, WordParts, WordFrom

LEMMA WordPartsType ==
    ASSUME NEW s \in Text
    PROVE  WordParts(s) \in Seq(Seq(Text)) /\ Len(WordParts(s)) = Len(s)
           /\ \A k \in 1..Len(s) : WordParts(s)[k] = WordFrom(s, k)
<1> DEFINE f == WordParts(s)
<1>1. s \in Seq(Characters) /\ DOMAIN s = 1..Len(s) /\ Len(s) \in Nat
    BY LenProperties DEF Text
<1>2. ASSUME NEW k \in 1..Len(s) PROVE WordFrom(s, k) \in Seq(Text)
    <2> DEFINE word == Before(Drop(s, k - 1), {Blank})
    <2>1. k - 1 \in 0..Len(s)
        BY <1>1
    <2>2. Drop(s, k - 1) \in Text
        BY <1>1, <2>1, DropFacts DEF Text
    <2>3. word \in Text
        BY <2>2, BeforeType
    <2> HIDE DEF word
    <2>4. <<word>> \in Seq(Text)
        BY <2>3, OneType
    <2>5. WordFrom(s, k) = <<word>> \/ WordFrom(s, k) = <<>>
        BY DEF WordFrom, word
    <2>6. <<>> \in Seq(Text)
        OBVIOUS
    <2>7. CASE WordFrom(s, k) = <<word>>
        BY <2>4, <2>7
    <2>8. CASE WordFrom(s, k) = <<>>
        BY <2>6, <2>8
    <2> QED BY <2>5, <2>7, <2>8
<1>3. f = [k \in 1..Len(s) |-> WordFrom(s, k)]
    BY <1>1 DEF WordParts
<1>4. f \in [1..Len(s) -> Seq(Text)]
    BY <1>2, <1>3
<1>5. \A k \in 1..Len(s) : f[k] = WordFrom(s, k)
    BY <1>3
<1> HIDE DEF f
<1>6. f \in Seq(Seq(Text)) /\ Len(f) = Len(s)
    BY <1>1, <1>4, FunctionIsSequence
<1> QED BY <1>5, <1>6 DEF f

\* Empty parts at the front add nothing.
LEMMA FlattenSkips ==
    ASSUME NEW S, NEW f \in Seq(Seq(S)), NEW n \in 0..Len(f), \A k \in 1..n : f[k] = <<>>
    PROVE  FlattenSeq(f) = FlattenSeq(Drop(f, n))
<1> DEFINE Same(m) == m <= n => FlattenSeq(f) = FlattenSeq(Drop(f, m))
           D == {m \in Nat : Same(m)}
<1>1. Len(f) \in Nat /\ n \in Nat /\ n <= Len(f)
    BY LenProperties
<1>2. Same(0)
    BY DropAll
<1>3. ASSUME NEW m \in Nat, Same(m) PROVE Same(m + 1)
    <2> SUFFICES ASSUME m + 1 <= n PROVE FlattenSeq(f) = FlattenSeq(Drop(f, m + 1))
        OBVIOUS
    <2>1. m <= n /\ m < Len(f) /\ m + 1 \in 1..n /\ m + 1 \in 0..Len(f)
        BY <1>1
    <2>2. FlattenSeq(f) = FlattenSeq(Drop(f, m))
        BY <1>3, <2>1
    <2> DEFINE d == Drop(f, m)
               e == Drop(f, m + 1)
    <2>3. d \in Seq(Seq(S)) /\ d # <<>> /\ d[1] = f[m + 1] /\ Tail(d) = e
        BY <2>1, DropOne
    <2>4. e \in Seq(Seq(S))
        BY <2>1, DropFacts
    <2>5. f[m + 1] = <<>>
        BY <2>1
    <2> HIDE DEF d, e
    <2>6. FlattenSeq(d) = d[1] \o FlattenSeq(Tail(d))
        BY <2>3, FlattenCons
    <2>7. FlattenSeq(e) \in Seq(S)
        BY <2>4, FlattenType
    <2>8. FlattenSeq(d) = <<>> \o FlattenSeq(e)
        BY <2>3, <2>5, <2>6
    <2>9. <<>> \o FlattenSeq(e) = FlattenSeq(e)
        <3> DEFINE x == FlattenSeq(e)
        <3> HIDE DEF x
        <3>1. x \in Seq(S)
            BY <2>7 DEF x
        <3>2. <<>> \o x = x
            BY <3>1, ConcatEmptySeq
        <3> QED BY <3>2 DEF x
    <2> QED BY <2>2, <2>8, <2>9 DEF d, e
<1> HIDE DEF Same
<1>4. \A m \in Nat : m \in D => m + 1 \in D
    BY <1>3
<1>5. 0 \in D
    BY <1>2
<1>6. \A m \in Nat : m \in D
    <2> HIDE DEF D
    <2> QED BY <1>4, <1>5, SetInduction
<1>7. Same(n)
    BY <1>1, <1>6
<1> QED BY <1>1, <1>7 DEF Same

LEMMA DropTwice ==
    ASSUME NEW S, NEW s \in Seq(S), NEW n \in 0..Len(s), NEW m \in 0..Len(s) - n
    PROVE  Drop(Drop(s, n), m) = Drop(s, n + m)
<1> DEFINE d == Drop(s, n)
           x == Drop(d, m)
           y == Drop(s, n + m)
           len == Len(s)
<1>1. len \in Nat /\ n \in Nat /\ m \in Nat /\ n + m \in 0..len
    BY LenProperties
<1>2. d \in Seq(S) /\ Len(d) = len - n /\ \A k \in 1..len - n : d[k] = s[n + k]
    BY DropFacts
<1> HIDE DEF d
<1>3. m \in 0..Len(d)
    BY <1>2
<1>4. x \in Seq(S) /\ Len(x) = Len(d) - m /\ \A k \in 1..Len(d) - m : x[k] = d[m + k]
    BY <1>2, <1>3, DropFacts
<1>5. y \in Seq(S) /\ Len(y) = len - (n + m) /\ \A k \in 1..len - (n + m) : y[k] = s[(n + m) + k]
    BY <1>1, DropFacts
<1> HIDE DEF x, y, len
<1>6. Len(x) = len - (n + m)
    BY <1>1, <1>2, <1>4
<1>7. ASSUME NEW k \in 1..len - (n + m) PROVE x[k] = y[k]
    <2>1. k \in 1..Len(d) - m /\ m + k \in 1..len - n /\ n + (m + k) = (n + m) + k
        BY <1>1, <1>2
    <2> QED BY <1>2, <1>4, <1>5, <2>1
<1>8. x = y
    BY <1>4, <1>5, <1>6, <1>7, SeqEqual
<1> QED BY <1>8 DEF x, y, d

\* Behind a blank, or before one, the words are those of what is left.
LEMMA WordsBehind ==
    ASSUME NEW s \in Text, NEW n \in 1..Len(s),
           s[n] = Blank \/ n = Len(s) \/ s[n + 1] = Blank
    PROVE  Drop(WordParts(s), n) = WordParts(Drop(s, n))
<1> DEFINE f == WordParts(s)
           d == Drop(s, n)
           g == WordParts(d)
           h == Drop(f, n)
           len == Len(s)
<1>1. s \in Seq(Characters) /\ len \in Nat /\ n \in Nat /\ n \in 0..len
    BY LenProperties DEF Text
<1>2. d \in Seq(Characters) /\ Len(d) = len - n /\ \A k \in 1..len - n : d[k] = s[n + k]
    BY <1>1, DropFacts
<1>3. f \in Seq(Seq(Text)) /\ Len(f) = len /\ \A k \in 1..len : f[k] = WordFrom(s, k)
    BY WordPartsType
<1>4. \A m \in 0..len - n : Drop(d, m) = Drop(s, n + m)
    BY <1>1, DropTwice
<1> HIDE DEF d
<1>5. g \in Seq(Seq(Text)) /\ Len(g) = Len(d) /\ \A k \in 1..Len(d) : g[k] = WordFrom(d, k)
    BY <1>2, WordPartsType DEF Text
<1> HIDE DEF f, g
<1>6. h \in Seq(Seq(Text)) /\ Len(h) = Len(f) - n /\ \A k \in 1..Len(f) - n : h[k] = f[n + k]
    <2>1. n \in 0..Len(f)
        BY <1>1, <1>3
    <2> QED BY <1>3, <2>1, DropFacts
<1> HIDE DEF h
<1>7. ASSUME NEW k \in 1..len - n PROVE h[k] = g[k]
    <2>1. /\ k \in Nat /\ n + k \in 1..len /\ k \in 1..Len(f) - n /\ k \in 1..Len(d)
          /\ n + k # 1 /\ (n + k) - 1 = n + (k - 1) /\ k - 1 \in 0..len - n
        BY <1>1, <1>2, <1>3
    <2>2. h[k] = WordFrom(s, n + k) /\ g[k] = WordFrom(d, k)
        BY <1>3, <1>5, <1>6, <2>1
    <2>3. Drop(d, k - 1) = Drop(s, (n + k) - 1)
        BY <1>4, <2>1
    <2>4. d[k] = s[n + k]
        BY <1>2
    <2>5. s[n + k] # Blank => (k = 1 \/ d[k - 1] = Blank) = (s[(n + k) - 1] = Blank)
        <3>1. CASE k = 1
            <4>1. (n + k) - 1 = n /\ n + k = n + 1 /\ n # len
                BY <1>1, <2>1, <3>1
            <4> QED BY <3>1, <4>1
        <3>2. CASE k # 1
            <4>1. k - 1 \in 1..len - n
                BY <2>1, <3>2
            <4>2. d[k - 1] = s[n + (k - 1)]
                BY <1>2, <4>1
            <4> QED BY <2>1, <3>2, <4>2
        <3> QED BY <3>1, <3>2
    <2>6. WordFrom(s, n + k) = WordFrom(d, k)
        BY <2>1, <2>3, <2>4, <2>5 DEF WordFrom
    <2> QED BY <2>2, <2>6
<1>8. Len(h) = len - n /\ Len(g) = len - n
    BY <1>2, <1>3, <1>5, <1>6
<1>9. h = g
    BY <1>5, <1>6, <1>7, <1>8, SeqEqual
<1> QED BY <1>9 DEF h, g, f, d

\* Blanks at the front are skipped.
LEMMA WordsOverBlanks ==
    ASSUME NEW gap \in Text, NEW y \in Text, Blanks(gap)
    PROVE  Words(gap \o y) = Words(y)
<1> DEFINE s == gap \o y
           n == Len(gap)
           m == Len(y)
           f == WordParts(s)
<1>1. gap \in Seq(Characters) /\ y \in Seq(Characters) /\ n \in Nat /\ m \in Nat
    BY LenProperties DEF Text
<1>2. /\ s \in Seq(Characters) /\ Len(s) = n + m
      /\ \A k \in 1..n + m : s[k] = IF k <= n THEN gap[k] ELSE y[k - n]
    BY <1>1, ConcatElements
<1>3. Drop(s, n) = y
    BY <1>1, JoinedParts
<1> HIDE DEF s
<1>4. \A k \in 1..n : k \in 1..n + m /\ s[k] = Blank
    <2>1. \A k \in 1..n : k \in 1..n + m /\ k <= n
        BY <1>1
    <2> QED BY <1>2, <2>1 DEF Blanks
<1>5. /\ f \in Seq(Seq(Text)) /\ Len(f) = n + m
      /\ \A k \in 1..n + m : f[k] = WordFrom(s, k)
    BY <1>2, WordPartsType DEF Text
<1>6. \A k \in 1..n : f[k] = <<>>
    BY <1>4, <1>5 DEF WordFrom
<1>7. Drop(f, n) = WordParts(y)
    <2>1. CASE n = 0
        <3>1. s = y
            BY <1>2, <1>3, <2>1, DropAll
        <3>2. Drop(f, 0) = f
            <4> HIDE DEF f
            <4> QED BY <1>5, DropAll
        <3> QED BY <2>1, <3>1, <3>2
    <2>2. CASE n # 0
        <3>1. n \in 1..Len(s) /\ s[n] = Blank
            BY <1>1, <1>2, <1>4, <2>2
        <3>2. Drop(WordParts(s), n) = WordParts(Drop(s, n))
            BY <1>2, <3>1, WordsBehind DEF Text
        <3> QED BY <1>3, <3>2
    <2> QED BY <2>1, <2>2
<1>8. FlattenSeq(f) = FlattenSeq(Drop(f, n))
    <2>1. n \in 0..Len(f)
        BY <1>1, <1>5
    <2> HIDE DEF f
    <2> QED BY <1>5, <1>6, <2>1, FlattenSkips
<1> QED BY <1>7, <1>8, WordsAre DEF f, s

\* A word at the front is the first one.
LEMMA WordsOverFirst ==
    ASSUME NEW p \in Text, NEW y \in Text, p # <<>>, Without(p, {Blank}), EndsAt(y, {Blank})
    PROVE  Words(p \o y) = <<p>> \o Words(y)
<1> DEFINE s == p \o y
           n == Len(p)
           m == Len(y)
           f == WordParts(s)
           g == Tail(f)
<1>1. /\ p \in Seq(Characters) /\ y \in Seq(Characters) /\ n \in Nat /\ m \in Nat /\ n > 0
      /\ (y # <<>>) = (m > 0)
    BY NotEmptySeq DEF Text
<1>2. /\ s \in Seq(Characters) /\ Len(s) = n + m
      /\ \A k \in 1..n + m : s[k] = IF k <= n THEN p[k] ELSE y[k - n]
    BY <1>1, ConcatElements
<1>3. Drop(s, n) = y
    BY <1>1, JoinedParts
<1>first. Before(s, {Blank}) = p
    BY <1>1, BeforeBehind
<1> HIDE DEF s
<1>4. \A k \in 1..n : k \in 1..n + m /\ s[k] # Blank
    <2>1. \A k \in 1..n : k \in 1..n + m /\ k <= n
        BY <1>1
    <2> QED BY <1>2, <2>1 DEF Without
<1>5. /\ f \in Seq(Seq(Text)) /\ Len(f) = n + m
      /\ \A k \in 1..n + m : f[k] = WordFrom(s, k)
    BY <1>2, WordPartsType DEF Text
<1>6. f[1] = <<p>>
    <2>1. 1 \in 1..n /\ 1 - 1 = 0
        BY <1>1
    <2>2. Drop(s, 0) = s
        BY <1>2, DropAll
    <2>3. s[1] # Blank /\ f[1] = WordFrom(s, 1)
        BY <1>4, <1>5, <2>1
    <2> QED BY <1>first, <2>1, <2>2, <2>3 DEF WordFrom
<1>7. \A k \in 2..n : f[k] = <<>>
    <2> TAKE k \in 2..n
    <2>1. k \in 1..n /\ k # 1 /\ k - 1 \in 1..n
        BY <1>1
    <2>2. s[k - 1] # Blank
        BY <1>4, <2>1
    <2> QED BY <1>4, <1>5, <2>1, <2>2 DEF WordFrom
<1>8. Drop(f, n) = WordParts(y)
    <2>1. n \in 1..Len(s) /\ (s[n] = Blank \/ n = Len(s) \/ s[n + 1] = Blank)
        <3>1. CASE y = <<>>
            BY <1>1, <1>2, <3>1
        <3>2. CASE y # <<>>
            <4>1. y[1] = Blank
                BY <3>2 DEF EndsAt
            <4>2. n + 1 \in 1..n + m /\ ~(n + 1 <= n) /\ (n + 1) - n = 1
                BY <1>1, <3>2
            <4> QED BY <1>1, <1>2, <4>1, <4>2
        <3> QED BY <3>1, <3>2
    <2>2. Drop(WordParts(s), n) = WordParts(Drop(s, n))
        BY <1>2, <2>1, WordsBehind DEF Text
    <2> QED BY <1>3, <2>2
<1> HIDE DEF f
<1>9. /\ f # <<>> /\ g \in Seq(Seq(Text)) /\ Len(g) = (n + m) - 1
      /\ \A k \in 1..(n + m) - 1 : g[k] = f[k + 1]
    <2>1. f # <<>>
        BY <1>1, <1>5, NotEmptySeq
    <2> QED BY <1>5, <2>1, HeadTailProperties
<1>10. FlattenSeq(f) = f[1] \o FlattenSeq(g)
    BY <1>5, <1>9, FlattenCons
<1>tail. g = Drop(f, 1)
    <2>1. 0 < Len(f) /\ Drop(f, 0) = f /\ 0 + 1 = 1
        BY <1>1, <1>5, DropAll
    <2>2. Tail(Drop(f, 0)) = Drop(f, 0 + 1)
        BY <1>5, <2>1, DropOne
    <2> QED BY <2>1, <2>2
<1> HIDE DEF g
<1>11. FlattenSeq(g) = FlattenSeq(Drop(g, n - 1))
    <2> DEFINE c == n - 1
    <2>1. c \in 0..Len(g)
        BY <1>1, <1>9
    <2>2. \A k \in 1..c : g[k] = <<>>
        <3> TAKE k \in 1..c
        <3>1. k + 1 \in 2..n /\ k \in 1..(n + m) - 1
            BY <1>1
        <3> QED BY <1>7, <1>9, <3>1
    <2> HIDE DEF c
    <2>3. FlattenSeq(g) = FlattenSeq(Drop(g, c))
        BY <1>9, <2>1, <2>2, FlattenSkips
    <2> QED BY <2>3 DEF c
<1>12. Drop(g, n - 1) = Drop(f, n)
    <2> DEFINE c == n - 1
    <2>1. 1 \in 0..Len(f) /\ c \in 0..Len(f) - 1 /\ 1 + c = n
        BY <1>1, <1>5
    <2> HIDE DEF c
    <2>2. Drop(Drop(f, 1), c) = Drop(f, 1 + c)
        BY <1>5, <2>1, DropTwice
    <2> QED BY <1>tail, <2>1, <2>2 DEF c
<1>13. FlattenSeq(f) = <<p>> \o FlattenSeq(WordParts(y))
    BY <1>6, <1>8, <1>10, <1>11, <1>12
<1> QED BY <1>13, WordsAre DEF f, s

LEMMA WordsOfNone == Words(<<>>) = <<>>
<1> DEFINE s == <<>>
<1>1. s \in Text /\ Len(s) = 0
    BY DEF Text
<1> HIDE DEF s
<1>2. WordParts(s) \in Seq(Seq(Text)) /\ Len(WordParts(s)) = 0
    BY <1>1, WordPartsType
<1>3. WordParts(s) = <<>>
    BY <1>2, EmptySeq
<1>4. Words(s) = <<>>
    BY <1>3, WordsAre, FlattenEmpty
<1> QED BY <1>4 DEF s

LEMMA WordsOfBlanks ==
    ASSUME NEW gap \in Text, Blanks(gap)
    PROVE  Words(gap) = <<>>
<1> DEFINE none == <<>>
<1>1. none \in Text /\ gap \o none = gap
    <2>1. gap \in Seq(Characters)
        BY DEF Text
    <2> QED BY <2>1, ConcatEmptySeq DEF Text
<1>2. Words(none) = <<>>
    BY WordsOfNone
<1> HIDE DEF none
<1>3. Words(gap \o none) = Words(none)
    BY <1>1, WordsOverBlanks
<1> QED BY <1>1, <1>2, <1>3

-----------------------------------------------------------------------------
\* The parameters, as they are written and read.

Spread(gap, params) == FlattenSeq([k \in DOMAIN params |-> gap \o params[k]])

GoodParams(params) ==
    params \in Seq(Text)
    /\ \A k \in 1..Len(params) : params[k] # <<>> /\ Without(params[k], {Blank})

LEMMA SpreadNone == \A gap : Spread(gap, <<>>) = <<>>
<1> TAKE gap
<1> DEFINE f == [k \in DOMAIN <<>> |-> gap \o <<>>[k]]
<1>1. f = <<>>
    BY NoneOfNothing
<1> QED BY <1>1, FlattenEmpty DEF Spread

LEMMA SpreadType ==
    ASSUME NEW S, NEW params \in Seq(Seq(S)), NEW gap \in Seq(S)
    PROVE  Spread(gap, params) \in Seq(S)
BY ParamsType DEF Spread

LEMMA SpreadCons ==
    ASSUME NEW params \in Seq(Text), params # <<>>, NEW gap \in Text
    PROVE  /\ Spread(gap, params) = (gap \o params[1]) \o Spread(gap, Tail(params))
           /\ Tail(params) \in Seq(Text) /\ Len(Tail(params)) = Len(params) - 1
           /\ \A k \in 1..Len(params) - 1 : Tail(params)[k] = params[k + 1]
           /\ params[1] \in Text /\ params = <<params[1]>> \o Tail(params)
<1> DEFINE t == Tail(params)
           n == Len(params)
           f == [k \in DOMAIN params |-> gap \o params[k]]
           g == [k \in DOMAIN t |-> gap \o t[k]]
<1>1. n \in Nat /\ n > 0 /\ DOMAIN params = 1..n /\ 1 \in 1..n
    BY NotEmptySeq, LenProperties
<1>2. t \in Seq(Text) /\ Len(t) = n - 1 /\ \A k \in 1..n - 1 : t[k] = params[k + 1]
    BY HeadTailProperties
<1>3. \A k \in 1..n : params[k] \in Text /\ gap \o params[k] \in Text
    BY ElementOfSeq, ConcatType DEF Text
<1> HIDE DEF t
<1>4. DOMAIN t = 1..n - 1 /\ n - 1 \in Nat
    BY <1>1, <1>2, LenProperties
<1>5. f \in [1..n -> Seq(Characters)] /\ \A k \in 1..n : f[k] = gap \o params[k]
    BY <1>1, <1>3 DEF Text
<1>6. \A k \in 1..n - 1 : k + 1 \in 1..n /\ g[k] = gap \o params[k + 1]
    <2> TAKE k \in 1..n - 1
    <2>1. k + 1 \in 1..n
        BY <1>1
    <2>2. t[k] = params[k + 1] /\ k \in DOMAIN t
        BY <1>2, <1>4
    <2>3. g[k] = gap \o t[k]
        BY <2>2
    <2> QED BY <2>1, <2>2, <2>3
<1>7. g \in [1..n - 1 -> Seq(Characters)]
    BY <1>3, <1>4, <1>6 DEF Text
<1>defs. Spread(gap, params) = FlattenSeq(f) /\ Spread(gap, t) = FlattenSeq(g)
    BY DEF Spread
<1> HIDE DEF f, g, n
<1>8. f \in Seq(Seq(Characters)) /\ Len(f) = n
    BY <1>1, <1>5, FunctionIsSequence
<1>9. g \in Seq(Seq(Characters)) /\ Len(g) = n - 1
    <2> DEFINE m == n - 1
    <2>1. m \in Nat /\ g \in [1..m -> Seq(Characters)]
        BY <1>4, <1>7
    <2> HIDE DEF m
    <2>2. g \in Seq(Seq(Characters)) /\ Len(g) = m
        BY <2>1, FunctionIsSequence
    <2> QED BY <2>2 DEF m
<1>10. f # <<>>
    BY <1>1, <1>8, NotEmptySeq
<1>11. Tail(f) = g
    <2> DEFINE h == Tail(f)
    <2>1. h \in Seq(Seq(Characters)) /\ Len(h) = n - 1 /\ \A k \in 1..n - 1 : h[k] = f[k + 1]
        BY <1>8, <1>10, HeadTailProperties
    <2> HIDE DEF h
    <2>2. ASSUME NEW k \in 1..n - 1 PROVE h[k] = g[k]
        BY <1>5, <1>6, <2>1
    <2>3. h = g
        BY <1>9, <2>1, <2>2, SeqEqual
    <2> QED BY <2>3 DEF h
<1>12. FlattenSeq(f) = f[1] \o FlattenSeq(Tail(f))
    BY <1>8, <1>10, FlattenCons
<1>13. Spread(gap, params) = (gap \o params[1]) \o Spread(gap, t)
    BY <1>1, <1>5, <1>11, <1>12, <1>defs
<1>14. params = <<params[1]>> \o t
    <2> DEFINE x == params[1]
               one == <<x>>
               w == one \o t
    <2>1. x \in Text
        BY <1>1, <1>3
    <2> HIDE DEF x
    <2>2. one \in Seq(Text) /\ Len(one) = 1 /\ one[1] = x
        BY <2>1, OneType
    <2> HIDE DEF one
    <2> DEFINE a == Len(one)
               b == Len(t)
    <2>3. /\ w \in Seq(Text) /\ Len(w) = a + b
          /\ \A k \in 1..a + b : w[k] = IF k <= a THEN one[k] ELSE t[k - a]
        <3>1. one \in Seq(Text)
            BY <2>2
        <3>2. t \in Seq(Text)
            BY <1>2
        <3> QED BY <3>1, <3>2, ConcatElements
    <2>4. a = 1 /\ b = n - 1
        BY <1>2, <2>2 DEF n
    <2> HIDE DEF w, a, b
    <2>5. Len(w) = n
        BY <1>1, <2>3, <2>4
    <2>6. ASSUME NEW k \in 1..n PROVE w[k] = params[k]
        <3>1. CASE k = 1
            BY <1>1, <2>2, <2>3, <2>4, <3>1 DEF x
        <3>2. CASE k # 1
            <4>1. k \in 1..a + b /\ ~(k <= a) /\ k - a \in 1..n - 1 /\ (k - a) + 1 = k
                BY <1>1, <2>4, <3>2
            <4> QED BY <1>2, <2>3, <4>1 DEF n
        <3> QED BY <3>1, <3>2
    <2>7. w = params
        BY <2>3, <2>5, <2>6, SeqEqual DEF n
    <2> QED BY <2>7 DEF w, one, x
<1> QED BY <1>1, <1>2, <1>3, <1>13, <1>14 DEF t, n

LEMMA FourParts ==
    ASSUME NEW S, NEW a \in Seq(S), NEW b \in Seq(S), NEW c \in Seq(S), NEW d \in Seq(S)
    PROVE  ((a \o b) \o c) \o d = a \o (b \o (c \o d))
<1> DEFINE ab == a \o b
           cd == c \o d
<1>1. ab \in Seq(S) /\ cd \in Seq(S)
    BY ConcatType
<1>2. (a \o b) \o cd = a \o (b \o cd)
    <2> HIDE DEF cd
    <2> QED BY <1>1, ConcatAssociative
<1>3. (ab \o c) \o d = ab \o (c \o d)
    <2> HIDE DEF ab
    <2> QED BY <1>1, ConcatAssociative
<1> QED BY <1>2, <1>3

\* The same with an operator for \o whose definition is left folded, because the
\* provers are slow where they see several \o at once.
Join(x, y) == x \o y

LEMMA FourJoined ==
    ASSUME NEW S, NEW a \in Seq(S), NEW b \in Seq(S), NEW c \in Seq(S), NEW d \in Seq(S)
    PROVE  Join(Join(Join(a, b), c), d) = Join(a, Join(b, Join(c, d)))
<1>1. ((a \o b) \o c) \o d = a \o (b \o (c \o d))
    BY FourParts, SMTT(60)
<1> QED BY <1>1 DEF Join

LEMMA ThreeParts ==
    ASSUME NEW S, NEW a \in Seq(S), NEW b \in Seq(S), NEW c \in Seq(S)
    PROVE  (a \o b) \o c = a \o (b \o c)
BY ConcatAssociative

LEMMA FirstOfJoined ==
    ASSUME NEW S, NEW s \in Seq(S), NEW t \in Seq(S), s # <<>>
    PROVE  s \o t # <<>> /\ (s \o t)[1] = s[1]
<1> DEFINE w == s \o t
           a == Len(s)
           b == Len(t)
<1>1. a \in Nat /\ b \in Nat /\ a > 0
    BY NotEmptySeq
<1>2. /\ w \in Seq(S) /\ Len(w) = a + b
      /\ \A k \in 1..a + b : w[k] = IF k <= a THEN s[k] ELSE t[k - a]
    BY ConcatElements
<1> HIDE DEF w
<1>3. 1 \in 1..a + b /\ 1 <= a /\ Len(w) > 0
    BY <1>1, <1>2
<1>4. w # <<>>
    BY <1>2, <1>3, NotEmptySeq
<1> QED BY <1>2, <1>3, <1>4 DEF w

\* Written with blanks between them, the parameters are the first words.
LEMMA WordsOfParams ==
    ASSUME NEW gap \in Text, Len(gap) > 0, Blanks(gap), NEW z \in Text, EndsAt(z, {Blank}),
           NEW params, GoodParams(params)
    PROVE  /\ Words(Spread(gap, params) \o z) = params \o Words(z)
           /\ EndsAt(Spread(gap, params) \o z, {Blank})
<1> DEFINE Claim(q) == /\ Words(Spread(gap, q) \o z) = q \o Words(z)
                       /\ EndsAt(Spread(gap, q) \o z, {Blank})
           D == {m \in Nat : \A q : GoodParams(q) /\ Len(q) = m => Claim(q)}
           W == Words(z)
<1>1. W \in Seq(Text)
    BY WordsType
<1>2. 0 \in D
    <2> SUFFICES ASSUME NEW q, GoodParams(q), Len(q) = 0 PROVE Claim(q)
        OBVIOUS
    <2>1. q = <<>>
        BY EmptySeq DEF GoodParams
    <2>2. Spread(gap, q) = <<>>
        BY <2>1, SpreadNone
    <2>3. <<>> \o z = z /\ <<>> \o W = W
        <3> HIDE DEF W
        <3>1. z \in Seq(Characters)
            BY DEF Text
        <3> QED BY <1>1, <3>1, ConcatEmptySeq
    <2> QED BY <2>1, <2>2, <2>3
<1>3. ASSUME NEW m \in Nat, \A q : GoodParams(q) /\ Len(q) = m => Claim(q),
             NEW q, GoodParams(q), Len(q) = m + 1
      PROVE  Claim(q)
    <2> DEFINE t == Tail(q)
               p == q[1]
               one == <<p>>
               spread == Spread(gap, t)
               rest == spread \o z
    <2>1. q \in Seq(Text) /\ q # <<>> /\ 1 \in 1..Len(q)
        <3>1. q \in Seq(Text)
            BY <1>3 DEF GoodParams
        <3>2. Len(q) > 0
            BY <1>3
        <3> QED BY <3>1, <3>2, NotEmptySeq
    <2>2. /\ Spread(gap, q) = (gap \o p) \o spread
          /\ t \in Seq(Text) /\ Len(t) = Len(q) - 1
          /\ \A k \in 1..Len(q) - 1 : t[k] = q[k + 1]
          /\ p \in Text /\ q = one \o t
        BY <2>1, SpreadCons
    <2>3. \A k \in 1..Len(q) : q[k] # <<>> /\ Without(q[k], {Blank})
        BY <1>3 DEF GoodParams
    <2> HIDE DEF t
    <2>4. Len(t) = m /\ \A k \in 1..m : k + 1 \in 1..Len(q) /\ t[k] = q[k + 1]
        BY <1>3, <2>2
    <2>5. GoodParams(t)
        BY <2>2, <2>3, <2>4 DEF GoodParams
    <2>6. Words(rest) = t \o W /\ EndsAt(rest, {Blank})
        BY <1>3, <2>4, <2>5
    <2>7. p # <<>> /\ Without(p, {Blank})
        BY <2>1, <2>3
    <2> HIDE DEF p
    <2>8. spread \in Seq(Characters)
        BY <2>2, SpreadType DEF Text
    <2> HIDE DEF spread
    <2>9. z \in Seq(Characters) /\ p \in Seq(Characters) /\ gap \in Seq(Characters)
        BY <2>2 DEF Text
    <2>10. rest \in Text
        BY <2>8, <2>9, ConcatType DEF Text
    <2>11. ((gap \o p) \o spread) \o z = gap \o (p \o rest)
        <3>1. gap \in Seq(Characters)
            BY <2>9
        <3>2. p \in Seq(Characters)
            BY <2>9
        <3>3. z \in Seq(Characters)
            BY <2>9
        <3>4. Join(Join(Join(gap, p), spread), z) = Join(gap, Join(p, Join(spread, z)))
            BY <2>8, <3>1, <3>2, <3>3, FourJoined
        <3> QED BY <3>4 DEF Join
    <2> HIDE DEF rest
    <2> DEFINE first == p \o rest
    <2>12. first \in Text
        BY <2>9, <2>10, ConcatType DEF Text
    <2>13. Words(first) = one \o Words(rest)
        BY <2>2, <2>6, <2>7, <2>10, WordsOverFirst
    <2> HIDE DEF first
    <2>14. Words(gap \o first) = Words(first)
        BY <2>12, WordsOverBlanks
    <2>15. one \o (t \o W) = q \o W
        <3>1. one \in Seq(Text)
            BY <2>2, OneType
        <3> HIDE DEF one, W
        <3>2. (one \o t) \o W = one \o (t \o W)
            BY <1>1, <2>2, <3>1, ThreeParts
        <3> QED BY <2>2, <3>2
    <2>16. Spread(gap, q) \o z = gap \o first
        BY <2>2, <2>11 DEF first
    <2>17. EndsAt(gap \o first, {Blank})
        <3>1. first \in Seq(Characters)
            BY <2>12 DEF Text
        <3>2. gap # <<>>
            BY <2>9, NotEmptySeq
        <3>3. (gap \o first)[1] = gap[1]
            BY <2>9, <3>1, <3>2, FirstOfJoined
        <3>4. gap[1] = Blank
            BY <2>9, <3>2, NotEmptySeq DEF Blanks
        <3> QED BY <3>3, <3>4 DEF EndsAt
    <2> HIDE DEF one, W
    <2>18. Words(Spread(gap, q) \o z) = q \o W
        BY <2>6, <2>13, <2>14, <2>15, <2>16
    <2>19. EndsAt(Spread(gap, q) \o z, {Blank})
        BY <2>16, <2>17
    <2> QED BY <2>18, <2>19 DEF W
<1> HIDE DEF Claim
<1>4. \A m \in Nat : m \in D => m + 1 \in D
    BY <1>3
<1>5. \A m \in Nat : m \in D
    <2> HIDE DEF D
    <2> QED BY <1>2, <1>4, SetInduction
<1>6. Len(params) \in Nat
    BY LenProperties DEF GoodParams
<1>7. Claim(params)
    BY <1>5, <1>6
<1> QED BY <1>7 DEF Claim

-----------------------------------------------------------------------------
\* The prefix, as it is written and read.

LEMMA WithoutJoined ==
    ASSUME NEW S, NEW s \in Seq(S), NEW t \in Seq(S), NEW C, Without(s, C), Without(t, C)
    PROVE  Without(s \o t, C)
<1> DEFINE w == s \o t
           a == Len(s)
           b == Len(t)
<1>1. a \in Nat /\ b \in Nat
    BY LenProperties
<1>2. /\ w \in Seq(S) /\ Len(w) = a + b
      /\ \A k \in 1..a + b : w[k] = IF k <= a THEN s[k] ELSE t[k - a]
    BY ConcatElements
<1> HIDE DEF w
<1>3. ASSUME NEW k \in 1..a + b PROVE w[k] \notin C
    <2>1. CASE k <= a
        <3>1. k \in 1..a
            BY <1>1, <2>1
        <3> QED BY <1>2, <2>1, <3>1 DEF Without
    <2>2. CASE ~(k <= a)
        <3>1. k - a \in 1..b
            BY <1>1, <2>2
        <3> QED BY <1>2, <2>2, <3>1 DEF Without
    <2> QED BY <2>1, <2>2
<1>4. Without(w, C)
    BY <1>2, <1>3 DEF Without
<1> QED BY <1>4 DEF w

LEMMA EndsJoined ==
    ASSUME NEW S, NEW s \in Seq(S), NEW t \in Seq(S), NEW C, EndsAt(s, C), EndsAt(t, C)
    PROVE  EndsAt(s \o t, C)
<1>1. CASE s = <<>>
    <2>1. s \o t = t
        BY <1>1, ConcatEmptySeq
    <2> QED BY <2>1
<1>2. CASE s # <<>>
    <2>1. (s \o t)[1] = s[1]
        BY <1>2, FirstOfJoined
    <2> QED BY <1>2, <2>1 DEF EndsAt
<1> QED BY <1>1, <1>2

LEMMA FreeWithout ==
    ASSUME NEW part \in Text, NEW C, Free(part, C)
    PROVE  Without(part, C)
<1>1. DOMAIN part = 1..Len(part)
    BY LenProperties DEF Text
<1>2. ToSet(part) \cap C = {}
    BY NoneAssumption DEF Free
<1> QED BY <1>1, <1>2 DEF Without, ToSet

\* A part with its mark, in a line and read back.
LEMMA OptionalFacts ==
    ASSUME NEW mark \in Characters, NEW part \in Text \cup {None}
    PROVE  /\ Optional(mark, part) \in Seq(Characters)
           /\ TailOrNone(Optional(mark, part)) = part
           /\ EndsAt(Optional(mark, part), {mark})
           /\ part # None => Optional(mark, part) # <<>> /\ Optional(mark, part)[1] = mark
           /\ \A C : mark \notin C /\ Free(part, C) => Without(Optional(mark, part), C)
<1>1. CASE part = None
    <2>1. Optional(mark, part) = <<>>
        BY <1>1 DEF Optional
    <2>2. \A C : Without(<<>>, C)
        BY NoneOfNothing DEF Without
    <2>3. <<>> \in Seq(Characters) /\ TailOrNone(<<>>) = None
        BY DEF TailOrNone
    <2> QED BY <1>1, <2>1, <2>2, <2>3 DEF EndsAt
<1>2. CASE part # None
    <2> DEFINE one == <<mark>>
               w   == one \o part
    <2>1. Optional(mark, part) = w
        BY <1>2 DEF Optional
    <2>2. one \in Seq(Characters) /\ Len(one) = 1 /\ one[1] = mark
        BY OneType
    <2> HIDE DEF one
    <2>3. part \in Seq(Characters)
        BY <1>2 DEF Text
    <2>4. one # <<>>
        BY <2>2, NotEmptySeq
    <2>5. w # <<>> /\ w[1] = mark /\ w \in Seq(Characters)
        BY <2>2, <2>3, <2>4, FirstOfJoined, ConcatType
    <2>6. ASSUME NEW C, mark \notin C, Free(part, C) PROVE Without(w, C)
        <3>1. Without(part, C)
            BY <1>2, <2>6, FreeWithout
        <3>2. Without(one, C)
            <4>1. \A k \in 1..1 : k = 1
                OBVIOUS
            <4> QED BY <2>2, <2>6, <4>1 DEF Without
        <3> QED BY <2>2, <2>3, <3>1, <3>2, WithoutJoined
    <2>7. Tail(w) = part
        <3>1. Drop(w, 1) = part
            BY <2>2, <2>3, JoinedParts
        <3> HIDE DEF w
        <3>2. Drop(w, 0) = w /\ 0 < Len(w) /\ 0 + 1 = 1
            BY <2>5, DropAll, NotEmptySeq
        <3>3. Tail(Drop(w, 0)) = Drop(w, 0 + 1)
            BY <2>5, <3>2, DropOne
        <3> QED BY <3>1, <3>2, <3>3
    <2> HIDE DEF w
    <2>8. TailOrNone(w) = part
        BY <2>5, <2>7 DEF TailOrNone
    <2> QED BY <2>1, <2>5, <2>6, <2>8 DEF EndsAt
<1> QED BY <1>1, <1>2

\* A prefix, whatever its marks are.
LEMMA PrefixParts ==
    ASSUME NEW colon \in Characters, NEW bang \in Characters, NEW at \in Characters,
           NEW Stops, NEW NameEnds, NEW UserEnds,
           colon \notin Stops, colon \notin NameEnds, bang \notin Stops, bang \notin UserEnds,
           at \notin Stops, bang \in NameEnds, at \in NameEnds, at \in UserEnds,
           NEW name \in Text, NEW user \in Text \cup {None}, NEW host \in Text \cup {None},
           Free(name, Stops), Free(name, NameEnds), Free(user, Stops), Free(user, UserEnds),
           Free(host, Stops)
    PROVE  LET head == Optional(colon, name)
               u    == Optional(bang, user)
               h    == Optional(at, host)
               p    == Join(Join(head, u), h)
           IN  /\ p \in Text /\ p # <<>> /\ p[1] = colon /\ Without(p, Stops)
               /\ Before(p, NameEnds) = head
               /\ Before(Drop(p, Len(head)), UserEnds) = u
               /\ Drop(p, Len(head) + Len(u)) = h
<1> DEFINE head == Optional(colon, name)
           u    == Optional(bang, user)
           h    == Optional(at, host)
           front == head \o u
           back  == u \o h
           p    == front \o h
<1>1. /\ head \in Seq(Characters) /\ head # <<>> /\ head[1] = colon
      /\ \A C : colon \notin C /\ Free(name, C) => Without(head, C)
    <2>1. name # None /\ name \in Text \cup {None}
        BY NoneAssumption
    <2> QED BY <2>1, OptionalFacts
<1>2. /\ u \in Seq(Characters) /\ EndsAt(u, {bang})
      /\ \A C : bang \notin C /\ Free(user, C) => Without(u, C)
    BY OptionalFacts
<1>3. /\ h \in Seq(Characters) /\ EndsAt(h, {at})
      /\ \A C : at \notin C /\ Free(host, C) => Without(h, C)
    BY OptionalFacts
<1>6. Without(head, Stops) /\ Without(head, NameEnds)
    BY <1>1
<1>7. Without(u, Stops) /\ Without(u, UserEnds)
    BY <1>2
<1>8. Without(h, Stops)
    BY <1>3
<1> HIDE DEF head, u, h
<1>9. EndsAt(u, NameEnds) /\ EndsAt(h, NameEnds) /\ EndsAt(h, UserEnds)
    BY <1>2, <1>3 DEF EndsAt
<1>10. front \in Seq(Characters) /\ front # <<>> /\ front[1] = colon /\ Len(front) = Len(head) + Len(u)
    BY <1>1, <1>2, FirstOfJoined, ConcatType
<1>11. Without(front, Stops)
    BY <1>1, <1>2, <1>6, <1>7, WithoutJoined
<1>12. back \in Seq(Characters) /\ EndsAt(back, NameEnds)
    BY <1>2, <1>3, <1>9, EndsJoined, ConcatType
<1>13. Before(back, UserEnds) = u
    BY <1>2, <1>3, <1>7, <1>9, BeforeBehind
<1>14. p = head \o back
    BY <1>1, <1>2, <1>3, ThreeParts
<1> HIDE DEF front, back
<1>15. /\ p \in Seq(Characters) /\ p # <<>> /\ p[1] = colon /\ Without(p, Stops)
       /\ Drop(p, Len(front)) = h
    BY <1>3, <1>8, <1>10, <1>11, FirstOfJoined, WithoutJoined, JoinedParts
<1>16. Before(head \o back, NameEnds) = head /\ Drop(head \o back, Len(head)) = back
    BY <1>1, <1>6, <1>12, BeforeBehind, JoinedParts
<1>17. p = Join(Join(head, u), h)
    BY DEF front, Join
<1> HIDE DEF p
<1> QED BY <1>10, <1>13, <1>14, <1>15, <1>16, <1>17 DEF head, u, h, Text

LEMMA ReadableParts ==
    ASSUME NEW m \in MessageType, Readable(m)
    PROVE  /\ m.name \in Text \cup {None} /\ m.user \in Text \cup {None}
           /\ m.host \in Text \cup {None} /\ m.command \in Text /\ m.params \in Seq(Text)
           /\ m.trailing \in Text \cup {None}
           /\ m.name = None => m.user = None /\ m.host = None
           /\ m.name = None /\ m.command # <<>> => m.command[1] # Colon
           /\ m.command = <<>> => m.params = <<>> /\ m.trailing = None
           /\ Without(m.command, {Blank})
           /\ GoodParams(m.params)
           /\ m.params \in Seq(Seq(Characters \ {Colon}))
<1>1. /\ m.name \in Text \cup {None} /\ m.user \in Text \cup {None}
      /\ m.host \in Text \cup {None} /\ m.command \in Text /\ m.params \in Seq(Text)
      /\ m.trailing \in Text \cup {None}
    BY DEF MessageType
<1>2. /\ m.name = None => m.user = None /\ m.host = None
      /\ m.command = <<>> => m.params = <<>> /\ m.trailing = None
      /\ m.name = None /\ m.command # <<>> => Head(m.command) # Colon
      /\ Free(m.command, {Blank})
      /\ \A param \in ToSet(m.params) : param # <<>> /\ Free(param, {Blank, Colon})
    BY DEF Readable
<1>3. m.command # <<>> => m.command[1] = Head(m.command)
    BY <1>1 DEF Text
<1>4. Without(m.command, {Blank})
    BY <1>1, <1>2, FreeWithout
<1> DEFINE q == m.params
           n == Len(q)
<1>5. n \in Nat /\ DOMAIN q = 1..n /\ \A k \in 1..n : q[k] \in Text
    BY <1>1, LenProperties, ElementOfSeq
<1>6. ASSUME NEW k \in 1..n
      PROVE  q[k] # <<>> /\ Without(q[k], {Blank}) /\ q[k] \in Seq(Characters \ {Colon})
    <2>1. q[k] \in ToSet(q)
        BY <1>5 DEF ToSet
    <2>2. q[k] # <<>> /\ Free(q[k], {Blank, Colon}) /\ q[k] \in Text
        BY <1>2, <1>5, <2>1
    <2> DEFINE s == q[k]
    <2> HIDE DEF s
    <2>3. Without(s, {Blank, Colon})
        BY <2>2, FreeWithout DEF s
    <2>4. s \in Seq(Characters) /\ Len(s) \in Nat /\ DOMAIN s = 1..Len(s)
        BY <2>2, LenProperties DEF s, Text
    <2>5. \A j \in 1..Len(s) : s[j] \in Characters \ {Colon}
        BY <2>3, <2>4, ElementOfSeq DEF Without
    <2>6. s = [j \in 1..Len(s) |-> s[j]]
        BY <2>4
    <2>7. s \in [1..Len(s) -> Characters \ {Colon}]
        BY <2>5, <2>6
    <2>8. s \in Seq(Characters \ {Colon})
        BY <2>4, <2>7, FunctionIsSequence
    <2>9. Without(s, {Blank})
        BY <2>3 DEF Without
    <2> QED BY <2>2, <2>8, <2>9 DEF s
<1>7. q \in Seq(Seq(Characters \ {Colon}))
    <2>1. q = [k \in 1..n |-> q[k]]
        BY <1>1, <1>5
    <2>2. q \in [1..n -> Seq(Characters \ {Colon})]
        BY <1>6, <2>1
    <2> HIDE DEF q
    <2> QED BY <1>5, <2>2, FunctionIsSequence
<1>8. GoodParams(q)
    BY <1>1, <1>6 DEF GoodParams
<1> QED BY <1>1, <1>2, <1>3, <1>4, <1>7, <1>8

\* init_prefix finds the parts of the prefix and leaves the blank behind it.
LEMMA PrefixRead ==
    ASSUME NEW m \in MessageType, Readable(m), m.name # None, NEW body \in Text
    PROVE  /\ Prefix(m) \in Text
           /\ InitPrefix(Join(Prefix(m), body)) =
                [name |-> m.name, user |-> m.user, host |-> m.host,
                 rest |-> <<Blank>> \o body]
<1> DEFINE bang == "!"
           at   == "@"
           head == Optional(Colon, m.name)
           u    == Optional(bang, m.user)
           h    == Optional(at, m.host)
           p    == Join(Join(head, u), h)
           one  == <<Blank>>
           rest == one \o body
           text == Join(Prefix(m), body)
<1>1. /\ Free(m.name, {Blank, bang, at}) /\ Free(m.user, {Blank, at}) /\ Free(m.host, {Blank})
      /\ Prefix(m) = ((head \o u) \o h) \o one
    BY DEF Readable, Prefix, Optional
<1>2. /\ Colon \in Characters /\ Blank \in Characters /\ bang \in Characters /\ at \in Characters
      /\ Colon \notin {Blank, bang, at} /\ bang \notin {Blank, at} /\ at # Blank
    BY Members DEF Blank, Colon
<1>3. m.name \in Text /\ m.user \in Text \cup {None} /\ m.host \in Text \cup {None}
    BY DEF MessageType
<1>unfold. InitPrefix(text) =
        LET prefix == IF text # <<>> /\ Head(text) = Colon
                      THEN Before(text, {Blank}) ELSE <<>>
            name   == Before(prefix, {bang, at})
            user   == Before(Drop(prefix, Len(name)), {at})
        IN  [name |-> TailOrNone(name), user |-> TailOrNone(user),
             host |-> TailOrNone(Drop(prefix, Len(name) + Len(user))),
             rest |-> Drop(text, Len(prefix))]
    BY DEF InitPrefix
<1> HIDE DEF bang, at
<1>4. /\ p \in Text /\ p # <<>> /\ p[1] = Colon /\ Without(p, {Blank})
      /\ Before(p, {bang, at}) = head
      /\ Before(Drop(p, Len(head)), {at}) = u
      /\ Drop(p, Len(head) + Len(u)) = h
    <2> DEFINE Stops == {Blank}
               NameEnds == {bang, at}
               UserEnds == {at}
               name == m.name
               user == m.user
               host == m.host
    <2>1. /\ Colon \notin Stops /\ Colon \notin NameEnds /\ bang \notin Stops
          /\ bang \notin UserEnds /\ at \notin Stops /\ bang \in NameEnds
          /\ at \in NameEnds /\ at \in UserEnds
        BY <1>2
    <2>2. /\ Free(name, Stops) /\ Free(name, NameEnds) /\ Free(user, Stops)
          /\ Free(user, UserEnds) /\ Free(host, Stops)
        BY <1>1 DEF Free
    <2>3. name \in Text /\ user \in Text \cup {None} /\ host \in Text \cup {None}
        BY <1>3
    <2> HIDE DEF Stops, NameEnds, UserEnds, name, user, host
    <2> DEFINE x == Optional(Colon, name)
               y == Optional(bang, user)
               z == Optional(at, host)
               w == Join(Join(x, y), z)
    <2>4. /\ w \in Text /\ w # <<>> /\ w[1] = Colon /\ Without(w, Stops)
          /\ Before(w, NameEnds) = x
          /\ Before(Drop(w, Len(x)), UserEnds) = y
          /\ Drop(w, Len(x) + Len(y)) = z
        BY <1>2, <2>1, <2>2, <2>3, PrefixParts
    <2> QED BY <2>4 DEF name, user, host, Stops, NameEnds, UserEnds
<1>5. TailOrNone(head) = m.name /\ TailOrNone(u) = m.user /\ TailOrNone(h) = m.host
    BY <1>2, <1>3, OptionalFacts
<1>6. Prefix(m) = p \o one
    BY <1>1 DEF Join
<1> HIDE DEF head, u, h, p
<1>7. one \in Seq(Characters) /\ Len(one) = 1 /\ one[1] = Blank
    BY <1>2, OneType
<1> HIDE DEF one
<1>8. p \in Seq(Characters) /\ body \in Seq(Characters)
    BY <1>4 DEF Text
<1>9. one # <<>>
    BY <1>7, NotEmptySeq
<1>10. rest \in Seq(Characters) /\ EndsAt(rest, {Blank})
    <2>1. rest[1] = Blank
        BY <1>7, <1>8, <1>9, FirstOfJoined
    <2> QED BY <1>7, <1>8, <2>1, ConcatType DEF EndsAt
<1>11. text = p \o rest
    <2>1. (p \o one) \o body = p \o (one \o body)
        BY <1>7, <1>8, ThreeParts
    <2> QED BY <1>6, <2>1 DEF Join
<1>12. Prefix(m) \in Text
    BY <1>6, <1>7, <1>8, ConcatType DEF Text
<1> HIDE DEF rest
<1>13. /\ p \o rest \in Seq(Characters) /\ p \o rest # <<>> /\ (p \o rest)[1] = Colon
       /\ Before(p \o rest, {Blank}) = p /\ Drop(p \o rest, Len(p)) = rest
    BY <1>4, <1>8, <1>10, FirstOfJoined, ConcatType, BeforeBehind, JoinedParts
<1> HIDE DEF text
<1>14. text # <<>> /\ Head(text) = Colon /\ Before(text, {Blank}) = p /\ Drop(text, Len(p)) = rest
    <2>1. text \in Seq(Characters) /\ text # <<>> /\ text[1] = Colon
        BY <1>11, <1>13
    <2>2. Head(text) = text[1]
        BY <2>1
    <2> QED BY <1>11, <1>13, <2>1, <2>2
<1>15. InitPrefix(text) = [name |-> m.name, user |-> m.user, host |-> m.host, rest |-> rest]
    BY <1>4, <1>5, <1>14, <1>unfold
<1> QED BY <1>12, <1>15 DEF text, rest, one

-----------------------------------------------------------------------------
\* A line, as it is read.

LEMMA ViewRead ==
    ASSUME NEW prefix, NEW command \in Text, Without(command, {Blank}),
           NEW after \in Text, EndsAt(after, {Blank})
    PROVE  View(prefix, Join(command, after)) =
            [name |-> prefix.name, user |-> prefix.user, host |-> prefix.host,
             command |-> command, params |-> Words(Before(after, {Colon})),
             trailing |-> TailOrNone(Drop(after, Len(Before(after, {Colon}))))]
<1> DEFINE text == Join(command, after)
<1>1. command \in Seq(Characters) /\ after \in Seq(Characters)
    BY DEF Text
<1>2. Before(text, {Blank}) = command /\ Drop(text, Len(command)) = after
    BY <1>1, BeforeBehind, JoinedParts DEF Join
<1> HIDE DEF text
<1>3. View(prefix, text) =
            [name |-> prefix.name, user |-> prefix.user, host |-> prefix.host,
             command |-> command, params |-> Words(Before(after, {Colon})),
             trailing |-> TailOrNone(Drop(after, Len(Before(after, {Colon}))))]
    BY <1>2 DEF View
<1> QED BY <1>3 DEF text

\* What from_chars makes of the line of m, in which the text after follows the command.
Got(m, after) ==
    [name |-> m.name, user |-> m.user, host |-> m.host,
     command |-> m.command, params |-> Words(Before(after, {Colon})),
     trailing |-> TailOrNone(Drop(after, Len(Before(after, {Colon}))))]

LEMMA TextOfLine ==
    ASSUME NEW text \in Text
    PROVE  LET line == Join(text, CrLf)
           IN  SubSeq(line, 1, Len(line) - Len(CrLf)) = text
<1> DEFINE n == Len(text)
           two == Len(CrLf)
           w == text \o CrLf
<1>1. text \in Seq(Characters) /\ CrLf \in Seq(Characters)
    BY CrLfFacts DEF Text
<1>2. n \in Nat /\ two \in Nat
    BY <1>1, LenProperties
<1>3. SubSeq(w, 1, n) = text
    BY <1>1, JoinedParts
<1>4. Len(w) = n + two
    BY <1>1, ConcatType
<1> HIDE DEF n, two, w
<1>5. Len(w) - two = n
    BY <1>2, <1>4
<1>6. SubSeq(w, 1, Len(w) - two) = text
    BY <1>3, <1>5
<1> QED BY <1>6 DEF w, two, Join

LEMMA LineRead ==
    ASSUME NEW m \in MessageType, Readable(m), m.command # <<>>,
           NEW after \in Text, EndsAt(after, {Blank})
    PROVE  FromChars(Join(Join(Prefix(m), Join(m.command, after)), CrLf)) = Got(m, after)
<1> DEFINE body == Join(m.command, after)
           text == Join(Prefix(m), body)
           line == Join(text, CrLf)
           prefix == InitPrefix(text)
<1>1. /\ m.command \in Seq(Characters) /\ m.command \in Text /\ after \in Seq(Characters)
      /\ Without(m.command, {Blank})
    BY ReadableParts DEF Text
<1>2. 1 \in 1..Len(m.command) /\ m.command[1] # Blank
    <2>1. 1 \in 1..Len(m.command)
        BY <1>1, NotEmptySeq
    <2> QED BY <1>1, <2>1 DEF Without
<1>3. body \in Seq(Characters) /\ body # <<>> /\ body[1] = m.command[1]
    BY <1>1, FirstOfJoined, ConcatType DEF Join
<1>4. \A p : p.name = m.name /\ p.user = m.user /\ p.host = m.host => View(p, body) = Got(m, after)
    BY <1>1, ViewRead DEF Got
<1> HIDE DEF body
<1>body. body \in Text
    BY <1>3 DEF Text
<1>5. CASE m.name = None
    <2>1. text = body
        <3>1. Prefix(m) = <<>>
            BY <1>5 DEF Prefix
        <3>2. <<>> \o body = body
            BY <1>3, ConcatEmptySeq
        <3> QED BY <3>1, <3>2 DEF Join
    <2>2. Head(text) # Colon
        <3>1. m.command[1] # Colon
            BY <1>5, ReadableParts
        <3> QED BY <1>3, <2>1, <3>1
    <2>3. m.user = None /\ m.host = None
        BY <1>5, ReadableParts
    <2>4. SubSeq(line, 1, Len(line) - Len(CrLf)) = text
        <3>1. text \in Text
            BY <1>body, <2>1
        <3> HIDE DEF text
        <3> QED BY <3>1, TextOfLine
    <2> HIDE DEF text, line
    <2>5. InitPrefix(text) = [name |-> None, user |-> None, host |-> None, rest |-> text]
        <3> DEFINE e == <<>>
                   C == {"!", "@"}
                   E == {"@"}
        <3>1. /\ Before(e, C) = e /\ Before(e, E) = e /\ Drop(e, 0) = e /\ TailOrNone(e) = None
              /\ Len(e) = 0 /\ 0 + 0 = 0
            BY BeforeNothing
        <3>2. Drop(text, 0) = text
            BY <1>3, <2>1, DropAll
        <3>3. InitPrefix(text) =
                LET name == Before(e, C)
                    user == Before(Drop(e, Len(name)), E)
                IN  [name |-> TailOrNone(name), user |-> TailOrNone(user),
                     host |-> TailOrNone(Drop(e, Len(name) + Len(user))),
                     rest |-> Drop(text, Len(e))]
            BY <2>2 DEF InitPrefix
        <3> HIDE DEF e, C, E
        <3> QED BY <3>1, <3>2, <3>3
    <2>6. prefix.name = m.name /\ prefix.user = m.user /\ prefix.host = m.host
          /\ prefix.rest # <<>>
        BY <1>3, <1>5, <2>1, <2>3, <2>5
    <2>7. FromChars(line) = View(prefix, text)
        BY <1>5, <2>4, <2>6 DEF FromChars
    <2>8. View(prefix, text) = Got(m, after)
        BY <1>4, <2>1, <2>6
    <2> QED BY <2>7, <2>8 DEF line, text, body
<1>6. CASE m.name # None
    <2> DEFINE one == <<Blank>>
               rest == one \o body
               starts == {k \in DOMAIN rest : rest[k] # Blank}
    <2>1. /\ Prefix(m) \in Text
          /\ prefix = [name |-> m.name, user |-> m.user, host |-> m.host, rest |-> rest]
        BY <1>body, <1>6, PrefixRead
    <2>2. SubSeq(line, 1, Len(line) - Len(CrLf)) = text
        <3>1. text \in Text
            BY <1>3, <2>1, ConcatType DEF Text, Join
        <3> HIDE DEF text
        <3> QED BY <3>1, TextOfLine
    <2> HIDE DEF text, line
    <2>3. prefix.name = m.name /\ prefix.user = m.user /\ prefix.host = m.host
          /\ prefix.rest = rest
        BY <2>1
    <2>4. one \in Seq(Characters) /\ Len(one) = 1 /\ one[1] = Blank
        BY Members, OneType
    <2> HIDE DEF one
    <2>5. one # <<>> /\ rest # <<>> /\ rest \in Seq(Characters) /\ Drop(rest, 1) = body
        <3>1. one # <<>>
            <4>1. one \in Seq(Characters)
                BY <2>4
            <4>2. (one # <<>>) = (Len(one) > 0)
                BY <4>1, NotEmptySeq
            <4>3. Len(one) > 0
                BY <2>4
            <4> QED BY <4>2, <4>3
        <3>2. rest # <<>> /\ rest \in Seq(Characters)
            BY <1>3, <2>4, <3>1, FirstOfJoined, ConcatType
        <3>3. Drop(rest, Len(one)) = body
            BY <1>3, <2>4, JoinedParts
        <3> QED BY <2>4, <3>1, <3>2, <3>3
    <2>6. starts # {} /\ Min(starts) - 1 = 1
        <3> DEFINE a == Len(one)
                   b == Len(body)
        <3>1. /\ Len(rest) = a + b
              /\ \A k \in 1..a + b : rest[k] = IF k <= a THEN one[k] ELSE body[k - a]
            <4>1. one \in Seq(Characters)
                BY <2>4
            <4>2. body \in Seq(Characters)
                BY <1>3
            <4> QED BY <4>1, <4>2, ConcatElements
        <3>2. a = 1 /\ b \in Nat /\ b > 0 /\ DOMAIN rest = 1..Len(rest)
            BY <1>3, <2>4, <2>5, NotEmptySeq, LenProperties
        <3> HIDE DEF a, b, rest
        <3>3. /\ DOMAIN rest = 1..1 + b /\ 1 \in 1..a + b /\ 1 <= a
              /\ 2 \in 1..a + b /\ ~(2 <= a) /\ 2 - a = 1
            BY <3>1, <3>2
        <3>4. rest[1] = Blank /\ rest[2] = body[1]
            BY <2>4, <3>1, <3>3
        <3>5. 2 \in starts /\ 1 \notin starts /\ starts \subseteq Nat
            BY <1>2, <1>3, <3>2, <3>3, <3>4
        <3>6. starts \subseteq 1..1 + b
            BY <3>3
        <3> HIDE DEF starts
        <3>7. Min(starts) \in starts /\ \A k \in starts : Min(starts) <= k
            BY <3>5, MinFacts
        <3> DEFINE low == Min(starts)
        <3> HIDE DEF low
        <3>8. low \in 1..1 + b /\ low <= 2 /\ low # 1
            BY <3>5, <3>6, <3>7 DEF low
        <3>9. low = 2
            BY <3>2, <3>8
        <3> QED BY <3>5, <3>9 DEF low
    <2> HIDE DEF rest, prefix
    <2>7. Drop(rest, Min(starts) - 1) = body
        BY <2>5, <2>6
    <2>8. FromChars(line) = View(prefix, Drop(rest, Min(starts) - 1))
        <3>1. prefix = InitPrefix(SubSeq(line, 1, Len(line) - Len(CrLf)))
            BY <2>2 DEF prefix
        <3> QED BY <1>6, <2>3, <2>5, <2>6, <3>1 DEF FromChars
    <2>9. View(prefix, body) = Got(m, after)
        BY <1>4, <2>3
    <2> QED BY <2>7, <2>8, <2>9 DEF line, text, body
<1> QED BY <1>5, <1>6

-----------------------------------------------------------------------------
\* What follows the command, as it is written and read.

LEMMA GapFacts ==
    ASSUME NEW gap \in {<<Blank>>, <<Blank, Blank>>}
    PROVE  /\ gap \in Text /\ Len(gap) > 0 /\ Blanks(gap)
           /\ gap \in Seq(Characters \ {Colon}) /\ EndsAt(gap, {Blank})
<1> DEFINE S == Characters \ {Colon}
<1>1. Blank \in Characters /\ Blank \in S
    BY Members DEF Blank, Colon
<1> HIDE DEF S
<1>2. <<Blank>> \in Seq(S) /\ <<Blank, Blank>> \in Seq(S)
    BY <1>1, PairType, OneType
<1>3. <<Blank>> \in Text /\ <<Blank, Blank>> \in Text
    BY <1>1, PairType, OneType DEF Text
<1>4. Len(gap) \in {1, 2} /\ \A k \in 1..2 : k <= Len(gap) => gap[k] = Blank
    OBVIOUS
<1>5. Len(gap) > 0 /\ Blanks(gap) /\ gap[1] = Blank
    BY <1>4 DEF Blanks
<1> QED BY <1>2, <1>3, <1>5 DEF EndsAt, S

LEMMA NoColon ==
    ASSUME NEW s \in Seq(Characters \ {Colon})
    PROVE  s \in Text /\ Without(s, {Colon})
<1>1. s \in [1..Len(s) -> Characters \ {Colon}] /\ Len(s) \in Nat
    BY LenProperties
<1>2. \A k \in 1..Len(s) : s[k] \in Characters /\ s[k] # Colon
    BY <1>1
<1>3. s \in Seq(Characters)
    BY <1>1, <1>2, FunctionIsSequence
<1> QED BY <1>2, <1>3 DEF Text, Without

\* The first colon behind the parameters begins the text; what is before it is words.
LEMMA TailRead ==
    ASSUME NEW params, GoodParams(params), params \in Seq(Seq(Characters \ {Colon})),
           NEW gap \in Text, Len(gap) > 0, Blanks(gap), gap \in Seq(Characters \ {Colon}),
           NEW z \in Text, Without(z, {Colon}), EndsAt(z, {Blank}),
           NEW rest \in Text, EndsAt(rest, {Colon}), EndsAt(Join(z, rest), {Blank})
    PROVE  LET after == Join(Spread(gap, params), Join(z, rest))
           IN  /\ after \in Text /\ EndsAt(after, {Blank})
               /\ Words(Before(after, {Colon})) = params \o Words(z)
               /\ Drop(after, Len(Before(after, {Colon}))) = rest
<1> DEFINE spread == Spread(gap, params)
           front == spread \o z
           zrest == Join(z, rest)
           after == Join(spread, zrest)
<1>1. spread \in Text /\ Without(spread, {Colon})
    <2>1. spread \in Seq(Characters \ {Colon})
        BY SpreadType
    <2> HIDE DEF spread
    <2> QED BY <2>1, NoColon
<1>2. Words(front) = params \o Words(z)
    BY WordsOfParams
<1>3. zrest \in Text
    BY ConcatType DEF Join, Text
<1>4. EndsAt(spread \o zrest, {Blank})
    <2> HIDE DEF zrest
    <2>1. EndsAt(zrest, {Blank})
        BY DEF zrest
    <2> QED BY <1>3, <2>1, WordsOfParams
<1> HIDE DEF spread
<1>5. spread \in Seq(Characters) /\ z \in Seq(Characters) /\ rest \in Seq(Characters)
    BY <1>1 DEF Text
<1>6. front \in Seq(Characters) /\ Without(front, {Colon})
    BY <1>1, <1>5, WithoutJoined, ConcatType
<1>7. after = front \o rest
    BY <1>5, ThreeParts DEF Join
<1>8. after \in Text
    <2> HIDE DEF zrest
    <2> QED BY <1>1, <1>3, ConcatType DEF Join, Text
<1>9. EndsAt(after, {Blank})
    BY <1>4 DEF Join
<1> HIDE DEF front, zrest
<1>10. Before(front \o rest, {Colon}) = front /\ Drop(front \o rest, Len(front)) = rest
    BY <1>5, <1>6, BeforeBehind, JoinedParts
<1> HIDE DEF after
<1>11. Words(Before(after, {Colon})) = params \o Words(z)
       /\ Drop(after, Len(Before(after, {Colon}))) = rest
    BY <1>2, <1>7, <1>10
<1> QED BY <1>8, <1>9, <1>11 DEF after, zrest, spread

\* A line is the prefix, the command and what follows.
LEMMA LineParts ==
    ASSUME NEW p \in Text, NEW c \in Text, NEW f \in Text, NEW o \in Text
    PROVE  Join(Join(Join(Join(p, c), f), o), CrLf) = Join(Join(p, Join(c, Join(f, o))), CrLf)
<1>1. p \in Seq(Characters) /\ c \in Seq(Characters) /\ f \in Seq(Characters)
      /\ o \in Seq(Characters)
    BY DEF Text
<1>2. Join(Join(Join(p, c), f), o) = Join(p, Join(c, Join(f, o)))
    BY <1>1, FourJoined
<1> QED BY <1>2

LEMMA PartsOf ==
    ASSUME NEW m \in MessageType, NEW gap \in {<<Blank>>, <<Blank, Blank>>}
    PROVE  Prefix(m) \in Text /\ m.command \in Text /\ Spread(gap, m.params) \in Text
<1>1. HeaderIn(m, Characters) /\ Marks(Characters)
    BY MessageHeader
<1>2. Prefix(m) \in Seq(Characters)
    BY <1>1, PrefixType
<1>3. m.params \in Seq(Seq(Characters)) /\ gap \in Seq(Characters) /\ m.command \in Text
    BY GapFacts DEF MessageType, Text
<1>4. Spread(gap, m.params) \in Seq(Characters)
    BY <1>3, SpreadType
<1> QED BY <1>2, <1>3, <1>4 DEF Text

LEMMA ServerParts ==
    ASSUME NEW m \in MessageType, NEW gap \in {<<Blank>>, <<Blank, Blank>>}
    PROVE  LET z == IF m.trailing = None THEN <<>> ELSE gap
               rest == Optional(Colon, m.trailing)
           IN  ServerLine(m, gap)
                 = Join(Join(Prefix(m), Join(m.command, Join(Spread(gap, m.params),
                                                             Join(z, rest)))), CrLf)
<1> DEFINE z == IF m.trailing = None THEN <<>> ELSE gap
           rest == Optional(Colon, m.trailing)
           last == IF m.trailing = None THEN <<>> ELSE gap \o <<Colon>> \o m.trailing
           f == Spread(gap, m.params)
           p == Prefix(m)
           c == m.command
<1>1. p \in Text /\ c \in Text /\ f \in Text
    BY PartsOf
<1>2. gap \in Seq(Characters) /\ m.trailing \in Seq(Characters) \cup {None}
    BY GapFacts DEF MessageType, Text
<1>3. Colon \in Characters
    BY Members
<1>4. last = Join(z, rest) /\ last \in Text
    <2>1. CASE m.trailing = None
        <3>1. last = <<>> /\ z = <<>> /\ rest = <<>> /\ <<>> \in Seq(Characters)
            BY <2>1 DEF Optional
        <3> HIDE DEF last, z, rest
        <3>2. <<>> \o <<>> = <<>>
            BY <3>1, ConcatEmptySeq
        <3> QED BY <3>1, <3>2 DEF Join, Text
    <2>2. CASE m.trailing # None
        <3> DEFINE t == m.trailing
                   one == <<Colon>>
        <3>1. last = (gap \o one) \o t /\ z = gap /\ rest = one \o t
            BY <2>2 DEF Optional
        <3>2. one \in Seq(Characters) /\ t \in Seq(Characters)
            BY <1>2, <1>3, <2>2, OneType
        <3> HIDE DEF last, z, rest, one, t
        <3>3. (gap \o one) \o t = gap \o (one \o t)
            BY <1>2, <3>2, ThreeParts
        <3>4. one \o t \in Seq(Characters)
            BY <3>2, ConcatType
        <3>5. gap \o (one \o t) \in Seq(Characters)
            BY <1>2, <3>4, ConcatType
        <3> QED BY <3>1, <3>3, <3>5 DEF Join, Text
    <2> QED BY <2>1, <2>2
<1>5. ServerLine(m, gap) = Join(Join(Join(Join(p, c), f), last), CrLf)
    BY DEF ServerLine, Spread, Join
<1> HIDE DEF p, c, f, last, z, rest
<1>6. ServerLine(m, gap) = Join(Join(p, Join(c, Join(f, last))), CrLf)
    BY <1>1, <1>4, <1>5, LineParts
<1> QED BY <1>4, <1>6 DEF p, c, f, z, rest

LEMMA ClientParts ==
    ASSUME NEW m \in MessageType, NEW t \in Text \cup {None}
    PROVE  EncodeTo(m, t)
             = Join(Join(Prefix(m), Join(m.command, Join(Spread(<<Blank>>, m.params),
                                                         Optional(Blank, t)))), CrLf)
<1> DEFINE o == Optional(Blank, t)
           f == Spread(<<Blank>>, m.params)
           p == Prefix(m)
           c == m.command
<1>1. p \in Text /\ c \in Text /\ f \in Text
    BY PartsOf
<1>2. o \in Text
    BY Members, OptionalFacts DEF Text
<1>3. EncodeTo(m, t) = Join(Join(Join(Join(p, c), f), o), CrLf)
    BY DEF EncodeTo, Spread, Join
<1> HIDE DEF p, c, f, o
<1>4. EncodeTo(m, t) = Join(Join(p, Join(c, Join(f, o))), CrLf)
    BY <1>1, <1>2, <1>3, LineParts
<1> QED BY <1>4 DEF p, c, f, o

-----------------------------------------------------------------------------
\* The lines of a server and of encode, read back.

LEMMA ServerRead ==
    ASSUME NEW m \in MessageType, Readable(m), m.command # <<>>,
           NEW gap \in {<<Blank>>, <<Blank, Blank>>}
    PROVE  FromChars(ServerLine(m, gap)) = m
<1> DEFINE z == IF m.trailing = None THEN <<>> ELSE gap
           rest == Optional(Colon, m.trailing)
           after == Join(Spread(gap, m.params), Join(z, rest))
           words == Words(Before(after, {Colon}))
           tail == Drop(after, Len(Before(after, {Colon})))
<1>1. /\ m.params \in Seq(Text) /\ GoodParams(m.params)
      /\ m.params \in Seq(Seq(Characters \ {Colon})) /\ m.trailing \in Text \cup {None}
    BY ReadableParts
<1>2. /\ gap \in Text /\ Len(gap) > 0 /\ Blanks(gap)
      /\ gap \in Seq(Characters \ {Colon}) /\ EndsAt(gap, {Blank})
    BY GapFacts
<1>3. /\ rest \in Text /\ TailOrNone(rest) = m.trailing /\ EndsAt(rest, {Colon})
      /\ m.trailing = None => rest = <<>>
    BY <1>1, Members, OptionalFacts DEF Text, Optional
<1> HIDE DEF rest
<1>4. /\ z \in Text /\ Without(z, {Colon}) /\ EndsAt(z, {Blank}) /\ Words(z) = <<>>
      /\ EndsAt(Join(z, rest), {Blank})
    <2>1. CASE m.trailing = None
        <3>1. z = <<>> /\ rest = <<>> /\ <<>> \in Seq(Characters)
            BY <1>3, <2>1
        <3> HIDE DEF z
        <3>2. <<>> \o <<>> = <<>>
            BY <3>1, ConcatEmptySeq
        <3> QED BY <3>1, <3>2, WordsOfNone, NoneOfNothing DEF Join, Text, Without, EndsAt
    <2>2. CASE m.trailing # None
        <3>1. z = gap
            BY <2>2
        <3> HIDE DEF z
        <3>2. gap \in Seq(Characters) /\ rest \in Seq(Characters)
            BY <1>2, <1>3 DEF Text
        <3>3. gap # <<>> /\ gap[1] = Blank
            <4>1. gap # <<>>
                BY <1>2, <3>2, NotEmptySeq
            <4> QED BY <1>2, <4>1 DEF EndsAt
        <3>4. (gap \o rest)[1] = gap[1]
            BY <3>2, <3>3, FirstOfJoined
        <3>5. EndsAt(Join(z, rest), {Blank})
            BY <3>1, <3>3, <3>4 DEF EndsAt, Join
        <3>6. Words(gap) = <<>>
            BY <1>2, WordsOfBlanks
        <3>7. Without(gap, {Colon})
            BY <1>2, NoColon
        <3> QED BY <1>2, <3>1, <3>5, <3>6, <3>7
    <2> QED BY <2>1, <2>2
<1> HIDE DEF z
<1>5. after \in Text /\ EndsAt(after, {Blank}) /\ words = m.params \o <<>> /\ tail = rest
    <2> DEFINE params == m.params
    <2>1. /\ GoodParams(params) /\ params \in Seq(Seq(Characters \ {Colon}))
        BY <1>1
    <2> HIDE DEF params
    <2>2. LET a == Join(Spread(gap, params), Join(z, rest))
          IN  /\ a \in Text /\ EndsAt(a, {Blank})
              /\ Words(Before(a, {Colon})) = params \o Words(z)
              /\ Drop(a, Len(Before(a, {Colon}))) = rest
        <3>1. z \in Text /\ Without(z, {Colon}) /\ EndsAt(z, {Blank})
            BY <1>4
        <3>2. rest \in Text /\ EndsAt(rest, {Colon}) /\ EndsAt(Join(z, rest), {Blank})
            BY <1>3, <1>4
        <3> HIDE DEF after
        <3> QED BY <1>2, <2>1, <3>1, <3>2, TailRead
    <2> QED BY <1>4, <2>2 DEF params
<1>6. m.params \o <<>> = m.params
    BY <1>1, ConcatEmptySeq
<1>7. ServerLine(m, gap) = Join(Join(Prefix(m), Join(m.command, after)), CrLf)
    BY ServerParts DEF z, rest
<1> HIDE DEF after
<1>8. FromChars(Join(Join(Prefix(m), Join(m.command, after)), CrLf)) = Got(m, after)
    BY <1>5, LineRead
<1>9. Got(m, after) = [name |-> m.name, user |-> m.user, host |-> m.host,
                       command |-> m.command, params |-> m.params, trailing |-> m.trailing]
    BY <1>3, <1>5, <1>6 DEF Got
<1>10. m = [name |-> m.name, user |-> m.user, host |-> m.host,
            command |-> m.command, params |-> m.params, trailing |-> m.trailing]
    BY DEF MessageType
<1> QED BY <1>7, <1>8, <1>9, <1>10

LEMMA FrontOfJoined ==
    ASSUME NEW S, NEW s \in Seq(S), NEW t \in Seq(S)
    PROVE  IsPrefix(s, s \o t)
<1>1. s \o t \in Seq(S) /\ Len(s \o t) = Len(s) + Len(t) /\ Len(s) \in Nat /\ Len(t) \in Nat
    BY ConcatType, LenProperties
<1>2. SubSeq(s \o t, 1, Len(s)) = s
    BY JoinedParts
<1>3. SubSeq(s, 1, Len(s)) = s
    <2> DEFINE x == SubSeq(s, 1, Len(s))
    <2>1. Len(s) \in 0..Len(s)
        BY <1>1
    <2>2. x \in Seq(S) /\ Len(x) = Len(s) /\ \A k \in 1..Len(s) : x[k] = s[k]
        BY <2>1, FrontFacts
    <2> HIDE DEF x
    <2>3. x = s
        BY <2>2, SeqEqual
    <2> QED BY <2>3 DEF x
<1> DEFINE w == s \o t
<1>4. Len(s) <= Len(w) /\ SubSeq(w, 1, Len(s)) = SubSeq(s, 1, Len(s))
    BY <1>1, <1>2, <1>3
<1> HIDE DEF w
<1>5. IsPrefix(s, w)
    BY <1>4 DEF IsPrefix
<1> QED BY <1>5 DEF w

\* A colon in the text begins what is read as the text; what is before it is read as
\* more parameters.
LEMMA ClientRead ==
    ASSUME NEW m \in MessageType, Readable(m), m.command # <<>>, NEW t \in Text \cup {None}
    PROVE  LET got == FromChars(EncodeTo(m, t))
           IN  /\ [got EXCEPT !.params = m.params, !.trailing = m.trailing] = m
               /\ IsPrefix(m.params, got.params)
<1> DEFINE o == Optional(Blank, t)
           z == Before(o, {Colon})
           rest == Drop(o, Len(z))
           gap == <<Blank>>
           after == Join(Spread(gap, m.params), o)
           words == Words(Before(after, {Colon}))
           tail == Drop(after, Len(Before(after, {Colon})))
<1>1. /\ m.params \in Seq(Text) /\ GoodParams(m.params)
      /\ m.params \in Seq(Seq(Characters \ {Colon})) /\ m.trailing \in Text \cup {None}
    BY ReadableParts
<1>2. /\ gap \in Text /\ Len(gap) > 0 /\ Blanks(gap) /\ gap \in Seq(Characters \ {Colon})
    BY GapFacts
<1>3. o \in Seq(Characters) /\ EndsAt(o, {Blank})
    BY Members, OptionalFacts
<1>4. EncodeTo(m, t) = Join(Join(Prefix(m), Join(m.command, after)), CrLf)
    BY ClientParts
<1> HIDE DEF o, gap
<1>5. PICK n \in 0..Len(o) :
        /\ z \in Seq(Characters) /\ Len(z) = n
        /\ z = SubSeq(o, 1, n)
        /\ \A k \in 1..n : z[k] = o[k] /\ o[k] # Colon
        /\ n < Len(o) => o[n + 1] = Colon
    BY <1>3, BeforeFacts
<1>6. n \in Nat /\ Len(o) \in Nat
    BY <1>3, LenProperties
<1>7. /\ rest \in Seq(Characters) /\ Len(rest) = Len(o) - n
      /\ \A k \in 1..Len(o) - n : rest[k] = o[n + k]
    BY <1>3, <1>5, DropFacts
<1>8. o = z \o rest
    BY <1>3, <1>5, SplitAt
<1> HIDE DEF z, rest
<1>9. z \in Text /\ Without(z, {Colon}) /\ EndsAt(z, {Blank})
    <2>1. Without(z, {Colon})
        BY <1>5 DEF Without
    <2>2. CASE z = <<>>
        BY <1>5, <2>1, <2>2 DEF Text, EndsAt
    <2>3. CASE z # <<>>
        <3>1. n > 0
            BY <1>5, <2>3, NotEmptySeq
        <3>2. z[1] = o[1]
            BY <1>5, <1>6, <3>1
        <3>3. o # <<>>
            <4>1. Len(o) > 0
                BY <1>5, <1>6, <3>1
            <4> QED BY <1>3, <4>1, NotEmptySeq
        <3> QED BY <1>3, <1>5, <2>1, <3>2, <3>3 DEF Text, EndsAt
    <2> QED BY <2>2, <2>3
<1>10. rest \in Text /\ EndsAt(rest, {Colon})
    <2>1. CASE rest = <<>>
        BY <1>7, <2>1 DEF Text, EndsAt
    <2>2. CASE rest # <<>>
        <3>1. Len(rest) > 0
            BY <1>7, <2>2, NotEmptySeq
        <3>2. n < Len(o) /\ 1 \in 1..Len(o) - n
            BY <1>6, <1>7, <3>1
        <3> QED BY <1>5, <1>7, <3>2 DEF Text, EndsAt
    <2> QED BY <2>1, <2>2
<1>11. after = Join(Spread(gap, m.params), Join(z, rest)) /\ EndsAt(Join(z, rest), {Blank})
    BY <1>3, <1>8 DEF Join
<1>12. after \in Text /\ EndsAt(after, {Blank}) /\ words = m.params \o Words(z)
    <2> DEFINE params == m.params
    <2>1. /\ GoodParams(params) /\ params \in Seq(Seq(Characters \ {Colon}))
        BY <1>1
    <2> HIDE DEF params
    <2>2. LET a == Join(Spread(gap, params), Join(z, rest))
          IN  /\ a \in Text /\ EndsAt(a, {Blank})
              /\ Words(Before(a, {Colon})) = params \o Words(z)
        BY <1>2, <1>9, <1>10, <1>11, <2>1, TailRead
    <2> HIDE DEF after
    <2> QED BY <1>11, <2>2 DEF params
<1> HIDE DEF after
<1>13. FromChars(Join(Join(Prefix(m), Join(m.command, after)), CrLf)) = Got(m, after)
    BY <1>12, LineRead
<1>14. Words(z) \in Seq(Text)
    BY <1>9, WordsType
<1>15. IsPrefix(m.params, m.params \o Words(z))
    BY <1>1, <1>14, FrontOfJoined
<1> DEFINE got == Got(m, after)
<1>16. /\ got = [name |-> m.name, user |-> m.user, host |-> m.host, command |-> m.command,
                 params |-> words, trailing |-> TailOrNone(tail)]
       /\ got.params = words
    BY DEF Got
<1>17. [got EXCEPT !.params = m.params, !.trailing = m.trailing]
         = [name |-> m.name, user |-> m.user, host |-> m.host,
            command |-> m.command, params |-> m.params, trailing |-> m.trailing]
    <2> DEFINE last == TailOrNone(tail)
               q == m.params
               u == m.trailing
               one == [got EXCEPT !.params = q]
    <2>1. got = [name |-> m.name, user |-> m.user, host |-> m.host, command |-> m.command,
                 params |-> words, trailing |-> last]
        BY <1>16
    <2>2. [got EXCEPT !.params = q, !.trailing = u] = [one EXCEPT !.trailing = u]
        <3> HIDE DEF got, q, u
        <3> QED OBVIOUS
    <2> HIDE DEF got, words, last, q, u
    <2>3. one = [name |-> m.name, user |-> m.user, host |-> m.host, command |-> m.command,
                 params |-> q, trailing |-> last]
        BY <2>1
    <2> HIDE DEF one
    <2>4. [one EXCEPT !.trailing = u]
            = [name |-> m.name, user |-> m.user, host |-> m.host, command |-> m.command,
               params |-> q, trailing |-> u]
        BY <2>3
    <2> QED BY <2>2, <2>4 DEF q, u
<1>18. m = [name |-> m.name, user |-> m.user, host |-> m.host,
            command |-> m.command, params |-> m.params, trailing |-> m.trailing]
    BY DEF MessageType
<1> QED BY <1>4, <1>12, <1>13, <1>15, <1>16, <1>17, <1>18

\* A line without a command is its prefix: an empty line is refused, and on a prefix
\* alone from_chars throws.
LEMMA EmptyRead ==
    ASSUME NEW m \in MessageType, Readable(m)
    PROVE  FromChars(Join(Prefix(m), CrLf)) = IF m.name = None THEN Refused ELSE Thrown
<1> DEFINE p == Prefix(m)
           line == Join(p, CrLf)
           prefix == InitPrefix(p)
           rest == prefix.rest
           starts == {k \in DOMAIN rest : rest[k] # Blank}
<1>1. p \in Text
    <2>1. HeaderIn(m, Characters) /\ Marks(Characters)
        BY MessageHeader
    <2> QED BY <2>1, PrefixType DEF Text
<1>2. SubSeq(line, 1, Len(line) - Len(CrLf)) = p
    <2> HIDE DEF p
    <2> QED BY <1>1, TextOfLine
<1> HIDE DEF line
<1>3. /\ rest = <<>> => FromChars(line) = Refused
      /\ rest # <<>> /\ prefix.name # None /\ starts = {} => FromChars(line) = Thrown
    <2>1. prefix = InitPrefix(SubSeq(line, 1, Len(line) - Len(CrLf)))
        BY <1>2
    <2> HIDE DEF prefix
    <2> QED BY <2>1 DEF FromChars
<1>4. CASE m.name = None
    <2>1. p = <<>>
        BY <1>4 DEF Prefix
    <2> DEFINE e == <<>>
               C == {"!", "@"}
               E == {"@"}
    <2>2. /\ Before(e, C) = e /\ Before(e, E) = e /\ Drop(e, 0) = e /\ TailOrNone(e) = None
          /\ Len(e) = 0 /\ 0 + 0 = 0
        BY BeforeNothing
    <2>3. InitPrefix(e) =
            LET name == Before(e, C)
                user == Before(Drop(e, Len(name)), E)
            IN  [name |-> TailOrNone(name), user |-> TailOrNone(user),
                 host |-> TailOrNone(Drop(e, Len(name) + Len(user))),
                 rest |-> Drop(e, Len(e))]
        BY DEF InitPrefix
    <2>4. prefix = InitPrefix(e)
        BY <2>1
    <2> HIDE DEF e, C, E, prefix
    <2>5. rest = e
        BY <2>2, <2>3, <2>4
    <2> QED BY <1>3, <1>4, <2>5 DEF line, e
<1>5. CASE m.name # None
    <2> DEFINE e == <<>>
               one == <<Blank>>
    <2>1. e \in Text /\ e \in Seq(Characters) /\ one \in Seq(Characters) /\ Len(one) = 1
          /\ one[1] = Blank /\ DOMAIN one = {1} /\ one # <<>>
        BY Members, OneType DEF Text
    <2>2. Join(p, e) = p
        <3> HIDE DEF p
        <3> QED BY <1>1, ConcatEmptySeq DEF Join, Text
    <2>3. one \o e = one
        <3> HIDE DEF one
        <3> QED BY <2>1, ConcatEmptySeq
    <2> HIDE DEF e
    <2>4. InitPrefix(Join(Prefix(m), e)) =
            [name |-> m.name, user |-> m.user, host |-> m.host, rest |-> one \o e]
        BY <1>5, <2>1, PrefixRead
    <2>5. prefix = [name |-> m.name, user |-> m.user, host |-> m.host, rest |-> one]
        BY <2>2, <2>3, <2>4
    <2> HIDE DEF prefix, one, p
    <2>6. rest = one /\ prefix.name # None
        BY <1>5, <2>5
    <2>7. starts = {}
        BY <2>1, <2>6
    <2> QED BY <1>3, <1>5, <2>1, <2>6, <2>7 DEF line, p
<1> QED BY <1>4, <1>5 DEF line

LEMMA NothingBehind ==
    ASSUME NEW p \in Text
    PROVE  Join(p, Join(<<>>, Join(<<>>, <<>>))) = p
<1> DEFINE e == <<>>
<1>1. e \in Seq(Characters) /\ p \in Seq(Characters)
    BY DEF Text
<1> HIDE DEF e
<1>2. e \o e = e /\ p \o e = p
    BY <1>1, ConcatEmptySeq DEF e
<1>3. Join(p, Join(e, Join(e, e))) = p
    BY <1>2 DEF Join
<1> QED BY <1>3 DEF e

LEMMA EmptyLines ==
    ASSUME NEW m \in MessageType, Readable(m), m.command = <<>>
    PROVE  /\ \A gap \in {<<Blank>>, <<Blank, Blank>>} :
                  ServerLine(m, gap) = Join(Prefix(m), CrLf)
           /\ EncodeTo(m, None) = Join(Prefix(m), CrLf)
<1> DEFINE e == <<>>
           p == Prefix(m)
<1>1. m.command = e /\ m.params = e /\ m.trailing = None
    BY ReadableParts
<1>2. p \in Text
    <2>1. HeaderIn(m, Characters) /\ Marks(Characters)
        BY MessageHeader
    <2> QED BY <2>1, PrefixType DEF Text
<1>3. Join(p, Join(e, Join(e, e))) = p
    <2> HIDE DEF p
    <2> QED BY <1>2, NothingBehind
<1>4. \A gap : Spread(gap, m.params) = e
    BY <1>1, SpreadNone
<1>5. \A mark : Optional(mark, None) = e
    BY DEF Optional
<1> HIDE DEF e, p
<1>6. ASSUME NEW gap \in {<<Blank>>, <<Blank, Blank>>}
      PROVE  ServerLine(m, gap) = Join(p, CrLf)
    <2> DEFINE z == IF m.trailing = None THEN <<>> ELSE gap
               rest == Optional(Colon, m.trailing)
    <2>1. z = e /\ rest = e
        BY <1>1, <1>5 DEF e
    <2>2. ServerLine(m, gap)
            = Join(Join(p, Join(m.command, Join(Spread(gap, m.params), Join(z, rest)))), CrLf)
        BY ServerParts DEF p
    <2> HIDE DEF z, rest
    <2>3. Join(e, e) = e
        BY ConcatEmptySeq DEF e, Join
    <2> QED BY <1>1, <1>3, <1>4, <2>1, <2>2, <2>3
<1>7. EncodeTo(m, None) = Join(p, CrLf)
    <2>1. EncodeTo(m, None)
            = Join(Join(p, Join(m.command, Join(Spread(<<Blank>>, m.params),
                                                Optional(Blank, None)))), CrLf)
        BY ClientParts DEF p
    <2> QED BY <1>1, <1>3, <1>4, <1>5, <2>1
<1> QED BY <1>6, <1>7 DEF p

LEMMA NotThrown == Thrown \notin MessageType \cup {Refused}
<1> DEFINE thrown == "out_of_range"
           refused == "no command in message"
<1>1. thrown # refused
    OBVIOUS
<1>2. Thrown = [error |-> thrown] /\ Refused = [error |-> refused]
    BY DEF Thrown, Refused
<1> HIDE DEF thrown, refused
<1>3. Thrown.error = thrown /\ Refused.error = refused /\ DOMAIN Thrown = {"error"}
    BY <1>2
<1>4. Thrown # Refused
    BY <1>1, <1>3
<1>5. \A m \in MessageType : "name" \in DOMAIN m
    BY DEF MessageType
<1> QED BY <1>3, <1>4, <1>5

\* The lines are those encode writes, or the one a server wrote.
LinesInv ==
    /\ origin = "server" =>
        /\ stage # "encoding"
        /\ \A n \in DOMAIN lines :
            \E gap \in {<<Blank>>, <<Blank, Blank>>} : lines[n] = ServerLine(msg, gap)
    /\ origin = "client" =>
        \A n \in DOMAIN lines : \E t \in Text \cup {None} :
            lines[n] = EncodeTo(msg, t) /\ (msg.trailing = None => t = None)

LEMMA InitLines == Init => LinesInv
<1> SUFFICES ASSUME Init PROVE LinesInv
    OBVIOUS
<1>1. CASE origin = "client" /\ lines = <<>>
    BY <1>1, NoneOfNothing DEF LinesInv
<1>2. CASE /\ origin = "server" /\ stage = "sent"
           /\ \E gap \in {<<Blank>>, <<Blank, Blank>>} : lines = <<ServerLine(msg, gap)>>
    <2>1. PICK gap \in {<<Blank>>, <<Blank, Blank>>} : lines = <<ServerLine(msg, gap)>>
        BY <1>2
    <2> DEFINE line == ServerLine(msg, gap)
    <2>2. lines = <<line>>
        BY <2>1
    <2> HIDE DEF line
    <2>3. DOMAIN lines = {1} /\ lines[1] = line
        BY <2>2
    <2>4. \A n \in DOMAIN lines :
            \E g \in {<<Blank>>, <<Blank, Blank>>} : lines[n] = ServerLine(msg, g)
        BY <2>3 DEF line
    <2> QED BY <1>2, <2>4 DEF LinesInv
<1> QED BY <1>1, <1>2 DEF Init

LEMMA NextLines == TypeOK /\ LinesInv /\ [Next]_vars => LinesInv'
<1> SUFFICES ASSUME TypeOK, LinesInv, [Next]_vars
             PROVE  LinesInv'
    OBVIOUS
<1>1. /\ msg \in MessageType /\ lines \in Seq(Text) /\ msg' = msg /\ origin' = origin
      /\ origin \in {"client", "server"}
    BY MessageParts, MessageStays DEF TypeOK
<1> DEFINE Client(l) == \E t \in Text \cup {None} :
                          l = EncodeTo(msg, t) /\ (msg.trailing = None => t = None)
           Server(l) == \E gap \in {<<Blank>>, <<Blank, Blank>>} : l = ServerLine(msg, gap)
<1>2. /\ origin = "server" => stage # "encoding" /\ \A n \in DOMAIN lines : Server(lines[n])
      /\ origin = "client" => \A n \in DOMAIN lines : Client(lines[n])
    BY DEF LinesInv
<1>3. /\ origin = "server" => stage' # "encoding" /\ \A n \in DOMAIN lines' : Server(lines'[n])
      /\ origin = "client" => \A n \in DOMAIN lines' : Client(lines'[n])
    <2> HIDE DEF Client, Server
    <2>1. CASE EncodeWithoutTrailing
        <3> DEFINE line == EncodeTo(msg, None)
        <3>1. lines' = <<line>> /\ stage = "encoding" /\ msg.trailing = None
            BY <2>1 DEF EncodeWithoutTrailing, Encoding
        <3>2. Client(line)
            BY <3>1 DEF Client
        <3> HIDE DEF line
        <3>3. DOMAIN lines' = {1} /\ lines'[1] = line
            BY <3>1
        <3> QED BY <1>2, <3>1, <3>2, <3>3
    <2>2. CASE EncodeLine
        <3> DEFINE line == EncodeTo(msg, CurTrailing)
                   n == Len(lines)
        <3>1. /\ lines' = Append(lines, line) /\ stage = "encoding" /\ msg.trailing # None
              /\ i < Len(msg.trailing)
            BY <2>2 DEF EncodeLine, Encoding
        <3>2. CurTrailing \in Text
            BY <1>1, <3>1, MessageParts, CurTrailingFacts DEF TypeOK
        <3>3. Client(line) /\ line \in Text
            BY <1>1, <3>1, <3>2, EncodeFacts DEF Client
        <3> HIDE DEF line
        <3>4. /\ n \in Nat /\ DOMAIN lines = 1..n /\ DOMAIN lines' = 1..n + 1
              /\ \A k \in 1..n : lines'[k] = lines[k]
              /\ lines'[n + 1] = line
            BY <1>1, <3>1, <3>3, AppendedLine
        <3>5. origin = "client" /\ \A k \in 1..n : Client(lines[k])
            BY <1>1, <1>2, <3>1, <3>4
        <3> HIDE DEF n
        <3>6. ASSUME NEW k \in 1..n + 1 PROVE Client(lines'[k])
            <4>1. k \in 1..n \/ k = n + 1
                BY <3>4
            <4> QED BY <3>3, <3>4, <3>5, <4>1
        <3> QED BY <3>4, <3>5, <3>6
    <2>3. CASE ~EncodeWithoutTrailing /\ ~EncodeLine
        <3>1. lines' = lines
            BY <2>3, MessageStays
        <3>2. stage' = "encoding" => stage = "encoding"
            BY DEF Next, EncodeWithoutTrailing, EncodeLine, SendLines, Read, TakeLine,
                   LeaveByException, writerVars, vars
        <3> QED BY <1>2, <3>1, <3>2
    <2> QED BY <2>1, <2>2, <2>3
<1> QED BY <1>1, <1>3 DEF LinesInv

\* However a line is cut into reads, from_chars gives back what encode was asked to
\* write but the text, in front of what more it takes for parameters, and every part of
\* what a server wrote, whatever number of blanks is between the parts; an empty line is
\* refused (message_view::from_chars).
THEOREM MessagesRead == Spec => []MessagesAreRead
<1>1. TypeOK /\ ReadInv /\ LinesInv => MessagesAreRead
    <2> SUFFICES ASSUME TypeOK, ReadInv, LinesInv, OneLine, Readable(msg),
                        NEW n \in DOMAIN received
                 PROVE  LET got == received[n] IN
                        \/ msg.command = <<>> /\ got = Refused
                        \/ msg.command # <<>> /\ origin = "server" /\ got = msg
                        \/ /\ msg.command # <<>> /\ origin = "client"
                           /\ [got EXCEPT !.params = msg.params, !.trailing = msg.trailing] = msg
                           /\ IsPrefix(msg.params, got.params)
        BY DEF MessagesAreRead
    <2>1. /\ msg \in MessageType /\ origin \in {"client", "server"}
          /\ received \in Seq(MessageType \cup {Refused}) /\ lines \in Seq(Text)
        BY MessageParts DEF TypeOK
    <2>2. n \in 1..Len(received) /\ Len(received) \in Nat /\ Len(lines) \in Nat
          /\ received[n] \in MessageType \cup {Refused}
        BY <2>1, LenProperties
    <2>3. received[n] = FromChars(lines[n]) /\ n \in DOMAIN lines
        <3>1. /\ Len(received) <= Len(lines)
              /\ \A k \in 1..Len(received) : received[k] = FromChars(lines[k])
            BY DEF ReadInv
        <3>2. DOMAIN lines = 1..Len(lines)
            BY <2>1, LenProperties
        <3> QED BY <2>2, <3>1, <3>2
    <2>4. Thrown \notin MessageType \cup {Refused}
        BY NotThrown
    <2>5. CASE origin = "server"
        <3>1. PICK gap \in {<<Blank>>, <<Blank, Blank>>} : lines[n] = ServerLine(msg, gap)
            BY <2>3, <2>5 DEF LinesInv
        <3>2. CASE msg.command = <<>>
            <4>1. lines[n] = Join(Prefix(msg), CrLf)
                BY <2>1, <3>1, <3>2, EmptyLines
            <4>2. received[n] = IF msg.name = None THEN Refused ELSE Thrown
                BY <2>1, <2>3, <4>1, EmptyRead
            <4> QED BY <2>2, <2>4, <3>2, <4>2
        <3>3. CASE msg.command # <<>>
            <4>1. received[n] = msg
                BY <2>1, <2>3, <3>1, <3>3, ServerRead
            <4> QED BY <2>5, <3>3, <4>1
        <3> QED BY <3>2, <3>3
    <2>6. CASE origin = "client"
        <3>1. PICK t \in Text \cup {None} :
                lines[n] = EncodeTo(msg, t) /\ (msg.trailing = None => t = None)
            BY <2>3, <2>6 DEF LinesInv
        <3>2. CASE msg.command = <<>>
            <4>1. t = None
                BY <2>1, <3>1, <3>2, ReadableParts
            <4>2. lines[n] = Join(Prefix(msg), CrLf)
                BY <2>1, <3>1, <3>2, <4>1, EmptyLines
            <4>3. received[n] = IF msg.name = None THEN Refused ELSE Thrown
                BY <2>1, <2>3, <4>2, EmptyRead
            <4> QED BY <2>2, <2>4, <3>2, <4>3
        <3>3. CASE msg.command # <<>>
            <4> DEFINE got == FromChars(EncodeTo(msg, t))
            <4>1. /\ [got EXCEPT !.params = msg.params, !.trailing = msg.trailing] = msg
                  /\ IsPrefix(msg.params, got.params)
                BY <2>1, <3>3, ClientRead
            <4>2. received[n] = got
                BY <2>3, <3>1
            <4> HIDE DEF got
            <4> QED BY <2>6, <3>3, <4>1, <4>2
        <3> QED BY <3>2, <3>3
    <2> QED BY <2>1, <2>5, <2>6
<1> QED BY <1>1, InitRead, NextRead, InitLines, NextLines, MessageTypes, PTL DEF Spec

=============================================================================
