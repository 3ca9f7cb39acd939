------------------------------ MODULE IrcMessage ------------------------------
(***************************************************************************)
(* The text of IRC messages: message::encode, which writes a message and   *)
(* spreads its last part over as many lines as it takes; the buffer of     *)
(* run_inner, which cuts lines out of what was read; and                   *)
(* message_view::from_chars, which reads a line.                           *)
(*                                                                         *)
(* A behaviour encodes one message and reads its lines again, as the other *)
(* end of a connection would, or reads one line of a server.  What is read *)
(* arrives in pieces of any size.                                          *)
(***************************************************************************)
EXTENDS Integers, Sequences, SequencesExt

CONSTANTS
    Characters,
    None,           \* a part that is not there
    Messages,       \* messages to encode,
    ServerMessages, \*   and messages a server writes
    Limit,          \* the size of a line and of the buffer, 512
    SizeMax,        \* sizes are counted modulo SizeMax, 2^64
    MaxLines        \* encode is given up after so many lines

Blank == " "
Colon == ":"
Linefeed == "\n"
CrLf == <<"\r", "\n">>

Text == Seq(Characters)

MessageType ==
    [name : Text \cup {None}, user : Text \cup {None}, host : Text \cup {None},
     command : Text, params : Seq(Text), trailing : Text \cup {None}]

ASSUME CharactersAssumption ==
    /\ Blank \in Characters /\ Colon \in Characters
    /\ ToSet(CrLf) \subseteq Characters
    /\ "!" \in Characters /\ "@" \in Characters
ASSUME MessagesAssumption ==
    \A m \in Messages \cup ServerMessages : m \in MessageType
ASSUME NoneAssumption == None \notin Text
ASSUME SizesAssumption == Limit \in Nat \ {0} /\ SizeMax \in Nat /\ Limit < SizeMax
ASSUME BoundsAssumption == MaxLines \in Nat

VARIABLES
    origin,     \* "client" when msg is encoded, "server" when a server wrote it
    msg,        \* the message
    i,          \* how much of its trailing is encoded
    lines,      \* ret: the lines so far
    stage,      \* encoding, sent, or thrown: from_chars has thrown
    wire,       \* what was sent and not yet read
    buffer,     \* m_incoming_buffer, up to m_incoming_buffer_usage
    received    \* what from_chars returned for each line

vars == <<origin, msg, i, lines, stage, wire, buffer, received>>

writerVars == <<origin, msg, i, lines>>

-----------------------------------------------------------------------------
\* message::encode_to.

Optional(mark, part) == IF part = None THEN <<>> ELSE <<mark>> \o part

Prefix(m) ==
    IF m.name = None THEN <<>>
    ELSE <<Colon>> \o m.name \o Optional("!", m.user) \o Optional("@", m.host) \o <<Blank>>

EncodeTo(m, trailing) ==
    Prefix(m) \o m.command
    \o FlattenSeq([k \in DOMAIN m.params |-> <<Blank>> \o m.params[k]])
    \o Optional(Blank, trailing) \o CrLf

\* The blank before the trailing is forgotten.
SizeOfHeaderAlone(m) == Len(EncodeTo(m, None))

SizeWithoutTrailing(m) == Len(EncodeTo(m, <<>>))

TrailingPerMessage(m) == (Limit - SizeWithoutTrailing(m)) % SizeMax

-----------------------------------------------------------------------------
\* message_view::from_chars.

\* The part of s before the first character of C, or all of it.
Before(s, C) ==
    LET stops == {k \in DOMAIN s : s[k] \in C}
    IN SubSeq(s, 1, IF stops = {} THEN Len(s) ELSE Min(stops) - 1)

Drop(s, n) == SubSeq(s, n + 1, Len(s))

TailOrNone(s) == IF s = <<>> THEN None ELSE Tail(s)

\* The user is looked for before the name ends.
InitPrefixByUser(text) ==
    LET prefix == IF text # <<>> /\ Head(text) = Colon
                  THEN Before(text, {Blank}) ELSE <<>>
        name   == Before(prefix, {"!"})
        user   == Before(Drop(prefix, Len(name)), {"@"})
    IN  [name |-> TailOrNone(name), user |-> TailOrNone(user),
         host |-> TailOrNone(Drop(prefix, Len(name) + Len(user))),
         rest |-> Drop(text, Len(prefix))]

\* init_prefix; blanks behind the prefix are left in rest.
InitPrefix(text) ==
    LET prefix == IF text # <<>> /\ Head(text) = Colon
                  THEN Before(text, {Blank}) ELSE <<>>
        name   == Before(prefix, {"!", "@"})
        user   == Before(Drop(prefix, Len(name)), {"@"})
    IN  [name |-> TailOrNone(name), user |-> TailOrNone(user),
         host |-> TailOrNone(Drop(prefix, Len(name) + Len(user))),
         rest |-> Drop(text, Len(prefix))]

\* The maximal runs of s without a blank: m_params as params() splits it.
Words(s) ==
    FlattenSeq([k \in DOMAIN s |->
        IF s[k] # Blank /\ (k = 1 \/ s[k - 1] = Blank)
        THEN <<Before(Drop(s, k - 1), {Blank})>> ELSE <<>>])

\* The blanks behind a prefix end where the command starts; without one, substr is
\* given npos and throws.
Thrown  == [error |-> "out_of_range"]
Refused == [error |-> "no command in message"]

\* init_command, init_params and init_trailing.
View(prefix, text) ==
    LET command == Before(text, {Blank})
        after   == Drop(text, Len(command))
        params  == Before(after, {Colon})
    IN  [name |-> prefix.name, user |-> prefix.user, host |-> prefix.host,
         command |-> command,
         params |-> Words(params),
         trailing |-> TailOrNone(Drop(after, Len(params)))]

FromChars(line) ==
    LET text   == SubSeq(line, 1, Len(line) - Len(CrLf))
        prefix == InitPrefix(text)
        starts == {k \in DOMAIN prefix.rest : prefix.rest[k] # Blank}
    IN  CASE prefix.rest = <<>> -> Refused
          [] prefix.rest # <<>> /\ prefix.name = None -> View(prefix, text)
          [] prefix.rest # <<>> /\ prefix.name # None /\ starts = {} -> Thrown
          [] OTHER -> View(prefix, Drop(prefix.rest, Min(starts) - 1))

-----------------------------------------------------------------------------
\* A line as servers write it, with one blank or more between its parts.
ServerLine(m, gap) ==
    Prefix(m) \o m.command
    \o FlattenSeq([k \in DOMAIN m.params |-> gap \o m.params[k]])
    \o (IF m.trailing = None THEN <<>> ELSE gap \o <<Colon>> \o m.trailing) \o CrLf

Init ==
    /\ i = 0
    /\ buffer = <<>> /\ received = <<>>
    /\ \/ /\ origin = "client" /\ msg \in Messages
          /\ stage = "encoding" /\ lines = <<>> /\ wire = <<>>
       \/ /\ origin = "server" /\ msg \in ServerMessages
          /\ stage = "sent"
          /\ \E gap \in {<<Blank>>, <<Blank, Blank>>} : lines = <<ServerLine(msg, gap)>>
          /\ wire = lines[1]

-----------------------------------------------------------------------------
\* message::encode, and send_message with what it returns.

Encoding == stage = "encoding"

EncodeWithoutTrailing ==
    /\ Encoding /\ msg.trailing = None
    /\ lines' = <<EncodeTo(msg, None)>>
    /\ wire' = lines'[1]
    /\ stage' = "sent"
    /\ UNCHANGED <<origin, msg, i, buffer, received>>

Rest == Drop(msg.trailing, i)

\* What goes into the next line: up to a linefeed, as much as there is room for.
CurTrailing ==
    LET part == Before(Rest, {Linefeed})
    IN  SubSeq(part, 1, IF Len(part) < TrailingPerMessage(msg)
                        THEN Len(part) ELSE TrailingPerMessage(msg))

\* The linefeed is not stepped over.
EncodeLineAgain ==
    /\ Encoding /\ msg.trailing # None
    /\ i < Len(msg.trailing)
    /\ Len(lines) < MaxLines
    /\ lines' = Append(lines, EncodeTo(msg, CurTrailing))
    /\ i' = i + Len(CurTrailing)
    /\ UNCHANGED <<origin, msg, stage, wire, buffer, received>>

\* A linefeed is taken for granted.
EncodeLineSkipping ==
    /\ Encoding /\ msg.trailing # None
    /\ i < Len(msg.trailing)
    /\ Len(lines) < MaxLines
    /\ lines' = Append(lines, EncodeTo(msg, CurTrailing))
    /\ i' = i + Len(CurTrailing) + 1
    /\ UNCHANGED <<origin, msg, stage, wire, buffer, received>>

\* One more is added to i when there is a linefeed anywhere in what is left.
EncodeLine ==
    /\ Encoding /\ msg.trailing # None
    /\ i < Len(msg.trailing)
    /\ Len(lines) < MaxLines
    /\ lines' = Append(lines, EncodeTo(msg, CurTrailing))
    /\ i' = i + Len(CurTrailing) + (IF Linefeed \in ToSet(Rest) THEN 1 ELSE 0)
    /\ UNCHANGED <<origin, msg, stage, wire, buffer, received>>

SendLines ==
    /\ Encoding /\ msg.trailing # None
    /\ i >= Len(msg.trailing)
    /\ wire' = FlattenSeq(lines)
    /\ stage' = "sent"
    /\ UNCHANGED <<writerVars, buffer, received>>

-----------------------------------------------------------------------------
\* The loop of irc_client::run_inner.

LineEnds == {k \in 2..Len(buffer) : SubSeq(buffer, k - 1, k) = CrLf}

\* The buffer is taken to be empty.
ReadPastEnd ==
    /\ stage = "sent"
    /\ LineEnds = {}
    /\ \E n \in 1..Limit :
        /\ n <= Len(wire)
        /\ buffer' = buffer \o SubSeq(wire, 1, n)
        /\ wire' = Drop(wire, n)
    /\ UNCHANGED <<writerVars, stage, received>>

\* The lines are taken out one by one before more is read; a full buffer without a
\* whole line leaves no room to read into.
Read ==
    /\ stage = "sent"
    /\ LineEnds = {}
    /\ \E n \in 1..Limit :
        /\ n <= Len(wire) /\ Len(buffer) + n <= Limit
        /\ buffer' = buffer \o SubSeq(wire, 1, n)
        /\ wire' = Drop(wire, n)
    /\ UNCHANGED <<writerVars, stage, received>>

\* What follows the first line in the buffer is thrown away.
TakeOnlyLine ==
    /\ stage = "sent"
    /\ LineEnds # {}
    /\ LET parsed == FromChars(SubSeq(buffer, 1, Min(LineEnds)))
       IN  /\ parsed # Thrown
           /\ received' = Append(received, parsed)
    /\ buffer' = <<>>
    /\ UNCHANGED <<writerVars, stage, wire>>

TakeLine ==
    /\ stage = "sent"
    /\ LineEnds # {}
    /\ LET parsed == FromChars(SubSeq(buffer, 1, Min(LineEnds)))
       IN  /\ parsed # Thrown
           /\ received' = Append(received, parsed)
    /\ buffer' = Drop(buffer, Min(LineEnds))
    /\ UNCHANGED <<writerVars, stage, wire>>

\* The exception leaves run_inner and ends the worker.
LeaveByException ==
    /\ stage = "sent"
    /\ LineEnds # {}
    /\ FromChars(SubSeq(buffer, 1, Min(LineEnds))) = Thrown
    /\ stage' = "thrown"
    /\ UNCHANGED <<writerVars, wire, buffer, received>>

-----------------------------------------------------------------------------
Next ==
    \/ EncodeWithoutTrailing \/ EncodeLine \/ SendLines
    \/ Read \/ TakeLine \/ LeaveByException

Spec == Init /\ [][Next]_vars

-----------------------------------------------------------------------------
TypeOK ==
    /\ origin \in {"client", "server"}
    /\ msg \in Messages \cup ServerMessages
    /\ i \in Nat
    /\ lines \in Seq(Text) /\ wire \in Text
    /\ buffer \in Text /\ Len(buffer) <= Limit
    /\ stage \in {"encoding", "sent", "thrown"}
    /\ received \in Seq(MessageType \cup {Refused})

\* There is room for text in a line behind the header.
HasRoom == origin = "client" /\ SizeWithoutTrailing(msg) < Limit

\* The texts of the lines that were encoded from a message with a trailing.
Chunks == [n \in DOMAIN lines |->
             SubSeq(lines[n], SizeWithoutTrailing(msg) - 1, Len(lines[n]) - 2)]

\* However long the text and wherever it is cut, no line is longer than a server
\* and the buffer of the other end take (message::encode).
LinesFit == HasRoom => \A n \in DOMAIN lines : Len(lines[n]) <= Limit

\* A stretch of s without a linefeed that is longer than a line, with a linefeed
\* somewhere behind it.
LongLineBeforeLinefeed(s) ==
    \E last \in DOMAIN s :
        LET first == last - TrailingPerMessage(msg)
        IN  /\ first >= 1
            /\ Linefeed \notin ToSet(SubSeq(s, first, last))
            /\ Linefeed \in ToSet(Drop(s, last))

WithoutLinefeeds(s) ==
    FlattenSeq([k \in DOMAIN s |-> IF s[k] = Linefeed THEN <<>> ELSE <<s[k]>>])

\* The lines hold the text without its linefeeds, nothing else is lost or doubled,
\* and each is one line (message::encode); but see the README on text with a long
\* line before another.
TextIsKept ==
    HasRoom /\ stage = "sent" /\ msg.trailing # None =>
        /\ \A n \in DOMAIN Chunks : Linefeed \notin ToSet(Chunks[n])
        /\ \/ FlattenSeq(Chunks) = WithoutLinefeeds(msg.trailing)
           \/ LongLineBeforeLinefeed(msg.trailing)

\* encode gets on with every line: there are no more of them than characters, so it
\* returns, unless the header takes up the whole line.  A message is never sent as no
\* line at all but for an empty text, as of the answer to a PING with an empty token.
EveryLineAdvances ==
    HasRoom /\ msg.trailing # None =>
        /\ Len(lines) <= i
        /\ stage = "sent" => ((lines = <<>>) = (msg.trailing = <<>>))

\* What is not the text of a message is in one line, and what a server writes is.
OneLine ==
    LET parts == {msg.name, msg.user, msg.host, msg.command} \cup ToSet(msg.params)
                 \cup (IF origin = "server" THEN {msg.trailing} ELSE {})
    IN  \A part \in parts : part # None => Linefeed \notin ToSet(part)

\* However the lines are cut into reads, they are taken out of the buffer in order,
\* whole, and each once (run_inner).
ReadInOrder ==
    OneLine /\ stage = "sent" =>
        /\ buffer \o wire = FlattenSeq(Drop(lines, Len(received)))
        /\ received = [n \in DOMAIN received |-> FromChars(lines[n])]

\* No character of C is in the part.
Free(part, C) == part = None \/ ToSet(part) \cap C = {}

\* The parts of m can be told apart in a line by what is between them.  A colon in a
\* parameter cannot: from_chars takes it to begin the text.
Readable(m) ==
    /\ Free(m.name, {Blank, "!", "@"}) /\ Free(m.user, {Blank, "@"}) /\ Free(m.host, {Blank})
    /\ m.name = None => m.user = None /\ m.host = None
    /\ Free(m.command, {Blank})
    /\ m.name = None /\ m.command # <<>> => Head(m.command) # Colon
    /\ m.command = <<>> => m.params = <<>> /\ m.trailing = None
    /\ \A param \in ToSet(m.params) : param # <<>> /\ Free(param, {Blank, Colon})

\* from_chars reads back what encode wrote but its text, and everything a server
\* wrote; an empty line is refused.
MessagesAreRead ==
    OneLine /\ Readable(msg) =>
        \A n \in DOMAIN received :
            LET got == received[n] IN
            \/ msg.command = <<>> /\ got = Refused
            \/ msg.command # <<>> /\ origin = "server" /\ got = msg
            \/ /\ msg.command # <<>> /\ origin = "client"
               /\ [got EXCEPT !.params = msg.params, !.trailing = msg.trailing] = msg
               /\ IsPrefix(msg.params, got.params)

\* "PRIVMSG #test :" (test/message.cpp): the text of a message follows a colon, so
\* that the other end reads it as the text.  See the README.
TextIsRead ==
    \A n \in DOMAIN received :
        origin = "client" /\ msg.trailing # None => received[n].trailing = Chunks[n]

=============================================================================
