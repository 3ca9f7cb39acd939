------------------------- MODULE TerminalSink_proofs -------------------------
(***************************************************************************)
(* The terminal and the thing it is a client of, for every number of       *)
(* connections, every size of the messages, of the header, of the queue    *)
(* and of what fits between the two ends: the types, and that the frames   *)
(* stay aligned, so that what is shown is what was handed over.            *)
(***************************************************************************)
EXTENDS TerminalSink, SequenceTheorems, TLAPS

Messages == 1..Len(Contents)

\* The bytes of the frame of message m.
Frame(m) == HeaderSize + Contents[m]

Bytes == (1..handed) \X Nat

-----------------------------------------------------------------------------
\* The inductive invariant

\* What a client took is what was sent to it, the message in hand and its queue.
Queued(c) ==
    LET sent == Len(accepted[c]) - Len(queue[c])
    IN  /\ stage[c] \in {"header", "content"} =>
            /\ sent \in 1..Len(accepted[c]) /\ hand[c] = accepted[c][sent]
            /\ \A j \in 1..Len(queue[c]) : queue[c][j] = accepted[c][sent + j]
        /\ stage[c] \notin {"header", "content", "failed"} => queue[c] = <<>>
        /\ stage[c] = "failed" => c \in gone
        /\ stage[c] \in {"none", "backlog"} =>
            accepted[c] = <<>> /\ wire[c] = <<>> /\ c \notin cut
        /\ stage[c] = "none" => c \notin gone

QueueInv == \A c \in Connections : Queued(c)

\* Where the frames of the messages of sequence a start in the stream of bytes, and
\* where the next one will.
Starts(off, a) ==
    /\ off \in [1..Len(a) + 1 -> Nat]
    /\ \A i \in 1..Len(a) : off[i + 1] = off[i] + Frame(a[i])
    /\ \A i \in 1..Len(a) : \A j \in i + 1..Len(a) + 1 : off[i] + Frame(a[i]) <= off[j]

\* Every byte that w holds, of which the first is byte r of the stream, is the one of
\* the frames.
Carries(w, r, off, a) ==
    \A i \in 1..Len(a) : \A k \in 1..Frame(a[i]) :
        off[i] + k - r \in 1..Len(w) => w[off[i] + k - r] = <<a[i], k>>

\* How much of the stream client_worker has written.
Written(c, off) ==
    LET sent == Len(accepted[c]) - Len(queue[c])
    IN  IF stage[c] = "header" THEN off[sent]
        ELSE IF stage[c] = "content" THEN off[sent] + HeaderSize
        ELSE off[Len(accepted[c]) + 1]

\* How much of it tcp_worker has read.
ReadSoFar(off) == off[Len(lines) + 1] + (IF where = "content" THEN HeaderSize ELSE 0)

\* What is on the wire is what was written and is not read.
Aligned(off) ==
    /\ Starts(off, accepted[conn])
    /\ Carries(wire[conn], ReadSoFar(off), off, accepted[conn])
    /\ IF stage[conn] = "closed"
       THEN ReadSoFar(off) + Len(wire[conn]) <= Written(conn, off)
       ELSE ReadSoFar(off) + Len(wire[conn]) = Written(conn, off)

\* What is shown, and the size that was read, while nothing was cut short.
ShownInv ==
    conn # 0 /\ conn \notin cut =>
        LET taken == accepted[conn]
        IN  /\ Len(lines) <= Len(taken)
            /\ \A i \in 1..Len(lines) : lines[i] = Content(taken[i])
            /\ where = "content" =>
                Len(lines) < Len(taken) /\ size = Contents[taken[Len(lines) + 1]]

StreamInv ==
    conn # 0 /\ conn \notin cut /\ sock = "connected" /\ where \in {"header", "content"}
        => \E off \in [1..Len(accepted[conn]) + 1 -> Nat] : Aligned(off)

\* The connection in use.
ConnInv ==
    /\ conn \in Nat
    /\ conn # 0 => conn \in Connections /\ stage[conn] # "none"
    /\ sock = "connected" => conn # 0 /\ conn \notin gone
    /\ where \in {"header", "content"} => conn # 0

-----------------------------------------------------------------------------
\* Lemmas about streams of frames

LEMMA FrameType ==
    ASSUME NEW m \in Messages
    PROVE  /\ Contents[m] \in Nat /\ Frame(m) \in Nat
           /\ HeaderSize \in Nat /\ HeaderSize > 0
           /\ Frame(m) = HeaderSize + Contents[m]
<1>1. Contents[m] \in Nat
    BY TrafficAssumption, ElementOfSeq DEF Messages
<1> QED BY <1>1, SizesAssumption DEF Frame

LEMMA StartsFacts ==
    ASSUME NEW a \in Seq(Messages), NEW off, Starts(off, a)
    PROVE  /\ Len(a) \in Nat
           /\ \A i \in 1..Len(a) + 1 : off[i] \in Nat
           /\ \A i \in 1..Len(a) : off[i] \in Nat
           /\ \A i \in 1..Len(a) : off[i + 1] = off[i] + Frame(a[i])
           /\ \A i \in 1..Len(a) : a[i] \in Messages /\ Frame(a[i]) \in Nat
           /\ \A i \in 1..Len(a) : \A j \in 1..Len(a) + 1 :
                i < j => off[i] + Frame(a[i]) <= off[j]
<1>1. Len(a) \in Nat
    BY LenProperties
<1>2. \A i \in 1..Len(a) : a[i] \in Messages /\ Frame(a[i]) \in Nat
    BY ElementOfSeq, FrameType
<1>3. /\ \A i \in 1..Len(a) + 1 : off[i] \in Nat
      /\ \A i \in 1..Len(a) : off[i + 1] = off[i] + Frame(a[i])
    BY DEF Starts
<1>4. \A i \in 1..Len(a) : \A j \in i + 1..Len(a) + 1 : off[i] + Frame(a[i]) <= off[j]
    BY DEF Starts
<1>5. ASSUME NEW i \in 1..Len(a), NEW j \in 1..Len(a) + 1, i < j
      PROVE  off[i] + Frame(a[i]) <= off[j]
    <2>1. j \in i + 1..Len(a) + 1
        BY <1>1, <1>5
    <2> QED BY <1>4, <2>1
<1>6. \A i \in 1..Len(a) : i \in 1..Len(a) + 1
    BY <1>1
<1> QED BY <1>1, <1>2, <1>3, <1>5, <1>6

\* Places in the stream: o and f are the start and the size of a frame, k a byte of
\* it, r how much of the stream is read, len what is on the wire.
LEMMA BeforeTheRead ==
    ASSUME NEW o \in Nat, NEW f \in Nat, NEW k \in 1..f, NEW r \in Nat, NEW len \in Nat,
           NEW n \in 0..len, o + k - (r + n) \in 1..len - n
    PROVE  /\ o + k - (r + n) \in Int
           /\ o + k - r \in 1..len /\ n + (o + k - (r + n)) = o + k - r
OBVIOUS

LEMMA TwoPlaces ==
    ASSUME NEW len \in Nat, NEW i \in 1..len, NEW j \in 1..len
    PROVE  i \in 1..len + 1 /\ j \in 1..len + 1 /\ (i < j \/ j < i \/ i = j)
OBVIOUS

LEMMA InTheFrame ==
    ASSUME NEW o \in Nat, NEW f \in Nat, NEW p \in Nat, NEW n \in Nat, p + n <= f,
           NEW r \in Nat, r = o + p, NEW k \in 1..n
    PROVE  p + k \in 1..f /\ o + (p + k) - r = k
OBVIOUS

LEMMA SameFrame ==
    ASSUME NEW o \in Nat, NEW f \in Nat, NEW q \in Nat, NEW g \in Nat,
           NEW p \in Nat, NEW n \in Nat, p + n <= f,
           NEW r \in Nat, NEW len \in Nat, r + len = o + p,
           NEW k \in 1..g, q + k - r \in 1..len + n, ~(q + k - r <= len)
    PROVE  /\ ~(q + g <= o) /\ ~(o + f <= q)
           /\ q = o => k - p \in 1..n /\ q + k - r - len = k - p /\ p + (k - p) = k
OBVIOUS

\* The n bytes of a frame that follow its first p.
Piece(m, p, n) == [k \in 1..n |-> <<m, p + k>>]

\* b is the part of a frame that follows its first p bytes.
PartOf(b, m, p) == \A k \in 1..Len(b) : b[k] = <<m, p + k>>

\* What is written next is carried after what is on the wire: part of a frame, that
\* goes on where the wire ends.
LEMMA WriteKeeps ==
    ASSUME NEW B, NEW a \in Seq(Messages), NEW off, Starts(off, a), NEW r \in Nat,
           NEW w \in Seq(B), NEW b \in Seq(B), NEW i \in 1..Len(a), NEW p \in Nat,
           p + Len(b) <= Frame(a[i]), r + Len(w) = off[i] + p,
           PartOf(b, a[i], p), Carries(w, r, off, a)
    PROVE  Carries(w \o b, r, off, a)
<1> DEFINE v == w \o b
<1>1. /\ Len(v) = Len(w) + Len(b) /\ Len(w) \in Nat /\ Len(b) \in Nat
      /\ \A x \in 1..Len(w) + Len(b) :
            v[x] = IF x <= Len(w) THEN w[x] ELSE b[x - Len(w)]
    BY ConcatProperties, LenProperties
<1> HIDE DEF v
<1> SUFFICES ASSUME NEW j \in 1..Len(a), NEW k \in 1..Frame(a[j]),
                    off[j] + k - r \in 1..Len(v)
             PROVE  v[off[j] + k - r] = <<a[j], k>>
    BY DEF Carries, v
<1> DEFINE x == off[j] + k - r
           o == off[i]
           q == off[j]
           f == Frame(a[i])
           g == Frame(a[j])
           lw == Len(w)
           lb == Len(b)
<1>2. /\ off[i] \in Nat /\ off[j] \in Nat /\ Frame(a[i]) \in Nat /\ Frame(a[j]) \in Nat
      /\ Len(a) \in Nat
    BY StartsFacts
<1>3. /\ o \in Nat /\ q \in Nat /\ f \in Nat /\ g \in Nat /\ lw \in Nat /\ lb \in Nat
      /\ k \in 1..g /\ x \in 1..lw + lb /\ p + lb <= f /\ r + lw = o + p
      /\ x = q + k - r
    BY <1>1, <1>2
<1> HIDE DEF x, o, q, f, g, lw, lb
<1>4. CASE x <= lw
    <2>1. x \in 1..lw
        BY <1>3, <1>4
    <2>2. w[x] = <<a[j], k>>
        BY <2>1 DEF Carries, x, lw
    <2> QED BY <1>1, <1>3, <1>4, <2>2 DEF x, lw, lb
<1>5. CASE ~(x <= lw)
    <2>1. /\ ~(q + g <= o) /\ ~(o + f <= q)
          /\ q = o => k - p \in 1..lb /\ x - lw = k - p /\ p + (k - p) = k
        BY <1>3, <1>5, SameFrame
    <2>2. /\ i \in 1..Len(a) + 1 /\ j \in 1..Len(a) + 1
          /\ i < j \/ j < i \/ i = j
        BY <1>2, TwoPlaces
    <2>3. /\ i < j => o + f <= q
          /\ j < i => q + g <= o
        BY <2>2, StartsFacts DEF o, q, f, g
    <2>4. j = i
        BY <2>1, <2>2, <2>3
    <2>5. b[k - p] = <<a[i], p + (k - p)>>
        BY <2>1, <2>4 DEF PartOf, q, o, lb
    <2>6. v[x] = b[x - lw]
        BY <1>1, <1>3, <1>5 DEF lw, lb
    <2>7. v[x] = <<a[j], k>>
        BY <2>1, <2>4, <2>5, <2>6 DEF q, o
    <2> QED BY <2>7 DEF x
<1> QED BY <1>4, <1>5

\* What is left after a read is carried from there.
LEMMA ReadKeeps ==
    ASSUME NEW B, NEW a \in Seq(Messages), NEW off, Starts(off, a), NEW r \in Nat,
           NEW w \in Seq(B), NEW n \in 0..Len(w), Carries(w, r, off, a)
    PROVE  /\ Carries(SubSeq(w, n + 1, Len(w)), r + n, off, a)
           /\ Len(SubSeq(w, n + 1, Len(w))) = Len(w) - n
           /\ SubSeq(w, n + 1, Len(w)) \in Seq(B)
<1> DEFINE v == SubSeq(w, n + 1, Len(w))
<1>1. Len(w) \in Nat
    BY LenProperties
<1>2. \A x \in n + 1..Len(w) : w[x] \in B
    BY <1>1, ElementOfSeq
<1>3. /\ v \in Seq(B)
      /\ Len(v) = IF n + 1 <= Len(w) THEN Len(w) - (n + 1) + 1 ELSE 0
      /\ \A x \in 1..Len(w) - (n + 1) + 1 : v[x] = w[(n + 1) + x - 1]
    BY <1>1, <1>2, SubSeqProperties
<1>4. Len(v) = Len(w) - n
    BY <1>1, <1>3
<1> HIDE DEF v
<1>5. ASSUME NEW x \in 1..Len(w) - n
      PROVE  v[x] = w[n + x]
    <2>1. x \in 1..Len(w) - (n + 1) + 1 /\ (n + 1) + x - 1 = n + x
        BY <1>1
    <2> QED BY <1>3, <2>1
<1>6. ASSUME NEW j \in 1..Len(a), NEW k \in 1..Frame(a[j]),
             off[j] + k - (r + n) \in 1..Len(v)
      PROVE  v[off[j] + k - (r + n)] = <<a[j], k>>
    <2>1. Frame(a[j]) \in Nat /\ off[j] \in Nat
        BY StartsFacts
    <2> DEFINE o == off[j]
               f == Frame(a[j])
               len == Len(w)
    <2>2. /\ o \in Nat /\ f \in Nat /\ len \in Nat /\ k \in 1..f /\ n \in 0..len
          /\ o + k - (r + n) \in 1..len - n
        BY <1>1, <1>4, <1>6, <2>1
    <2> HIDE DEF o, f, len
    <2>3. o + k - r \in 1..len /\ n + (o + k - (r + n)) = o + k - r
        BY <2>2, BeforeTheRead
    <2>4. w[o + k - r] = <<a[j], k>>
        BY <2>3 DEF Carries, o, len
    <2>5. v[o + k - (r + n)] = w[n + (o + k - (r + n))]
        BY <1>5, <2>2 DEF len
    <2> QED BY <2>3, <2>4, <2>5 DEF o
<1>7. Carries(v, r + n, off, a)
    BY <1>6 DEF Carries
<1> QED BY <1>3, <1>4, <1>7 DEF v

\* What a read returns is the part of the frame it starts in.
LEMMA ReadReturns ==
    ASSUME NEW B, NEW a \in Seq(Messages), NEW off, Starts(off, a), NEW r \in Nat,
           NEW w \in Seq(B), NEW n \in 0..Len(w), NEW i \in 1..Len(a), NEW p \in Nat,
           p + n <= Frame(a[i]), r = off[i] + p, Carries(w, r, off, a)
    PROVE  SubSeq(w, 1, n) = Piece(a[i], p, n)
<1>1. Len(w) \in Nat
    BY LenProperties
<1>2. Frame(a[i]) \in Nat /\ off[i] \in Nat
    BY StartsFacts
<1>3. ASSUME NEW k \in 1..n
      PROVE  w[k] = <<a[i], p + k>>
    <2>1. /\ p + k \in 1..Frame(a[i])
          /\ off[i] + (p + k) - r = k
        BY <1>1, <1>2, InTheFrame, SMTT(30)
    <2>2. k \in 1..Len(w)
        BY <1>1
    <2> QED BY <2>1, <2>2 DEF Carries
<1>4. SubSeq(w, 1, n) = [k \in 1..n |-> w[k]]
    <2>1. \A x \in 1..n : w[x] \in B
        BY <1>1, ElementOfSeq
    <2>2. /\ SubSeq(w, 1, n) \in Seq(B) /\ Len(SubSeq(w, 1, n)) = n
          /\ \A x \in 1..n : SubSeq(w, 1, n)[x] = w[1 + x - 1]
        BY <1>1, <2>1, SubSeqProperties
    <2>3. SubSeq(w, 1, n) \in [1..n -> B]
        BY <2>2, LenProperties
    <2> QED BY <2>2, <2>3
<1> QED BY <1>3, <1>4 DEF Piece

\* A message more: the frames start where they did, and the new one where the next
\* one would have.
LEMMA StartsGrow ==
    ASSUME NEW a \in Seq(Messages), NEW off, Starts(off, a), NEW m \in Messages
    PROVE  \E new \in [1..Len(Append(a, m)) + 1 -> Nat] :
                /\ Starts(new, Append(a, m))
                /\ \A i \in 1..Len(a) + 1 : new[i] = off[i]
<1> DEFINE b == Append(a, m)
           last == Len(a) + 1
           new == [i \in 1..last + 1 |->
                      IF i <= last THEN off[i] ELSE off[last] + Frame(m)]
<1>1. /\ Len(a) \in Nat /\ Len(b) = last /\ b[last] = m
      /\ \A i \in 1..Len(a) : b[i] = a[i]
    BY LenProperties, AppendProperties
<1>2. Frame(m) \in Nat
    BY FrameType
<1>3. /\ \A i \in 1..last : off[i] \in Nat
      /\ \A i \in 1..Len(a) : off[i + 1] = off[i] + Frame(a[i])
      /\ \A i \in 1..Len(a) : \A j \in 1..last : i < j => off[i] + Frame(a[i]) <= off[j]
      /\ \A i \in 1..Len(a) : Frame(a[i]) \in Nat
    BY StartsFacts
<1> HIDE DEF b
<1>5. /\ last \in Nat /\ new \in [1..last + 1 -> Nat]
      /\ \A i \in 1..last : new[i] = off[i]
      /\ new[last + 1] = off[last] + Frame(m)
    BY <1>1, <1>2, <1>3
<1> HIDE DEF new
<1>6. ASSUME NEW i \in 1..last
      PROVE  new[i + 1] = new[i] + Frame(b[i])
    <2>1. CASE i = last
        BY <1>1, <1>5, <2>1
    <2>2. CASE i # last
        <3>1. i \in 1..Len(a) /\ i + 1 \in 1..last
            BY <1>1, <2>2
        <3> QED BY <1>1, <1>3, <1>5, <3>1
    <2> QED BY <2>1, <2>2
<1>7. ASSUME NEW i \in 1..last, NEW j \in i + 1..last + 1
      PROVE  new[i] + Frame(b[i]) <= new[j]
    <2>1. CASE j = i + 1
        <3>1. new[j] = new[i] + Frame(b[i]) /\ new[j] \in Nat
            BY <1>5, <1>6, <2>1
        <3> QED BY <3>1
    <2>2. CASE j # i + 1 /\ j = last + 1
        <3>1. i \in 1..Len(a) /\ i \in 1..last /\ last \in 1..last /\ i < last
            BY <1>1, <2>2
        <3>2. /\ off[i] + Frame(a[i]) <= off[last]
              /\ off[i] \in Nat /\ off[last] \in Nat /\ Frame(a[i]) \in Nat
            BY <1>1, <1>3, <3>1
        <3>3. new[i] = off[i] /\ b[i] = a[i] /\ new[j] = off[last] + Frame(m)
            BY <1>1, <1>5, <2>2, <3>1
        <3> QED BY <1>2, <3>2, <3>3
    <2>3. CASE j # i + 1 /\ j # last + 1
        <3>1. i \in 1..Len(a) /\ j \in 1..last /\ i < j
            BY <1>1, <2>3
        <3>2. off[i] + Frame(a[i]) <= off[j]
            BY <1>3, <3>1
        <3> QED BY <1>1, <1>5, <3>1, <3>2
    <2> QED BY <2>1, <2>2, <2>3
<1>8. Starts(new, b) /\ new \in [1..Len(b) + 1 -> Nat]
    BY <1>1, <1>5, <1>6, <1>7 DEF Starts
<1> QED BY <1>5, <1>8 DEF b

\* What is on the wire is of the messages that were there before.
LEMMA CarriesGrow ==
    ASSUME NEW B, NEW a \in Seq(Messages), NEW off, Starts(off, a), NEW m \in Messages,
           NEW new, Starts(new, Append(a, m)),
           \A i \in 1..Len(a) + 1 : new[i] = off[i],
           NEW r \in Nat, NEW w \in Seq(B), r + Len(w) <= off[Len(a) + 1],
           Carries(w, r, off, a)
    PROVE  Carries(w, r, new, Append(a, m))
<1> DEFINE b == Append(a, m)
<1>1. /\ Len(a) \in Nat /\ Len(b) = Len(a) + 1 /\ Len(w) \in Nat
      /\ \A i \in 1..Len(a) : b[i] = a[i]
    BY LenProperties, AppendProperties
<1>2. off[Len(a) + 1] \in Nat
    BY <1>1 DEF Starts
<1>3. Frame(m) \in Nat /\ b[Len(a) + 1] = m
    BY FrameType, AppendProperties
<1> HIDE DEF b
<1> SUFFICES ASSUME NEW j \in 1..Len(b), NEW k \in 1..Frame(b[j]),
                    new[j] + k - r \in 1..Len(w)
             PROVE  w[new[j] + k - r] = <<b[j], k>>
    BY DEF Carries, b
<1>4. j # Len(a) + 1
    BY <1>1, <1>2, <1>3
<1>5. j \in 1..Len(a) /\ new[j] = off[j] /\ b[j] = a[j]
    BY <1>1, <1>4
<1> QED BY <1>5 DEF Carries

LEMMA LenDomain ==
    ASSUME NEW S, NEW s \in Seq(S), NEW n \in Nat, DOMAIN s = 1..n
    PROVE  Len(s) = n
<1>1. Len(s) \in Nat /\ DOMAIN s = 1..Len(s)
    BY LenProperties
<1>2. 1..Len(s) = 1..n
    BY <1>1
<1> QED BY <1>1, <1>2

LEMMA FunctionIsSeq ==
    ASSUME NEW S, NEW n \in Nat, NEW s \in [1..n -> S]
    PROVE  s \in Seq(S) /\ Len(s) = n
<1>1. s \in Seq(S)
    BY SeqDef
<1>2. DOMAIN s = 1..n
    OBVIOUS
<1> QED BY <1>1, <1>2, LenDomain

-----------------------------------------------------------------------------
\* The types

LEMMA Types ==
    ASSUME TypeOK
    PROVE  /\ handed \in Nat /\ handed <= Len(Contents) /\ Len(Contents) \in Nat
           /\ Bytes = (1..handed) \X Nat
           /\ \A m \in 1..handed : m \in Messages
           /\ \A c \in Connections :
                /\ stage[c] \in Stages /\ hand[c] \in 0..handed
                /\ queue[c] \in Seq(1..handed) /\ Len(queue[c]) \in Nat
                /\ wire[c] \in Seq(Bytes) /\ Len(wire[c]) \in Nat
                /\ accepted[c] \in Seq(1..handed) /\ Len(accepted[c]) \in Nat
                /\ accepted[c] \in Seq(Messages)
                /\ \A i \in 1..Len(accepted[c]) : accepted[c][i] \in 1..handed
           /\ lines \in Seq(Seq(Bytes)) /\ Len(lines) \in Nat
<1>1. ThingTypeOK /\ lines \in Seq(Seq((1..handed) \X Nat))
    BY DEF TypeOK
<1>2. handed \in 0..Len(Contents) /\ Len(Contents) \in Nat
    BY <1>1, TrafficAssumption, LenProperties DEF ThingTypeOK
<1>3. \A m \in 1..handed : m \in Messages
    BY <1>2 DEF Messages
<1>4. ASSUME NEW c \in Connections
      PROVE  /\ stage[c] \in Stages /\ hand[c] \in 0..handed
             /\ queue[c] \in Seq(1..handed) /\ Len(queue[c]) \in Nat
             /\ wire[c] \in Seq(Bytes) /\ Len(wire[c]) \in Nat
             /\ accepted[c] \in Seq(1..handed) /\ Len(accepted[c]) \in Nat
             /\ accepted[c] \in Seq(Messages)
             /\ \A i \in 1..Len(accepted[c]) : accepted[c][i] \in 1..handed
    <2>1. /\ stage[c] \in Stages /\ hand[c] \in 0..handed
          /\ queue[c] \in Seq(1..handed) /\ wire[c] \in Seq(Bytes)
          /\ accepted[c] \in Seq(1..handed)
        BY <1>1 DEF ThingTypeOK, Bytes
    <2>2. 1..handed \subseteq Messages
        BY <1>3
    <2>3. accepted[c] \in Seq(Messages)
        BY <2>1, <2>2, SeqMonotonic
    <2>4. Len(queue[c]) \in Nat /\ Len(wire[c]) \in Nat /\ Len(accepted[c]) \in Nat
        BY <2>1, LenProperties
    <2>5. \A i \in 1..Len(accepted[c]) : accepted[c][i] \in 1..handed
        BY <2>1, ElementOfSeq
    <2> QED BY <2>1, <2>3, <2>4, <2>5
<1>5. lines \in Seq(Seq(Bytes)) /\ Len(lines) \in Nat
    BY <1>1, LenProperties DEF Bytes
<1> QED BY <1>2, <1>3, <1>4, <1>5 DEF Bytes

\* The header and the content of a message, as bytes of its frame.
LEMMA Pieces ==
    ASSUME NEW H \in Nat, NEW m \in 1..H, m \in Messages
    PROVE  /\ Header(m) \in Seq((1..H) \X Nat) /\ Len(Header(m)) = HeaderSize
           /\ Content(m) \in Seq((1..H) \X Nat) /\ Len(Content(m)) = Contents[m]
           /\ PartOf(Header(m), m, 0) /\ PartOf(Content(m), m, HeaderSize)
           /\ Header(m) = Piece(m, 0, HeaderSize)
           /\ Content(m) = Piece(m, HeaderSize, Contents[m])
<1>1. Contents[m] \in Nat /\ HeaderSize \in Nat
    BY FrameType
<1>2. \A k \in 1..HeaderSize : <<m, k>> \in (1..H) \X Nat /\ 0 + k = k
    BY <1>1
<1>3. \A k \in 1..Contents[m] : <<m, HeaderSize + k>> \in (1..H) \X Nat
    BY <1>1
<1>4. /\ Header(m) \in [1..HeaderSize -> (1..H) \X Nat]
      /\ \A k \in 1..HeaderSize : Header(m)[k] = <<m, 0 + k>>
      /\ Header(m) = [k \in 1..HeaderSize |-> <<m, 0 + k>>]
    BY <1>2 DEF Header
<1>5. /\ Content(m) \in [1..Contents[m] -> (1..H) \X Nat]
      /\ \A k \in 1..Contents[m] : Content(m)[k] = <<m, HeaderSize + k>>
    BY <1>3 DEF Content
<1>6. Header(m) \in Seq((1..H) \X Nat) /\ Len(Header(m)) = HeaderSize
    BY <1>1, <1>4, FunctionIsSeq
<1>7. Content(m) \in Seq((1..H) \X Nat) /\ Len(Content(m)) = Contents[m]
    BY <1>1, <1>5, FunctionIsSeq
<1>8. Content(m) = Piece(m, HeaderSize, Contents[m])
    BY DEF Content, Piece
<1> QED BY <1>4, <1>5, <1>6, <1>7, <1>8 DEF PartOf, Piece

\* What a send does: as far as the other end is there and nothing is cut short, all
\* the bytes are on the wire.
LEMMA SendEffect ==
    ASSUME TypeOK, NEW c \in Connections, NEW bytes \in Seq(Bytes), Send(c, bytes)
    PROVE  /\ wire' \in [Connections -> Seq(Bytes)]
           /\ \A d \in Connections : Len(wire'[d]) <= WireSize
           /\ cut \subseteq cut' /\ cut' \subseteq Connections
           /\ \A d \in Connections \ {c} : wire'[d] = wire[d] /\ (d \in cut' => d \in cut)
           /\ c \notin cut' /\ c \notin gone => wire'[c] = wire[c] \o bytes
<1>1. /\ wire \in [Connections -> Seq(Bytes)] /\ cut \subseteq Connections
      /\ \A d \in Connections : Len(wire[d]) <= WireSize
    BY DEF TypeOK, ThingTypeOK, Bytes
<1>2. /\ wire[c] \in Seq(Bytes) /\ Len(wire[c]) \in Nat /\ Len(bytes) \in Nat
    BY Types, LenProperties
<1>3. CASE c \in gone \/ bytes = <<>>
    <2>1. wire' = wire /\ cut' = cut
        BY <1>3 DEF Send
    <2>2. c \notin gone => wire[c] \o bytes = wire[c]
        BY <1>2, <1>3, ConcatEmptySeq
    <2> QED BY <1>1, <2>1, <2>2
<1>4. CASE ~(c \in gone \/ bytes = <<>>)
    <2> DEFINE room == WireSize - Len(wire[c])
               part == IF Len(bytes) <= room THEN bytes ELSE SubSeq(bytes, 1, room)
    <2>1. /\ room > 0
          /\ wire' = [wire EXCEPT ![c] = wire[c] \o part]
          /\ cut' = IF Len(bytes) <= room THEN cut ELSE cut \cup {c}
        BY <1>4 DEF Send
    <2>2. room \in Nat
        BY <1>2, <2>1, SizesAssumption
    <2>3. part \in Seq(Bytes) /\ Len(part) \in Nat /\ Len(part) <= room
        <3>1. CASE Len(bytes) <= room
            BY <1>2, <3>1
        <3>2. CASE ~(Len(bytes) <= room)
            <4>1. \A i \in 1..room : bytes[i] \in Bytes
                BY <1>2, <2>2, <3>2, ElementOfSeq
            <4>2. /\ SubSeq(bytes, 1, room) \in Seq(Bytes)
                  /\ Len(SubSeq(bytes, 1, room)) =
                        IF 1 <= room THEN room - 1 + 1 ELSE 0
                BY <2>2, <4>1, SubSeqProperties
            <4> QED BY <2>1, <2>2, <3>2, <4>2
        <3> QED BY <3>1, <3>2
    <2> HIDE DEF part
    <2>4. /\ wire[c] \o part \in Seq(Bytes)
          /\ Len(wire[c] \o part) = Len(wire[c]) + Len(part)
        BY <1>2, <2>3, ConcatProperties
    <2>5. Len(wire[c] \o part) <= WireSize
        <3> DEFINE x == Len(wire[c])
                   y == Len(part)
        <3>1. x \in Nat /\ y \in Nat /\ WireSize \in Nat /\ y <= WireSize - x
            BY <1>2, <2>3, SizesAssumption
        <3> HIDE DEF x, y
        <3>2. x + y <= WireSize
            BY <3>1
        <3> QED BY <2>4, <3>2 DEF x, y
    <2>6. c \notin cut' => part = bytes
        BY <2>1 DEF part
    <2>7. /\ cut \subseteq cut' /\ cut' \subseteq Connections
          /\ \A d \in Connections \ {c} : d \in cut' => d \in cut
        BY <1>1, <2>1
    <2> HIDE DEF room
    <2>8. /\ wire' \in [Connections -> Seq(Bytes)]
          /\ wire'[c] = wire[c] \o part
          /\ \A d \in Connections \ {c} : wire'[d] = wire[d]
        BY <1>1, <2>1, <2>4
    <2>9. \A d \in Connections : Len(wire'[d]) <= WireSize
        BY <1>1, <2>5, <2>8
    <2> QED BY <2>6, <2>7, <2>8, <2>9
<1> QED BY <1>3, <1>4

\* What a receive does.
LEMMA ReceiveEffect ==
    ASSUME TypeOK, conn \in Connections, NEW wanted \in Nat,
           NEW bytes \in Arrived(wanted), Receive(bytes, wanted)
    PROVE  /\ wire' \in [Connections -> Seq(Bytes)]
           /\ \A d \in Connections : Len(wire'[d]) <= WireSize
           /\ cut \subseteq cut' /\ cut' \subseteq Connections
           /\ \A d \in Connections \ {conn} : wire'[d] = wire[d] /\ (d \in cut' => d \in cut)
           /\ bytes \in Seq(Bytes) /\ wire[conn] # <<>>
           /\ conn \notin cut' =>
                /\ wanted \in 1..Len(wire[conn])
                /\ bytes = SubSeq(wire[conn], 1, wanted)
                /\ wire'[conn] = SubSeq(wire[conn], wanted + 1, Len(wire[conn]))
<1>1. /\ wire \in [Connections -> Seq(Bytes)] /\ cut \subseteq Connections
      /\ \A d \in Connections : Len(wire[d]) <= WireSize
    BY DEF TypeOK, ThingTypeOK, Bytes
<1>2. /\ wire[conn] \in Seq(Bytes) /\ Len(wire[conn]) \in Nat
      /\ \A i \in 1..Len(wire[conn]) : wire[conn][i] \in Bytes
    BY Types, ElementOfSeq
<1>3. PICK n \in 1..wanted : n <= Len(wire[conn]) /\ bytes = SubSeq(wire[conn], 1, n)
    BY DEF Arrived
<1>4. bytes \in Seq(Bytes) /\ Len(bytes) = n
    <2>1. \A i \in 1..n : wire[conn][i] \in Bytes
        BY <1>2, <1>3
    <2>2. bytes \in Seq(Bytes) /\ Len(bytes) = IF 1 <= n THEN n - 1 + 1 ELSE 0
        BY <1>3, <2>1, SubSeqProperties
    <2> QED BY <2>2
<1> DEFINE rest == SubSeq(wire[conn], n + 1, Len(wire[conn]))
<1>5. rest \in Seq(Bytes) /\ Len(rest) <= WireSize
    <2>1. \A i \in n + 1..Len(wire[conn]) : wire[conn][i] \in Bytes
        BY <1>2
    <2>2. /\ rest \in Seq(Bytes)
          /\ Len(rest) = IF n + 1 <= Len(wire[conn])
                         THEN Len(wire[conn]) - (n + 1) + 1 ELSE 0
        BY <1>2, <2>1, SubSeqProperties
    <2>3. Len(wire[conn]) <= WireSize
        BY <1>1
    <2> QED BY <1>2, <2>2, <2>3, SizesAssumption
<1>6. /\ wire' = [wire EXCEPT ![conn] = rest]
      /\ cut' = IF n < wanted THEN cut \cup {conn} ELSE cut
    BY <1>4 DEF Receive
<1> HIDE DEF rest
<1>7. /\ wire' \in [Connections -> Seq(Bytes)] /\ wire'[conn] = rest
      /\ \A d \in Connections \ {conn} : wire'[d] = wire[d]
    BY <1>1, <1>5, <1>6
<1>8. \A d \in Connections : Len(wire'[d]) <= WireSize
    BY <1>1, <1>5, <1>7
<1>9. /\ cut \subseteq cut' /\ cut' \subseteq Connections
      /\ \A d \in Connections \ {conn} : d \in cut' => d \in cut
      /\ conn \notin cut' => ~(n < wanted)
    BY <1>1, <1>6
<1>10. conn \notin cut' => n = wanted
    BY <1>9
<1>11. wire[conn] # <<>>
    <2>1. Len(wire[conn]) # 0
        BY <1>2, <1>3
    <2> QED BY <2>1, EmptySeq
<1> QED BY <1>2, <1>3, <1>4, <1>7, <1>8, <1>9, <1>10, <1>11 DEF rest

\* What is lost with the latest connection.
LEMMA DropEffect ==
    ASSUME TypeOK, DropUnread
    PROVE  /\ wire' \in [Connections -> Seq(Bytes)]
           /\ \A d \in Connections : Len(wire'[d]) <= WireSize
           /\ \A d \in Connections : wire'[d] = wire[d] \/ (wire'[d] = <<>> /\ d = conn)
<1>1. /\ wire \in [Connections -> Seq(Bytes)]
      /\ \A d \in Connections : Len(wire[d]) <= WireSize
    BY DEF TypeOK, ThingTypeOK, Bytes
<1>2. <<>> \in Seq(Bytes) /\ Len(<<>>) = 0
    BY EmptySeq
<1>3. \A d \in Connections : wire'[d] = IF d = conn THEN <<>> ELSE wire[d]
    BY DEF DropUnread
<1>4. wire' \in [Connections -> Seq(Bytes)]
    BY <1>1, <1>2 DEF DropUnread
<1> QED BY <1>1, <1>2, <1>3, <1>4, SizesAssumption

LEMMA SizeType ==
    ASSUME TypeOK
    PROVE  size \in Nat
<1>1. \A i \in DOMAIN Contents : Contents[i] \in Nat
    BY TrafficAssumption, ElementOfSeq, LenProperties
<1>2. Range(Contents) \subseteq Nat
    BY <1>1 DEF Range
<1> QED BY <1>2 DEF TypeOK

\* The message in hand.
LEMMA HandType ==
    ASSUME TypeOK, QueueInv, NEW c \in Connections, stage[c] \in {"header", "content"}
    PROVE  hand[c] \in 1..handed /\ hand[c] \in Messages
<1>1. /\ Len(accepted[c]) - Len(queue[c]) \in 1..Len(accepted[c])
      /\ hand[c] = accepted[c][Len(accepted[c]) - Len(queue[c])]
    BY DEF QueueInv, Queued
<1> QED BY <1>1, Types

LEMMA AcceptType ==
    ASSUME TypeOK, NEW c \in Connections, Accept(c)
    PROVE  ThingTypeOK'
BY DEF TypeOK, ThingTypeOK, Accept, Stages

LEMMA EndedWorkerType ==
    ASSUME TypeOK, NEW c \in Connections, AcceptTooLate(c) \/ SendFails(c)
    PROVE  ThingTypeOK'
<1>1. 0 \in 0..handed
    BY Types
<1>2. CASE AcceptTooLate(c)
    BY <1>2 DEF TypeOK, ThingTypeOK, AcceptTooLate, Stages
<1>3. CASE SendFails(c)
    BY <1>1, <1>3 DEF TypeOK, ThingTypeOK, SendFails, Stages
<1> QED BY <1>2, <1>3

LEMMA SendHeaderType ==
    ASSUME TypeOK, QueueInv, NEW c \in Connections, SendHeader(c)
    PROVE  ThingTypeOK'
<1>1. stage[c] = "header" /\ Send(c, Header(hand[c]))
    BY DEF SendHeader
<1>2. Header(hand[c]) \in Seq(Bytes)
    BY <1>1, HandType, Types, Pieces
<1>3. /\ wire' \in [Connections -> Seq(Bytes)]
      /\ \A d \in Connections : Len(wire'[d]) <= WireSize
      /\ cut' \subseteq Connections
    BY <1>1, <1>2, SendEffect
<1>4. /\ UNCHANGED <<up, starts, handed, hand, queue, gone, accepted>>
      /\ stage' = [stage EXCEPT ![c] = "content"]
    BY DEF SendHeader
<1>5. ThingTypeOK
    BY DEF TypeOK
<1> QED BY <1>3, <1>4, <1>5 DEF ThingTypeOK, Stages, Bytes

LEMMA ReceiveMessageType ==
    ASSUME TypeOK, NEW c \in Connections, ReceiveMessage(c)
    PROVE  /\ stage' \in [Connections -> Stages]
           /\ hand' \in [Connections -> 0..handed]
           /\ queue' \in [Connections -> Seq(1..handed)]
           /\ \A d \in Connections : Len(queue'[d]) <= Capacity
<1>1. /\ stage \in [Connections -> Stages] /\ hand \in [Connections -> 0..handed]
      /\ queue \in [Connections -> Seq(1..handed)]
      /\ \A d \in Connections : Len(queue[d]) <= Capacity
      /\ handed \in Nat
    BY Types DEF TypeOK, ThingTypeOK
<1>2. CASE queue[c] = <<>>
    <2>1. /\ stage' = [stage EXCEPT ![c] = "receive"]
          /\ hand' = [hand EXCEPT ![c] = 0]
          /\ queue' = queue
        BY <1>2 DEF ReceiveMessage, AwaitNextMessage
    <2>2. "receive" \in Stages /\ 0 \in 0..handed
        BY <1>1 DEF Stages
    <2> QED BY <1>1, <2>1, <2>2
<1>3. CASE queue[c] # <<>>
    <2>1. /\ Head(queue[c]) \in 1..handed /\ Tail(queue[c]) \in Seq(1..handed)
          /\ Len(Tail(queue[c])) = Len(queue[c]) - 1 /\ Len(queue[c]) \in Nat
        BY <1>1, <1>3, HeadTailProperties, LenProperties
    <2>2. /\ stage' = [stage EXCEPT ![c] = "header"]
          /\ hand' = [hand EXCEPT ![c] = Head(queue[c])]
          /\ queue' = [queue EXCEPT ![c] = Tail(queue[c])]
        BY <1>3 DEF ReceiveMessage
    <2>3. stage' \in [Connections -> Stages] /\ hand' \in [Connections -> 0..handed]
        BY <1>1, <2>1, <2>2 DEF Stages
    <2>4. /\ queue' \in [Connections -> Seq(1..handed)]
          /\ \A d \in Connections : Len(queue'[d]) <= Capacity
        BY <1>1, <2>1, <2>2, CapacityAssumption
    <2> QED BY <2>3, <2>4
<1> QED BY <1>2, <1>3

LEMMA SendContentType ==
    ASSUME TypeOK, QueueInv, NEW c \in Connections, SendContent(c)
    PROVE  ThingTypeOK'
<1>1. stage[c] = "content" /\ Send(c, Content(hand[c])) /\ ReceiveMessage(c)
    BY DEF SendContent
<1>2. Content(hand[c]) \in Seq(Bytes)
    BY <1>1, HandType, Types, Pieces
<1>3. /\ wire' \in [Connections -> Seq(Bytes)]
      /\ \A d \in Connections : Len(wire'[d]) <= WireSize
      /\ cut' \subseteq Connections
    BY <1>1, <1>2, SendEffect
<1>4. UNCHANGED <<up, starts, handed, gone, accepted>>
    BY DEF SendContent
<1>5. ThingTypeOK
    BY DEF TypeOK
<1>6. /\ stage' \in [Connections -> Stages]
      /\ hand' \in [Connections -> 0..handed]
      /\ queue' \in [Connections -> Seq(1..handed)]
      /\ \A d \in Connections : Len(queue'[d]) <= Capacity
    BY <1>1, ReceiveMessageType
<1> QED BY <1>3, <1>4, <1>5, <1>6 DEF ThingTypeOK, Bytes

\* What handle does to a client: it takes the message into its hand, into its queue
\* or not at all.
LEMMA HandleEffect ==
    ASSUME TypeOK, Handle
    PROVE  LET m == handed + 1
           IN  /\ m \in Messages /\ handed' = m
               /\ \A c \in Connections :
                    \/ /\ stage[c] = "receive"
                       /\ stage'[c] = "header" /\ hand'[c] = m
                       /\ queue'[c] = queue[c] /\ accepted'[c] = Append(accepted[c], m)
                    \/ /\ stage[c] \in {"header", "content", "failed"}
                       /\ Len(queue[c]) < Capacity
                       /\ stage'[c] = stage[c] /\ hand'[c] = hand[c]
                       /\ queue'[c] = Append(queue[c], m)
                       /\ accepted'[c] = Append(accepted[c], m)
                    \/ /\ stage'[c] = stage[c] /\ hand'[c] = hand[c]
                       /\ queue'[c] = queue[c] /\ accepted'[c] = accepted[c]
<1>1. handed + 1 \in DOMAIN Contents /\ handed' = handed + 1
    BY DEF Handle
<1>2. handed + 1 \in Messages
    BY <1>1, TrafficAssumption, LenProperties DEF Messages
<1>3. ASSUME NEW c \in Connections
      PROVE  \/ /\ stage[c] = "receive"
                /\ stage'[c] = "header" /\ hand'[c] = handed + 1
                /\ queue'[c] = queue[c] /\ accepted'[c] = Append(accepted[c], handed + 1)
             \/ /\ stage[c] \in {"header", "content", "failed"}
                /\ Len(queue[c]) < Capacity
                /\ stage'[c] = stage[c] /\ hand'[c] = hand[c]
                /\ queue'[c] = Append(queue[c], handed + 1)
                /\ accepted'[c] = Append(accepted[c], handed + 1)
             \/ /\ stage'[c] = stage[c] /\ hand'[c] = hand[c]
                /\ queue'[c] = queue[c] /\ accepted'[c] = accepted[c]
    <2> DEFINE takes == c \in Clients /\ HasRoom(c)
    <2>1. /\ stage'[c] = IF takes /\ Waits(c) THEN "header" ELSE stage[c]
          /\ hand'[c] = IF takes /\ Waits(c) THEN handed + 1 ELSE hand[c]
          /\ queue'[c] = IF takes /\ ~Waits(c) THEN Append(queue[c], handed + 1)
                         ELSE queue[c]
          /\ accepted'[c] = IF takes THEN Append(accepted[c], handed + 1)
                            ELSE accepted[c]
        BY DEF Handle
    <2>2. CASE takes /\ Waits(c)
        BY <2>1, <2>2 DEF Waits
    <2>3. CASE takes /\ ~Waits(c)
        BY <2>1, <2>3 DEF Waits, Clients, HasRoom
    <2>4. CASE ~takes
        BY <2>1, <2>4
    <2> QED BY <2>2, <2>3, <2>4
<1> QED BY <1>1, <1>2, <1>3

LEMMA HandleType ==
    ASSUME TypeOK, Handle
    PROVE  ThingTypeOK'
<1>1. ThingTypeOK
    BY DEF TypeOK
<1>2. /\ handed' = handed + 1 /\ handed + 1 \in Messages /\ handed \in Nat
      /\ handed' \in 0..Len(Contents) /\ handed + 1 \in 1..handed'
    BY HandleEffect, Types DEF Messages
<1>3. UNCHANGED <<up, starts, wire, gone, cut>>
    BY DEF Handle
<1>4. /\ 1..handed \subseteq 1..handed' /\ 0..handed \subseteq 0..handed'
      /\ (1..handed) \X Nat \subseteq (1..handed') \X Nat
      /\ handed + 1 \in 0..handed'
    BY <1>2
<1>5. ASSUME NEW c \in Connections
      PROVE  /\ stage'[c] \in Stages /\ hand'[c] \in 0..handed'
             /\ queue'[c] \in Seq(1..handed') /\ accepted'[c] \in Seq(1..handed')
             /\ Len(queue'[c]) <= Capacity
             /\ wire'[c] \in Seq((1..handed') \X Nat)
    <2>1. /\ stage[c] \in Stages /\ hand[c] \in 0..handed'
          /\ queue[c] \in Seq(1..handed) /\ accepted[c] \in Seq(1..handed)
          /\ wire[c] \in Seq((1..handed) \X Nat)
          /\ Len(queue[c]) \in Nat
        BY <1>4, Types
    <2>2. /\ queue[c] \in Seq(1..handed') /\ accepted[c] \in Seq(1..handed')
          /\ wire[c] \in Seq((1..handed') \X Nat)
        <3>1. queue[c] \in Seq(1..handed') /\ accepted[c] \in Seq(1..handed')
            BY <1>4, <2>1, SeqMonotonic
        <3>2. wire[c] \in Seq((1..handed') \X Nat)
            BY <1>4, <2>1, SeqMonotonic
        <3> QED BY <3>1, <3>2
    <2>3. /\ Append(queue[c], handed + 1) \in Seq(1..handed')
          /\ Len(Append(queue[c], handed + 1)) = Len(queue[c]) + 1
          /\ Append(accepted[c], handed + 1) \in Seq(1..handed')
        BY <1>2, <2>2, AppendProperties
    <2>4. Len(queue[c]) <= Capacity
        BY <1>1 DEF ThingTypeOK
    <2>5. Len(queue[c]) < Capacity => Len(queue[c]) + 1 <= Capacity
        BY <2>1, CapacityAssumption
    <2>6. \/ /\ stage'[c] = "header" /\ hand'[c] = handed + 1
             /\ queue'[c] = queue[c] /\ accepted'[c] = Append(accepted[c], handed + 1)
          \/ /\ Len(queue[c]) < Capacity
             /\ stage'[c] = stage[c] /\ hand'[c] = hand[c]
             /\ queue'[c] = Append(queue[c], handed + 1)
             /\ accepted'[c] = Append(accepted[c], handed + 1)
          \/ /\ stage'[c] = stage[c] /\ hand'[c] = hand[c]
             /\ queue'[c] = queue[c] /\ accepted'[c] = accepted[c]
        BY HandleEffect
    <2>7. /\ stage'[c] \in Stages /\ hand'[c] \in 0..handed'
          /\ wire'[c] \in Seq((1..handed') \X Nat)
        BY <1>3, <1>4, <2>1, <2>2, <2>6 DEF Stages
    <2>8. /\ queue'[c] \in Seq(1..handed') /\ accepted'[c] \in Seq(1..handed')
          /\ Len(queue'[c]) <= Capacity
        BY <2>2, <2>3, <2>4, <2>5, <2>6
    <2> QED BY <2>7, <2>8
<1>6. /\ stage' \in [Connections -> Stages] /\ hand' \in [Connections -> 0..handed']
      /\ queue' \in [Connections -> Seq(1..handed')]
      /\ accepted' \in [Connections -> Seq(1..handed')]
      /\ wire' \in [Connections -> Seq((1..handed') \X Nat)]
    <2>1. /\ stage' = [c \in Connections |-> stage'[c]]
          /\ hand' = [c \in Connections |-> hand'[c]]
          /\ queue' = [c \in Connections |-> queue'[c]]
          /\ accepted' = [c \in Connections |-> accepted'[c]]
        BY DEF Handle
    <2>2. wire' = [c \in Connections |-> wire'[c]]
        BY <1>1, <1>3 DEF ThingTypeOK
    <2>3. /\ stage' \in [Connections -> Stages] /\ hand' \in [Connections -> 0..handed']
        BY <1>5, <2>1
    <2>4. queue' \in [Connections -> Seq(1..handed')]
        BY <1>5, <2>1
    <2>5. accepted' \in [Connections -> Seq(1..handed')]
        BY <1>5, <2>1
    <2>6. wire' \in [Connections -> Seq((1..handed') \X Nat)]
        BY <1>5, <2>2
    <2> QED BY <2>3, <2>4, <2>5, <2>6
<1>7. /\ up' \in BOOLEAN /\ starts' \in 0..MaxStarts
      /\ gone' \subseteq Connections /\ cut' \subseteq Connections
      /\ \A c \in Connections : Len(wire'[c]) <= WireSize
    BY <1>1, <1>3 DEF ThingTypeOK
<1> QED BY <1>2, <1>5, <1>6, <1>7 DEF ThingTypeOK

LEMMA BotType ==
    ASSUME TypeOK, BotEnds \/ BotStarts
    PROVE  ThingTypeOK'
<1>1. ThingTypeOK
    BY DEF TypeOK
<1>2. CASE BotEnds
    <2>1. 0 \in 0..handed /\ <<>> \in Seq(1..handed) /\ Len(<<>>) = 0
        BY Types, EmptySeq
    <2>2. ASSUME NEW c \in Connections
          PROVE  (IF stage[c] = "none" THEN "none" ELSE "closed") \in Stages
        BY DEF Stages
    <2>3. /\ stage' \in [Connections -> Stages] /\ hand' \in [Connections -> 0..handed]
          /\ queue' \in [Connections -> Seq(1..handed)]
          /\ \A c \in Connections : Len(queue'[c]) <= Capacity
        BY <1>2, <2>1, <2>2, CapacityAssumption DEF BotEnds
    <2>4. /\ UNCHANGED <<starts, handed, wire, gone, accepted, cut>>
          /\ up' \in BOOLEAN
        BY <1>2 DEF BotEnds
    <2> QED BY <1>1, <2>3, <2>4 DEF ThingTypeOK
<1>3. CASE BotStarts
    <2>1. starts' \in 0..MaxStarts
        BY <1>1, <1>3, TrafficAssumption DEF BotStarts, ThingTypeOK
    <2>2. /\ UNCHANGED <<handed, stage, hand, queue, wire, gone, accepted, cut>>
          /\ up' \in BOOLEAN
        BY <1>3 DEF BotStarts
    <2> QED BY <1>1, <2>1, <2>2 DEF ThingTypeOK
<1> QED BY <1>2, <1>3

LEMMA SameThingType ==
    ASSUME ThingTypeOK, UNCHANGED thingVars
    PROVE  ThingTypeOK'
BY DEF ThingTypeOK, thingVars

LEMMA WaitingType ==
    ASSUME TypeOK, ConnectFails \/ WaitEnds \/ Exit
    PROVE  TypeOK'
<1>1. /\ UNCHANGED <<thingVars, isOpen, conn, size, lines>>
      /\ where' \in Places /\ sock' \in {"closed", "open", "connected"}
    BY DEF ConnectFails, WaitEnds, Exit, StartConnect, TypeOK, Places
<1>2. ThingTypeOK' /\ handed' = handed
    BY <1>1, SameThingType DEF TypeOK, thingVars
<1> QED BY <1>1, <1>2 DEF TypeOK

LEMMA ConnectedType ==
    ASSUME TypeOK, ConnInv, Connected
    PROVE  TypeOK'
<1>1. /\ UNCHANGED <<up, starts, handed, hand, queue, wire, gone, accepted, cut, isOpen, size>>
      /\ conn' \in Connections /\ where' = "header" /\ sock' = "connected"
      /\ stage' = [stage EXCEPT ![conn'] = "backlog"] /\ lines' = <<>>
    BY DEF Connected, Arrives
<1>2. stage' \in [Connections -> Stages]
    BY <1>1 DEF TypeOK, ThingTypeOK, Stages
<1>3. ThingTypeOK'
    BY <1>1, <1>2 DEF TypeOK, ThingTypeOK
<1>4. lines' \in Seq(Seq((1..handed') \X Nat))
    BY <1>1, EmptySeq
<1> QED BY <1>1, <1>3, <1>4 DEF TypeOK, Places

\* Where tcp_worker reads, there is a connection.
LEMMA ReadingConn ==
    ASSUME ConnInv, where \in {"header", "content"}
    PROVE  conn \in Connections /\ conn # 0 /\ conn \in Nat
BY DEF ConnInv

LEMMA ReadHeaderType ==
    ASSUME TypeOK, ConnInv, ReadHeader
    PROVE  TypeOK'
<1>1. PICK bytes \in Arrived(HeaderSize) : Receive(bytes, HeaderSize)
    BY DEF ReadHeader
<1>2. /\ size' \in Range(Contents) /\ where' = "content"
      /\ UNCHANGED <<up, starts, handed, stage, hand, queue, gone, accepted,
                     sock, isOpen, conn, lines>>
    BY DEF ReadHeader
<1>3. /\ wire' \in [Connections -> Seq(Bytes)]
      /\ \A d \in Connections : Len(wire'[d]) <= WireSize
      /\ cut' \subseteq Connections
    <2>1. conn \in Connections /\ HeaderSize \in Nat
        BY ReadingConn, SizesAssumption DEF ReadHeader
    <2> QED BY <1>1, <2>1, ReceiveEffect
<1>4. ThingTypeOK'
    BY <1>2, <1>3 DEF TypeOK, ThingTypeOK, Bytes
<1> QED BY <1>2, <1>4 DEF TypeOK, Places

LEMMA ReadNothingType ==
    ASSUME TypeOK, ReadNothing
    PROVE  TypeOK'
<1>1. /\ UNCHANGED <<thingVars, sock, isOpen, conn, size>>
      /\ where' = "header" /\ lines' = Append(lines, <<>>)
    BY DEF ReadNothing
<1>2. ThingTypeOK' /\ handed' = handed
    BY <1>1, SameThingType DEF TypeOK, thingVars
<1>3. lines' \in Seq(Seq((1..handed) \X Nat))
    <2>1. <<>> \in Seq((1..handed) \X Nat)
        BY EmptySeq
    <2>2. lines \in Seq(Seq((1..handed) \X Nat))
        BY DEF TypeOK
    <2> QED BY <1>1, <2>1, <2>2, AppendProperties
<1> QED BY <1>1, <1>2, <1>3 DEF TypeOK, Places

LEMMA ReadContentType ==
    ASSUME TypeOK, ConnInv, ReadContent
    PROVE  TypeOK'
<1>1. PICK bytes \in Arrived(size) :
            Receive(bytes, size) /\ lines' = Append(lines, bytes)
    BY DEF ReadContent
<1>2. /\ size' = 0 /\ where' = "header"
      /\ UNCHANGED <<up, starts, handed, stage, hand, queue, gone, accepted,
                     sock, isOpen, conn>>
    BY DEF ReadContent
<1>3. /\ wire' \in [Connections -> Seq(Bytes)]
      /\ \A d \in Connections : Len(wire'[d]) <= WireSize
      /\ cut' \subseteq Connections
      /\ bytes \in Seq(Bytes)
    <2>1. conn \in Connections /\ size \in Nat
        BY ReadingConn, SizeType DEF ReadContent
    <2> QED BY <1>1, <2>1, ReceiveEffect
<1>4. ThingTypeOK'
    BY <1>2, <1>3 DEF TypeOK, ThingTypeOK, Bytes
<1>5. lines' \in Seq(Seq(Bytes))
    BY <1>1, <1>3, Types, AppendProperties
<1> QED BY <1>2, <1>4, <1>5 DEF TypeOK, Places, Bytes

LEMMA ReadFailsType ==
    ASSUME TypeOK, ReadFails
    PROVE  TypeOK'
<1>1. /\ size' = 0 /\ DropUnread
      /\ where' \in Places /\ sock' \in {"closed", "open", "connected"}
      /\ UNCHANGED <<up, starts, handed, stage, hand, queue, gone, accepted, cut,
                     isOpen, conn, lines>>
    BY DEF ReadFails, StartConnect, TypeOK, Places
<1>2. ThingTypeOK'
    BY <1>1, DropEffect DEF TypeOK, ThingTypeOK, Bytes
<1> QED BY <1>1, <1>2 DEF TypeOK

LEMMA InterruptType ==
    ASSUME TypeOK, ConnInv, Interrupt \/ InterruptAgain
    PROVE  TypeOK'
<1>1. /\ CloseSocket /\ isOpen' \in BOOLEAN /\ where' \in Places
      /\ UNCHANGED <<up, starts, handed, stage, hand, queue, accepted, cut,
                     conn, size, lines>>
    BY DEF Interrupt, InterruptAgain, TypeOK, Places
<1>2. DropUnread /\ sock' = "closed"
    BY <1>1 DEF CloseSocket
<1>3. gone' \subseteq Connections
    BY <1>1 DEF CloseSocket, TypeOK, ThingTypeOK, ConnInv
<1>4. ThingTypeOK'
    BY <1>1, <1>2, <1>3, DropEffect DEF TypeOK, ThingTypeOK, Bytes
<1> QED BY <1>1, <1>2, <1>4 DEF TypeOK

LEMMA NextType == TypeOK /\ QueueInv /\ ConnInv /\ [Next]_vars => TypeOK'
<1> SUFFICES ASSUME TypeOK, QueueInv, ConnInv, [Next]_vars PROVE TypeOK'
    OBVIOUS
<1>1. CASE ThingNext /\ UNCHANGED sinkVars
    <2>1. ThingTypeOK'
        <3>1. CASE \E c \in Connections : Worker(c)
            BY <3>1, AcceptType, SendHeaderType, SendContentType, EndedWorkerType
               DEF Worker
        <3>2. CASE Handle \/ BotEnds \/ BotStarts
            BY <3>2, HandleType, BotType
        <3> QED BY <1>1, <3>1, <3>2 DEF ThingNext
    <2>2. lines' \in Seq(Seq((1..handed') \X Nat))
        <3>1. handed' \in Nat /\ handed \in Nat /\ handed <= handed'
            <4>1. handed' = handed \/ Handle
                BY <1>1 DEF ThingNext, Worker, Accept, AcceptTooLate, SendHeader,
                            SendContent, SendFails, BotEnds, BotStarts
            <4> QED BY <4>1, Types, HandleEffect
        <3>2. (1..handed) \X Nat \subseteq (1..handed') \X Nat
            BY <3>1
        <3>3. Seq((1..handed) \X Nat) \subseteq Seq((1..handed') \X Nat)
            BY <3>2, SeqMonotonic
        <3>4. lines \in Seq(Seq((1..handed') \X Nat))
            BY <3>3, SeqMonotonic DEF TypeOK
        <3> QED BY <1>1, <3>4 DEF sinkVars
    <2> QED BY <1>1, <2>1, <2>2 DEF TypeOK, sinkVars
<1>2. CASE TcpWorker
    BY <1>2, WaitingType, ConnectedType, ReadHeaderType, ReadNothingType,
       ReadContentType, ReadFailsType DEF TcpWorker
<1>3. CASE Interrupt \/ InterruptAgain
    BY <1>3, InterruptType
<1>4. CASE UNCHANGED vars
    <2>1. ThingTypeOK' /\ handed' = handed
        BY <1>4, SameThingType DEF TypeOK, vars, thingVars
    <2> QED BY <1>4, <2>1 DEF TypeOK, vars, sinkVars
<1> QED BY <1>1, <1>2, <1>3, <1>4 DEF Next

LEMMA InitType == Init => TypeOK
<1> SUFFICES ASSUME Init PROVE TypeOK
    OBVIOUS
<1>1. Len(Contents) \in Nat /\ MaxStarts \in Nat
    BY TrafficAssumption, LenProperties
<1>2. /\ <<>> \in Seq(1..handed) /\ <<>> \in Seq((1..handed) \X Nat) /\ Len(<<>>) = 0
      /\ <<>> \in Seq(Seq((1..handed) \X Nat))
    BY EmptySeq
<1>3. ThingTypeOK
    <2>1. /\ up \in BOOLEAN /\ starts \in 0..MaxStarts /\ handed \in 0..Len(Contents)
          /\ stage \in [Connections -> Stages] /\ hand \in [Connections -> 0..handed]
          /\ gone \subseteq Connections /\ cut \subseteq Connections
        BY <1>1 DEF Init, ThingInit, Stages
    <2>2. /\ queue \in [Connections -> Seq(1..handed)]
          /\ wire \in [Connections -> Seq((1..handed) \X Nat)]
          /\ accepted \in [Connections -> Seq(1..handed)]
        BY <1>2 DEF Init, ThingInit
    <2>3. \A c \in Connections : Len(queue[c]) <= Capacity /\ Len(wire[c]) <= WireSize
        BY <1>2, CapacityAssumption, SizesAssumption DEF Init, ThingInit
    <2> QED BY <2>1, <2>2, <2>3 DEF ThingTypeOK
<1> QED BY <1>2, <1>3 DEF Init, TypeOK, Places

-----------------------------------------------------------------------------
\* The queues and the connection in use

\* A client that a step leaves alone, whatever happens to bytes on its wire.
LEMMA SameQueued ==
    ASSUME NEW c \in Connections, Queued(c),
           stage'[c] = stage[c], hand'[c] = hand[c], queue'[c] = queue[c],
           accepted'[c] = accepted[c],
           stage[c] \in {"none", "backlog"} => wire'[c] = <<>> /\ c \notin cut',
           stage[c] = "none" => c \notin gone',
           stage[c] = "failed" => c \in gone'
    PROVE  Queued(c)'
BY DEF Queued

\* The places in queue and sequence.
LEMMA OneTaken ==
    ASSUME NEW la \in Nat, NEW lq \in Nat, la - lq \in 1..la, lq > 0
    PROVE  /\ la - (lq - 1) = (la - lq) + 1 /\ (la - lq) + 1 \in 1..la
           /\ \A j \in 1..lq - 1 :
                j + 1 \in 1..lq /\ (la - lq) + (j + 1) = ((la - lq) + 1) + j
OBVIOUS

LEMMA OneMore ==
    ASSUME NEW la \in Nat, NEW lq \in Nat, la - lq \in 1..la
    PROVE  /\ (la + 1) - (lq + 1) = la - lq /\ la - lq \in 1..la + 1
           /\ \A j \in 1..lq + 1 :
                \/ j = lq + 1 /\ (la - lq) + j = la + 1
                \/ j \in 1..lq /\ (la - lq) + j \in 1..la
OBVIOUS

LEMMA ReceiveMessageQueued ==
    ASSUME TypeOK, NEW c \in Connections, Queued(c), stage[c] = "content",
           ReceiveMessage(c), UNCHANGED accepted
    PROVE  Queued(c)'
<1>1. /\ queue[c] \in Seq(1..handed) /\ Len(queue[c]) \in Nat
      /\ Len(accepted[c]) \in Nat /\ accepted'[c] = accepted[c]
      /\ stage \in [Connections -> Stages] /\ hand \in [Connections -> 0..handed]
      /\ queue \in [Connections -> Seq(1..handed)]
    BY Types DEF TypeOK, ThingTypeOK
<1> DEFINE sent == Len(accepted[c]) - Len(queue[c])
<1>2. /\ sent \in 1..Len(accepted[c])
      /\ \A j \in 1..Len(queue[c]) : queue[c][j] = accepted[c][sent + j]
    BY DEF Queued
<1>3. CASE queue[c] = <<>>
    <2>1. /\ stage' = [stage EXCEPT ![c] = "receive"]
          /\ queue' = queue
        BY <1>3 DEF ReceiveMessage, AwaitNextMessage
    <2>2. stage'[c] = "receive" /\ queue'[c] = <<>>
        BY <1>1, <1>3, <2>1
    <2> QED BY <2>2 DEF Queued
<1>4. CASE queue[c] # <<>>
    <2>1. /\ stage' = [stage EXCEPT ![c] = "header"]
          /\ hand' = [hand EXCEPT ![c] = Head(queue[c])]
          /\ queue' = [queue EXCEPT ![c] = Tail(queue[c])]
        BY <1>4 DEF ReceiveMessage
    <2>2. /\ stage'[c] = "header" /\ hand'[c] = Head(queue[c])
          /\ queue'[c] = Tail(queue[c])
        BY <1>1, <2>1
    <2>3. /\ Len(Tail(queue[c])) = Len(queue[c]) - 1
          /\ \A j \in 1..Len(queue[c]) - 1 : Tail(queue[c])[j] = queue[c][j + 1]
          /\ Head(queue[c]) = queue[c][1]
        BY <1>1, <1>4, HeadTailProperties
    <2>4. Len(queue[c]) > 0
        BY <1>1, <1>4, EmptySeq
    <2>5. /\ Len(accepted'[c]) - Len(queue'[c]) = sent + 1
          /\ sent + 1 \in 1..Len(accepted[c])
          /\ Len(queue'[c]) = Len(queue[c]) - 1
        BY <1>1, <1>2, <2>2, <2>3, <2>4, OneTaken
    <2>6. hand'[c] = accepted[c][sent + 1]
        <3>1. 1 \in 1..Len(queue[c])
            BY <1>1, <2>4
        <3>2. queue[c][1] = accepted[c][sent + 1]
            BY <1>2, <3>1
        <3> QED BY <2>2, <2>3, <3>2
    <2>7. ASSUME NEW j \in 1..Len(queue[c]) - 1
          PROVE  queue'[c][j] = accepted[c][(sent + 1) + j]
        <3>1. /\ j + 1 \in 1..Len(queue[c]) /\ sent + (j + 1) = (sent + 1) + j
            BY <1>1, <1>2, <2>4, OneTaken
        <3> QED BY <1>2, <2>2, <2>3, <3>1
    <2> QED BY <1>1, <2>2, <2>5, <2>6, <2>7 DEF Queued
<1> QED BY <1>3, <1>4

LEMMA HandleQueued ==
    ASSUME TypeOK, Handle, NEW c \in Connections, Queued(c)
    PROVE  Queued(c)'
<1> DEFINE m == handed + 1
<1>1. /\ queue[c] \in Seq(Messages) /\ Len(queue[c]) \in Nat
      /\ accepted[c] \in Seq(Messages) /\ Len(accepted[c]) \in Nat
    <2>1. 1..handed \subseteq Messages /\ queue[c] \in Seq(1..handed)
        BY Types
    <2> QED BY <2>1, Types, SeqMonotonic
<1>2. m \in Messages /\ UNCHANGED <<wire, gone, cut>>
    BY HandleEffect DEF Handle
<1>3. /\ Len(Append(accepted[c], m)) = Len(accepted[c]) + 1
      /\ Append(accepted[c], m)[Len(accepted[c]) + 1] = m
      /\ \A i \in 1..Len(accepted[c]) : Append(accepted[c], m)[i] = accepted[c][i]
      /\ Len(Append(queue[c], m)) = Len(queue[c]) + 1
      /\ Append(queue[c], m)[Len(queue[c]) + 1] = m
      /\ \A i \in 1..Len(queue[c]) : Append(queue[c], m)[i] = queue[c][i]
    <2>1. /\ Len(Append(accepted[c], m)) = Len(accepted[c]) + 1
          /\ Append(accepted[c], m)[Len(accepted[c]) + 1] = m
          /\ \A i \in 1..Len(accepted[c]) : Append(accepted[c], m)[i] = accepted[c][i]
        BY <1>1, <1>2, AppendProperties
    <2>2. /\ Len(Append(queue[c], m)) = Len(queue[c]) + 1
          /\ Append(queue[c], m)[Len(queue[c]) + 1] = m
          /\ \A i \in 1..Len(queue[c]) : Append(queue[c], m)[i] = queue[c][i]
        BY <1>1, <1>2, AppendProperties
    <2> QED BY <2>1, <2>2
<1>4. CASE /\ stage[c] = "receive"
           /\ stage'[c] = "header" /\ hand'[c] = m
           /\ queue'[c] = queue[c] /\ accepted'[c] = Append(accepted[c], m)
    <2>1. queue[c] = <<>> /\ Len(queue[c]) = 0
        BY <1>4, EmptySeq DEF Queued
    <2>2. /\ Len(accepted'[c]) - Len(queue'[c]) = Len(accepted[c]) + 1
          /\ Len(accepted[c]) + 1 \in 1..Len(accepted'[c])
          /\ hand'[c] = accepted'[c][Len(accepted[c]) + 1]
          /\ Len(queue'[c]) = 0
        BY <1>1, <1>3, <1>4, <2>1
    <2> QED BY <1>4, <2>2 DEF Queued
<1>5. CASE /\ stage[c] \in {"header", "content"}
           /\ stage'[c] = stage[c] /\ hand'[c] = hand[c]
           /\ queue'[c] = Append(queue[c], m)
           /\ accepted'[c] = Append(accepted[c], m)
    <2> DEFINE sent == Len(accepted[c]) - Len(queue[c])
    <2>1. /\ sent \in 1..Len(accepted[c]) /\ hand[c] = accepted[c][sent]
          /\ \A j \in 1..Len(queue[c]) : queue[c][j] = accepted[c][sent + j]
        BY <1>5 DEF Queued
    <2>2. /\ Len(accepted'[c]) - Len(queue'[c]) = sent
          /\ sent \in 1..Len(accepted'[c])
          /\ Len(queue'[c]) = Len(queue[c]) + 1
          /\ \A j \in 1..Len(queue[c]) + 1 :
                \/ j = Len(queue[c]) + 1 /\ sent + j = Len(accepted[c]) + 1
                \/ j \in 1..Len(queue[c]) /\ sent + j \in 1..Len(accepted[c])
        <3>1. /\ Len(accepted'[c]) = Len(accepted[c]) + 1
              /\ Len(queue'[c]) = Len(queue[c]) + 1
            BY <1>3, <1>5
        <3>2. /\ (Len(accepted[c]) + 1) - (Len(queue[c]) + 1) = sent
              /\ sent \in 1..Len(accepted[c]) + 1
              /\ \A j \in 1..Len(queue[c]) + 1 :
                    \/ j = Len(queue[c]) + 1 /\ sent + j = Len(accepted[c]) + 1
                    \/ j \in 1..Len(queue[c]) /\ sent + j \in 1..Len(accepted[c])
            BY <1>1, <2>1, OneMore, Zenon
        <3> QED BY <3>1, <3>2
    <2>3. hand'[c] = accepted'[c][sent]
        BY <1>3, <1>5, <2>1
    <2>4. ASSUME NEW j \in 1..Len(queue[c]) + 1
          PROVE  queue'[c][j] = accepted'[c][sent + j]
        <3>1. CASE j = Len(queue[c]) + 1 /\ sent + j = Len(accepted[c]) + 1
            BY <1>3, <1>5, <3>1
        <3>2. CASE j \in 1..Len(queue[c]) /\ sent + j \in 1..Len(accepted[c])
            BY <1>3, <1>5, <2>1, <3>2
        <3> QED BY <2>2, <3>1, <3>2
    <2> HIDE DEF sent
    <2> QED BY <1>5, <2>2, <2>3, <2>4 DEF Queued
<1>6. CASE /\ stage'[c] = stage[c] /\ hand'[c] = hand[c]
           /\ queue'[c] = queue[c] /\ accepted'[c] = accepted[c]
    BY <1>2, <1>6, SameQueued DEF Queued
<1>7. CASE stage[c] = "failed" /\ stage'[c] = "failed"
    BY <1>2, <1>7 DEF Queued
<1> QED BY <1>4, <1>5, <1>6, <1>7, HandleEffect

LEMMA WorkerQueued ==
    ASSUME TypeOK, QueueInv, NEW c \in Connections, Worker(c)
    PROVE  QueueInv'
<1> SUFFICES ASSUME NEW d \in Connections PROVE Queued(d)'
    BY DEF QueueInv
<1>1. Queued(d) /\ Queued(c)
    BY DEF QueueInv
<1>2. /\ stage \in [Connections -> Stages] /\ hand \in [Connections -> 0..handed]
      /\ queue \in [Connections -> Seq(1..handed)]
    BY DEF TypeOK, ThingTypeOK
<1>3. CASE Accept(c)
    <2>1. /\ stage[c] = "backlog" /\ stage' = [stage EXCEPT ![c] = "receive"]
          /\ UNCHANGED <<hand, queue, wire, gone, accepted, cut>>
        BY <1>3 DEF Accept
    <2>2. CASE d = c
        <3>1. stage'[c] = "receive" /\ queue'[c] = <<>>
            BY <1>1, <1>2, <2>1 DEF Queued
        <3> QED BY <2>2, <3>1 DEF Queued
    <2>3. CASE d # c
        BY <1>1, <1>2, <2>1, <2>3, SameQueued DEF Queued
    <2> QED BY <2>2, <2>3
<1>4. CASE SendHeader(c)
    <2>1. /\ stage[c] = "header" /\ stage' = [stage EXCEPT ![c] = "content"]
          /\ UNCHANGED <<hand, queue, gone, accepted>>
          /\ Send(c, Header(hand[c]))
        BY <1>4 DEF SendHeader
    <2>2. Header(hand[c]) \in Seq(Bytes)
        BY <2>1, HandType, Types, Pieces
    <2>3. \A e \in Connections \ {c} : wire'[e] = wire[e] /\ (e \in cut' => e \in cut)
        BY <2>1, <2>2, SendEffect
    <2>4. CASE d = c
        <3>1. stage'[c] = "content"
            BY <1>2, <2>1
        <3> QED BY <1>1, <2>1, <2>4, <3>1 DEF Queued
    <2>5. CASE d # c
        BY <1>1, <1>2, <2>1, <2>3, <2>5, SameQueued DEF Queued
    <2> QED BY <2>4, <2>5
<1>5. CASE SendContent(c)
    <2>1. /\ stage[c] = "content" /\ ReceiveMessage(c)
          /\ UNCHANGED <<gone, accepted>>
          /\ Send(c, Content(hand[c]))
        BY <1>5 DEF SendContent
    <2>2. Content(hand[c]) \in Seq(Bytes)
        BY <2>1, HandType, Types, Pieces
    <2>3. \A e \in Connections \ {c} : wire'[e] = wire[e] /\ (e \in cut' => e \in cut)
        BY <2>1, <2>2, SendEffect
    <2>4. CASE d = c
        BY <1>1, <2>1, <2>4, ReceiveMessageQueued
    <2>5. CASE d # c
        <3>1. stage'[d] = stage[d] /\ hand'[d] = hand[d] /\ queue'[d] = queue[d]
            BY <1>2, <2>1, <2>5 DEF ReceiveMessage, AwaitNextMessage
        <3> QED BY <1>1, <2>1, <2>3, <2>5, <3>1, SameQueued DEF Queued
    <2> QED BY <2>4, <2>5
<1>6. CASE AcceptTooLate(c)
    <2>1. /\ stage[c] = "backlog" /\ stage' = [stage EXCEPT ![c] = "closed"]
          /\ UNCHANGED <<hand, queue, wire, gone, accepted, cut>>
        BY <1>6 DEF AcceptTooLate
    <2>2. CASE d = c
        <3>1. stage'[c] = "closed" /\ queue'[c] = <<>>
            BY <1>1, <1>2, <2>1 DEF Queued
        <3> QED BY <2>2, <3>1 DEF Queued
    <2>3. CASE d # c
        BY <1>1, <1>2, <2>1, <2>3, SameQueued DEF Queued
    <2> QED BY <2>2, <2>3
<1>7. CASE SendFails(c)
    <2>1. /\ c \in gone /\ stage' = [stage EXCEPT ![c] = "failed"]
          /\ hand' = [hand EXCEPT ![c] = 0]
          /\ UNCHANGED <<queue, wire, gone, accepted, cut>>
        BY <1>7 DEF SendFails
    <2>2. CASE d = c
        <3>1. stage'[c] = "failed" /\ c \in gone'
            BY <1>2, <2>1
        <3> QED BY <2>2, <3>1 DEF Queued
    <2>3. CASE d # c
        <3>1. stage'[d] = stage[d] /\ hand'[d] = hand[d]
            BY <1>2, <2>1, <2>3
        <3> QED BY <1>1, <2>1, <3>1, SameQueued DEF Queued
    <2> QED BY <2>2, <2>3
<1> QED BY <1>3, <1>4, <1>5, <1>6, <1>7 DEF Worker

LEMMA BotQueued ==
    ASSUME TypeOK, QueueInv, BotEnds \/ BotStarts
    PROVE  QueueInv'
<1> SUFFICES ASSUME NEW d \in Connections PROVE Queued(d)'
    BY DEF QueueInv
<1>1. Queued(d)
    BY DEF QueueInv
<1>2. CASE BotEnds
    <2>1. /\ stage'[d] = IF stage[d] = "none" THEN "none" ELSE "closed"
          /\ queue'[d] = <<>>
          /\ UNCHANGED <<wire, gone, accepted, cut>>
        BY <1>2 DEF BotEnds
    <2> QED BY <1>1, <2>1 DEF Queued
<1>3. CASE BotStarts
    BY <1>1, <1>3, SameQueued DEF BotStarts, Queued
<1> QED BY <1>2, <1>3

\* tcp_worker and the interrupts: no client changes but the one that connects.
LEMMA SinkQueued ==
    ASSUME TypeOK, QueueInv, ConnInv, TcpWorker \/ Interrupt \/ InterruptAgain
    PROVE  QueueInv'
<1> SUFFICES ASSUME NEW d \in Connections PROVE Queued(d)'
    BY DEF QueueInv
<1>1. Queued(d)
    BY DEF QueueInv
<1>2. CASE ConnectFails \/ WaitEnds \/ ReadNothing \/ Exit
    <2>1. UNCHANGED thingVars
        BY <1>2 DEF ConnectFails, WaitEnds, ReadNothing, Exit
    <2> QED BY <1>1, <2>1, SameQueued DEF thingVars, Queued
<1>3. CASE Connected
    <2>1. /\ stage[conn'] = "none" /\ stage' = [stage EXCEPT ![conn'] = "backlog"]
          /\ conn' \in Connections /\ UNCHANGED <<hand, queue, wire, gone, accepted, cut>>
        BY <1>3 DEF Connected, Arrives
    <2>2. stage \in [Connections -> Stages]
        BY DEF TypeOK, ThingTypeOK
    <2>3. CASE d = conn'
        <3>1. stage'[d] = "backlog"
            BY <2>1, <2>2, <2>3
        <3> QED BY <1>1, <2>1, <2>3, <3>1 DEF Queued
    <2>4. CASE d # conn'
        <3>1. /\ stage'[d] = stage[d] /\ hand'[d] = hand[d] /\ queue'[d] = queue[d]
              /\ accepted'[d] = accepted[d] /\ wire'[d] = wire[d]
              /\ cut' = cut /\ gone' = gone
            BY <2>1, <2>2, <2>4
        <3>2. /\ stage[d] \in {"none", "backlog"} => wire[d] = <<>> /\ d \notin cut
              /\ stage[d] = "none" => d \notin gone
              /\ stage[d] = "failed" => d \in gone
            BY <1>1 DEF Queued
        <3> QED BY <1>1, <3>1, <3>2, SameQueued
    <2> QED BY <2>3, <2>4
<1>4. CASE ReadHeader \/ ReadContent
    <2>1. PICK wanted \in Nat : \E bytes \in Arrived(wanted) : Receive(bytes, wanted)
        BY <1>4, SizeType, SizesAssumption DEF ReadHeader, ReadContent
    <2>2. conn \in Connections /\ UNCHANGED <<stage, hand, queue, gone, accepted>>
        BY <1>4, ReadingConn DEF ReadHeader, ReadContent
    <2>3. /\ wire[conn] # <<>>
          /\ \A e \in Connections \ {conn} : wire'[e] = wire[e] /\ (e \in cut' => e \in cut)
        BY <2>1, <2>2, ReceiveEffect
    <2>4. stage[conn] \notin {"none", "backlog"}
        BY <2>2, <2>3 DEF QueueInv, Queued
    <2> QED BY <1>1, <2>2, <2>3, <2>4, SameQueued DEF Queued
<1>5. CASE ReadFails \/ Interrupt \/ InterruptAgain
    <2>1. /\ DropUnread /\ UNCHANGED <<stage, hand, queue, accepted, cut>>
          /\ gone' = gone \/ (conn \in Connections /\ stage[conn] # "none"
                              /\ gone' = gone \cup {conn})
        BY <1>5 DEF ReadFails, Interrupt, InterruptAgain, CloseSocket, ConnInv
    <2>2. wire'[d] = wire[d] \/ wire'[d] = <<>>
        BY <2>1, DropEffect
    <2> QED BY <1>1, <2>1, <2>2, SameQueued DEF Queued
<1> QED BY <1>2, <1>3, <1>4, <1>5 DEF TcpWorker

LEMMA NextQueueInv == TypeOK /\ QueueInv /\ ConnInv /\ [Next]_vars => QueueInv'
<1> SUFFICES ASSUME TypeOK, QueueInv, ConnInv, [Next]_vars PROVE QueueInv'
    OBVIOUS
<1>1. CASE ThingNext
    BY <1>1, WorkerQueued, HandleQueued, BotQueued DEF ThingNext, QueueInv
<1>2. CASE TcpWorker \/ Interrupt \/ InterruptAgain
    BY <1>2, SinkQueued
<1>3. CASE UNCHANGED vars
    <2>1. UNCHANGED <<stage, hand, queue, wire, gone, accepted, cut>>
        BY <1>3 DEF vars, thingVars
    <2> QED BY <2>1, SameQueued DEF QueueInv, Queued
<1> QED BY <1>1, <1>2, <1>3 DEF Next

LEMMA NextConnInv == TypeOK /\ QueueInv /\ ConnInv /\ [Next]_vars => ConnInv'
<1> SUFFICES ASSUME TypeOK, QueueInv, ConnInv, [Next]_vars PROVE ConnInv'
    OBVIOUS
<1>1. stage \in [Connections -> Stages] /\ hand \in [Connections -> 0..handed]
    BY DEF TypeOK, ThingTypeOK
<1>2. CASE ThingNext /\ UNCHANGED sinkVars
    <2>1. UNCHANGED <<where, sock, conn, gone>>
        BY <1>2 DEF sinkVars, ThingNext, Worker, Accept, AcceptTooLate, SendHeader,
                    SendContent, SendFails, Handle, BotEnds, BotStarts
    <2>2. ASSUME NEW c \in Connections, stage[c] # "none"
          PROVE  stage'[c] # "none"
        <3>1. CASE \E d \in Connections : Worker(d)
            BY <1>1, <2>2, <3>1 DEF Worker, Accept, AcceptTooLate, SendHeader,
                                    SendContent, SendFails, ReceiveMessage,
                                    AwaitNextMessage
        <3>2. CASE Handle
            BY <2>2, <3>2, HandleEffect
        <3>3. CASE BotEnds \/ BotStarts
            BY <2>2, <3>3 DEF BotEnds, BotStarts
        <3> QED BY <1>2, <3>1, <3>2, <3>3 DEF ThingNext
    <2> QED BY <2>1, <2>2 DEF ConnInv
<1>3. CASE Connected
    <2>1. /\ stage[conn'] = "none" /\ stage' = [stage EXCEPT ![conn'] = "backlog"]
          /\ conn' = conn + 1 /\ conn' \in Connections /\ UNCHANGED gone
        BY <1>3 DEF Connected, Arrives
    <2>2. conn' \notin gone /\ stage'[conn'] = "backlog"
        BY <1>1, <2>1 DEF QueueInv, Queued
    <2>3. conn' \in Nat /\ conn' # 0
        BY <2>1 DEF ConnInv
    <2> QED BY <2>1, <2>2, <2>3 DEF ConnInv
<1>4. CASE ConnectFails \/ WaitEnds \/ ReadHeader \/ ReadNothing \/ ReadContent
           \/ ReadFails \/ Exit \/ Interrupt \/ InterruptAgain
    <2>1. /\ UNCHANGED <<stage, conn>>
          /\ sock' = "connected" => sock = "connected" /\ gone' = gone
          /\ where' \in {"header", "content"} => where \in {"header", "content"}
        BY <1>4 DEF ConnectFails, WaitEnds, ReadHeader, ReadNothing, ReadContent,
                    ReadFails, Exit, Interrupt, InterruptAgain, StartConnect, CloseSocket,
                    thingVars
    <2> QED BY <2>1 DEF ConnInv
<1>5. CASE UNCHANGED vars
    BY <1>5 DEF vars, thingVars, sinkVars, ConnInv
<1> QED BY <1>2, <1>3, <1>4, <1>5 DEF Next, TcpWorker

-----------------------------------------------------------------------------
\* The stream of the connection in use

LEMMA BeforeTheEnd ==
    ASSUME NEW n \in Nat, NEW i \in 1..n
    PROVE  i < n + 1 /\ i \in 1..n + 1 /\ i + 1 \in 1..n + 1
OBVIOUS

LEMMA HeaderFits ==
    ASSUME NEW o \in Nat, NEW f \in Nat, NEW h \in Nat, NEW q \in Nat, NEW e \in Nat,
           f <= e - o, f = h + q
    PROVE  o + h \in Nat /\ o + h <= e /\ o <= e
OBVIOUS

LEMMA WrittenFacts ==
    ASSUME TypeOK, NEW c \in Connections, Queued(c), NEW off, Starts(off, accepted[c])
    PROVE  /\ Written(c, off) \in Nat
           /\ off[Len(accepted[c]) + 1] \in Nat
           /\ Written(c, off) <= off[Len(accepted[c]) + 1]
<1> DEFINE a == accepted[c]
           n == Len(accepted[c])
           sent == Len(accepted[c]) - Len(queue[c])
<1>1. n \in Nat /\ a \in Seq(Messages)
    BY Types
<1>2. /\ \A i \in 1..n + 1 : off[i] \in Nat
      /\ \A i \in 1..n : Frame(a[i]) \in Nat /\ a[i] \in Messages /\ off[i] \in Nat
      /\ \A i \in 1..n : \A j \in 1..n + 1 : i < j => off[i] + Frame(a[i]) <= off[j]
    BY <1>1, StartsFacts
<1>3. n + 1 \in 1..n + 1
    BY <1>1
<1>4. CASE stage[c] \in {"header", "content"}
    <2>1. sent \in 1..n
        BY <1>4 DEF Queued
    <2>2. sent < n + 1
        BY <1>1, <2>1, BeforeTheEnd
    <2>3. off[sent] \in Nat /\ Frame(a[sent]) \in Nat /\ off[n + 1] \in Nat
          /\ off[sent] + Frame(a[sent]) <= off[n + 1]
        BY <1>2, <1>3, <2>1, <2>2
    <2>4. /\ HeaderSize \in Nat /\ Contents[a[sent]] \in Nat
          /\ Frame(a[sent]) = HeaderSize + Contents[a[sent]]
        BY <1>2, <2>1, FrameType
    <2>5. /\ off[sent] + HeaderSize \in Nat
          /\ off[sent] + HeaderSize <= off[n + 1] /\ off[sent] <= off[n + 1]
        <3> DEFINE o == off[sent]
                   e == off[n + 1]
                   f == Frame(a[sent])
                   q == Contents[a[sent]]
        <3>1. o \in Nat /\ e \in Nat /\ f \in Nat /\ q \in Nat /\ o + f <= e
            BY <2>3, <2>4
        <3>2. f = HeaderSize + q /\ HeaderSize \in Nat
            BY <2>4
        <3> HIDE DEF o, e, f, q
        <3>3. f <= e - o
            BY <3>1
        <3>4. o + HeaderSize \in Nat /\ o + HeaderSize <= e /\ o <= e
            BY <3>1, <3>2, <3>3, HeaderFits
        <3> QED BY <3>4 DEF o, e
    <2>6. Written(c, off) = off[sent] \/ Written(c, off) = off[sent] + HeaderSize
        BY <1>4 DEF Written
    <2> HIDE DEF sent, n
    <2> QED BY <2>3, <2>5, <2>6 DEF n
<1>5. CASE stage[c] \notin {"header", "content"}
    <2>1. Written(c, off) = off[n + 1]
        BY <1>5 DEF Written
    <2>2. off[n + 1] \in Nat
        BY <1>2, <1>3
    <2> QED BY <2>1, <2>2
<1> QED BY <1>4, <1>5

\* Where tcp_worker reads.
Reading == conn # 0 /\ conn \notin cut /\ sock = "connected" /\ where \in {"header", "content"}

\* What holds of a stream that is read.
LEMMA AlignedFacts ==
    ASSUME TypeOK, QueueInv, ConnInv, ShownInv, Reading, NEW off, Aligned(off)
    PROVE  /\ conn \in Connections /\ conn \notin gone
           /\ accepted[conn] \in Seq(Messages) /\ Len(accepted[conn]) \in Nat
           /\ wire[conn] \in Seq(Bytes) /\ Len(wire[conn]) \in Nat
           /\ Starts(off, accepted[conn])
           /\ Carries(wire[conn], ReadSoFar(off), off, accepted[conn])
           /\ off[Len(lines) + 1] \in Nat /\ ReadSoFar(off) \in Nat
           /\ Written(conn, off) \in Nat
           /\ Len(lines) \in Nat /\ Len(lines) <= Len(accepted[conn])
           /\ ReadSoFar(off) + Len(wire[conn]) <= off[Len(accepted[conn]) + 1]
           /\ stage[conn] # "closed" =>
                ReadSoFar(off) + Len(wire[conn]) = Written(conn, off)
<1>1. conn \in Connections /\ conn \notin gone
    BY DEF ConnInv, Reading
<1>2. /\ accepted[conn] \in Seq(Messages) /\ Len(accepted[conn]) \in Nat
      /\ wire[conn] \in Seq(Bytes) /\ Len(wire[conn]) \in Nat /\ Len(lines) \in Nat
    BY <1>1, Types
<1>3. /\ Starts(off, accepted[conn])
      /\ Carries(wire[conn], ReadSoFar(off), off, accepted[conn])
      /\ IF stage[conn] = "closed"
         THEN ReadSoFar(off) + Len(wire[conn]) <= Written(conn, off)
         ELSE ReadSoFar(off) + Len(wire[conn]) = Written(conn, off)
    BY DEF Aligned
<1>4. Len(lines) <= Len(accepted[conn])
    BY DEF ShownInv, Reading
<1>5. off[Len(lines) + 1] \in Nat
    <2>1. Len(lines) + 1 \in 1..Len(accepted[conn]) + 1
        BY <1>2, <1>4
    <2> QED BY <1>2, <1>3, <2>1, StartsFacts
<1>6. ReadSoFar(off) \in Nat
    BY <1>5, SizesAssumption DEF ReadSoFar
<1>7. /\ Written(conn, off) \in Nat /\ off[Len(accepted[conn]) + 1] \in Nat
      /\ Written(conn, off) <= off[Len(accepted[conn]) + 1]
    BY <1>1, <1>3, WrittenFacts DEF QueueInv
<1>8. ReadSoFar(off) + Len(wire[conn]) <= off[Len(accepted[conn]) + 1]
    <2> DEFINE r == ReadSoFar(off)
               l == Len(wire[conn])
               w == Written(conn, off)
               e == off[Len(accepted[conn]) + 1]
    <2>1. r \in Nat /\ l \in Nat /\ w \in Nat /\ e \in Nat /\ w <= e
          /\ (r + l <= w \/ r + l = w)
        BY <1>2, <1>3, <1>6, <1>7
    <2> HIDE DEF r, l, w, e
    <2>2. r + l <= e
        BY <2>1
    <2> QED BY <2>2 DEF r, l, e
<1> QED BY <1>1, <1>2, <1>3, <1>4, <1>5, <1>6, <1>7, <1>8

\* Bytes that arrive where a header is expected are of a message not yet shown.
LEMMA NotYetShown ==
    ASSUME TypeOK, QueueInv, ConnInv, ShownInv, Reading, NEW off, Aligned(off),
           where = "header", wire[conn] # <<>>
    PROVE  Len(lines) + 1 \in 1..Len(accepted[conn])
<1>1. /\ Len(wire[conn]) \in Nat /\ wire[conn] \in Seq(Bytes)
      /\ off[Len(lines) + 1] \in Nat /\ Len(accepted[conn]) \in Nat
      /\ Len(lines) \in Nat /\ Len(lines) <= Len(accepted[conn])
      /\ ReadSoFar(off) + Len(wire[conn]) <= off[Len(accepted[conn]) + 1]
    BY AlignedFacts
<1>2. Len(wire[conn]) > 0
    BY <1>1, EmptySeq
<1>3. ReadSoFar(off) = off[Len(lines) + 1]
    BY <1>1 DEF ReadSoFar
<1>4. Len(lines) # Len(accepted[conn])
    BY <1>1, <1>2, <1>3
<1> QED BY <1>1, <1>4

-----------------------------------------------------------------------------
\* What the thing does to the stream

LEMMA ThingShown ==
    ASSUME TypeOK, ConnInv, ShownInv, UNCHANGED sinkVars, cut \subseteq cut',
           conn # 0 => \/ accepted'[conn] = accepted[conn]
                       \/ \E m \in Messages : accepted'[conn] = Append(accepted[conn], m)
    PROVE  ShownInv'
<1> SUFFICES ASSUME conn # 0, conn \notin cut'
             PROVE  LET taken == accepted'[conn]
                    IN  /\ Len(lines) <= Len(taken)
                        /\ \A i \in 1..Len(lines) : lines[i] = Content(taken[i])
                        /\ where = "content" =>
                            /\ Len(lines) < Len(taken)
                            /\ size = Contents[taken[Len(lines) + 1]]
    BY DEF ShownInv, sinkVars
<1> DEFINE a == accepted[conn]
<1>1. conn \in Connections
    BY DEF ConnInv
<1>2. /\ Len(lines) <= Len(a)
      /\ \A i \in 1..Len(lines) : lines[i] = Content(a[i])
      /\ where = "content" => Len(lines) < Len(a) /\ size = Contents[a[Len(lines) + 1]]
    BY DEF ShownInv
<1>3. a \in Seq(Messages) /\ Len(a) \in Nat /\ Len(lines) \in Nat
    BY <1>1, Types
<1>4. CASE accepted'[conn] = a
    BY <1>2, <1>4
<1>5. CASE \E m \in Messages : accepted'[conn] = Append(a, m)
    <2>1. PICK m \in Messages : accepted'[conn] = Append(a, m)
        BY <1>5
    <2>2. /\ Len(accepted'[conn]) = Len(a) + 1
          /\ \A i \in 1..Len(a) : accepted'[conn][i] = a[i]
        BY <1>3, <2>1, AppendProperties
    <2> HIDE DEF a
    <2>3. /\ Len(lines) <= Len(accepted'[conn])
          /\ \A i \in 1..Len(lines) : i \in 1..Len(a)
          /\ Len(lines) < Len(a) =>
                Len(lines) + 1 \in 1..Len(a) /\ Len(lines) < Len(accepted'[conn])
        BY <1>2, <1>3, <2>2
    <2> QED BY <1>2, <2>2, <2>3
<1> QED BY <1>4, <1>5

\* The step of another client.
LEMMA SameStream ==
    ASSUME NEW off, Aligned(off), UNCHANGED sinkVars,
           accepted'[conn] = accepted[conn], wire'[conn] = wire[conn],
           queue'[conn] = queue[conn],
           stage'[conn] = stage[conn] \/ (stage[conn] = "backlog" /\ stage'[conn] = "receive")
    PROVE  Aligned(off)'
<1>1. Written(conn, off)' = Written(conn, off) /\ ReadSoFar(off)' = ReadSoFar(off)
    BY DEF Written, ReadSoFar, sinkVars
<1>2. stage'[conn] = "closed" <=> stage[conn] = "closed"
    OBVIOUS
<1>3. conn' = conn
    BY DEF sinkVars
<1> QED BY <1>1, <1>2, <1>3 DEF Aligned

LEMMA SumsAgree ==
    /\ \A x \in Nat : x + 0 = x
    /\ \A x, y, z \in Nat : x + (y + z) = (x + y) + z
    /\ \A x, y, z \in Nat : (x + y) + (z - y) = x + z
    /\ \A r, l, q, o, h \in Nat : r + l = o + h => r + (l + q) = o + (h + q)
OBVIOUS

\* The message in hand, and where its frame starts.
LEMMA InHand ==
    ASSUME TypeOK, QueueInv, ConnInv, ShownInv, Reading, NEW off, Aligned(off),
           stage[conn] \in {"header", "content"}
    PROVE  LET sent == Len(accepted[conn]) - Len(queue[conn])
           IN  /\ sent \in 1..Len(accepted[conn]) /\ hand[conn] = accepted[conn][sent]
               /\ hand[conn] \in 1..handed /\ hand[conn] \in Messages /\ handed \in Nat
               /\ off[sent] \in Nat
               /\ ReadSoFar(off) + Len(wire[conn]) =
                    off[sent] + (IF stage[conn] = "content" THEN HeaderSize ELSE 0)
<1> DEFINE sent == Len(accepted[conn]) - Len(queue[conn])
<1>1. conn \in Connections /\ Queued(conn)
    BY DEF QueueInv, ConnInv, Reading
<1>2. sent \in 1..Len(accepted[conn]) /\ hand[conn] = accepted[conn][sent]
    BY <1>1 DEF Queued
<1>3. hand[conn] \in 1..handed /\ hand[conn] \in Messages /\ handed \in Nat
    BY <1>1, HandType, Types
<1>4. /\ accepted[conn] \in Seq(Messages) /\ Starts(off, accepted[conn])
      /\ stage[conn] # "closed" =>
            ReadSoFar(off) + Len(wire[conn]) = Written(conn, off)
    BY AlignedFacts
<1>5. off[sent] \in Nat
    BY <1>2, <1>4, StartsFacts
<1>6. stage[conn] # "closed"
    OBVIOUS
<1>7. Written(conn, off) = off[sent] + (IF stage[conn] = "content" THEN HeaderSize ELSE 0)
    <2>1. CASE stage[conn] = "header"
        <3>1. Written(conn, off) = off[sent]
            BY <2>1 DEF Written
        <3>2. off[sent] + 0 = off[sent]
            BY <1>5, SumsAgree
        <3> QED BY <2>1, <3>1, <3>2
    <2>2. CASE stage[conn] = "content"
        BY <2>2 DEF Written
    <2> QED BY <2>1, <2>2
<1>8. ReadSoFar(off) + Len(wire[conn]) = Written(conn, off)
    BY <1>4, <1>6
<1> QED BY <1>2, <1>3, <1>5, <1>7, <1>8

LEMMA SendHeaderStream ==
    ASSUME TypeOK, QueueInv, ConnInv, ShownInv, Reading, NEW off, Aligned(off),
           UNCHANGED sinkVars, SendHeader(conn), conn \notin cut'
    PROVE  Aligned(off)'
<1> DEFINE a    == accepted[conn]
           sent == Len(accepted[conn]) - Len(queue[conn])
           b    == Header(hand[conn])
           r    == ReadSoFar(off)
           w    == wire[conn]
<1>1. /\ stage[conn] = "header" /\ stage' = [stage EXCEPT ![conn] = "content"]
      /\ UNCHANGED <<queue, accepted>> /\ Send(conn, b)
    BY DEF SendHeader
<1>2. /\ sent \in 1..Len(a) /\ hand[conn] = a[sent]
      /\ hand[conn] \in 1..handed /\ hand[conn] \in Messages /\ handed \in Nat
      /\ off[sent] \in Nat
      /\ r + Len(w) = off[sent] + (IF stage[conn] = "content" THEN HeaderSize ELSE 0)
    BY <1>1, InHand
<1>3. /\ conn \in Connections /\ conn \notin gone /\ a \in Seq(Messages)
      /\ w \in Seq(Bytes) /\ Len(w) \in Nat
      /\ Starts(off, a) /\ Carries(w, r, off, a) /\ r \in Nat
    BY AlignedFacts
<1>4. /\ b \in Seq(Bytes) /\ Len(b) = HeaderSize /\ PartOf(b, a[sent], 0)
    BY <1>2, Pieces DEF Bytes
<1>5. /\ 0 + Len(b) <= Frame(a[sent]) /\ 0 \in Nat
    <2>1. /\ Frame(a[sent]) = HeaderSize + Contents[a[sent]]
          /\ HeaderSize \in Nat /\ Contents[a[sent]] \in Nat
        BY <1>2, FrameType
    <2> QED BY <1>4, <2>1
<1>6. r + Len(w) = off[sent] + 0
    BY <1>1, <1>2
<1>7. wire'[conn] = w \o b
    BY <1>1, <1>3, <1>4, SendEffect
<1>8. stage'[conn] = "content"
    BY <1>1, <1>3 DEF TypeOK, ThingTypeOK
<1> HIDE DEF b, r, w, a, sent
<1>9. Carries(w \o b, r, off, a)
    BY <1>2, <1>3, <1>4, <1>5, <1>6, WriteKeeps
<1>10. Len(w \o b) = Len(w) + HeaderSize
    BY <1>3, <1>4, ConcatProperties
<1>11. r + Len(w \o b) = off[sent] + HeaderSize
    BY <1>2, <1>3, <1>6, <1>10, SizesAssumption
<1>12. Written(conn, off)' = off[sent] + HeaderSize
    BY <1>1, <1>8 DEF Written, sinkVars, sent
<1>13. /\ ReadSoFar(off)' = r /\ conn' = conn /\ accepted'[conn] = a
    BY <1>1 DEF ReadSoFar, sinkVars, r, a
<1> QED BY <1>3, <1>7, <1>8, <1>9, <1>11, <1>12, <1>13 DEF Aligned

LEMMA SendContentStream ==
    ASSUME TypeOK, QueueInv, ConnInv, ShownInv, Reading, NEW off, Aligned(off),
           UNCHANGED sinkVars, SendContent(conn), conn \notin cut'
    PROVE  Aligned(off)'
<1> DEFINE a    == accepted[conn]
           sent == Len(accepted[conn]) - Len(queue[conn])
           b    == Content(hand[conn])
           r    == ReadSoFar(off)
           w    == wire[conn]
<1>1. /\ stage[conn] = "content" /\ ReceiveMessage(conn)
      /\ UNCHANGED accepted /\ Send(conn, b)
    BY DEF SendContent
<1>2. /\ sent \in 1..Len(a) /\ hand[conn] = a[sent]
      /\ hand[conn] \in 1..handed /\ hand[conn] \in Messages /\ handed \in Nat
      /\ off[sent] \in Nat
      /\ r + Len(w) = off[sent] + (IF stage[conn] = "content" THEN HeaderSize ELSE 0)
    BY <1>1, InHand
<1>3. /\ conn \in Connections /\ conn \notin gone /\ a \in Seq(Messages)
      /\ Len(a) \in Nat /\ w \in Seq(Bytes) /\ Len(w) \in Nat
      /\ Starts(off, a) /\ Carries(w, r, off, a) /\ r \in Nat
    BY AlignedFacts
<1>4. /\ b \in Seq(Bytes) /\ Len(b) = Contents[a[sent]] /\ PartOf(b, a[sent], HeaderSize)
    BY <1>2, Pieces DEF Bytes
<1>5. /\ Frame(a[sent]) = HeaderSize + Contents[a[sent]] /\ Frame(a[sent]) \in Nat
      /\ HeaderSize \in Nat /\ Contents[a[sent]] \in Nat
      /\ HeaderSize + Len(b) <= Frame(a[sent])
    <2>1. /\ Frame(a[sent]) = HeaderSize + Contents[a[sent]] /\ Frame(a[sent]) \in Nat
          /\ HeaderSize \in Nat /\ Contents[a[sent]] \in Nat
        BY <1>2, FrameType
    <2> QED BY <1>4, <2>1
<1>6. r + Len(w) = off[sent] + HeaderSize
    BY <1>1, <1>2
<1>7. wire'[conn] = w \o b
    BY <1>1, <1>3, <1>4, SendEffect
<1>8. /\ off[sent + 1] = off[sent] + Frame(a[sent])
    BY <1>2, <1>3, StartsFacts
<1>9. /\ stage'[conn] # "closed"
      /\ Written(conn, off)' = off[sent + 1]
    <2>1. /\ stage \in [Connections -> Stages] /\ queue \in [Connections -> Seq(1..handed)]
          /\ queue[conn] \in Seq(1..handed) /\ Len(queue[conn]) \in Nat
        BY <1>3, Types DEF TypeOK, ThingTypeOK
    <2>2. CASE queue[conn] = <<>>
        <3>1. /\ stage' = [stage EXCEPT ![conn] = "receive"] /\ queue' = queue
            BY <1>1, <2>2 DEF ReceiveMessage, AwaitNextMessage
        <3>2. stage'[conn] = "receive"
            BY <1>3, <2>1, <3>1
        <3>3. Written(conn, off)' = off[Len(a) + 1]
            BY <1>1, <3>2 DEF Written, sinkVars
        <3>4. sent = Len(a)
            BY <1>3, <2>2, EmptySeq
        <3> QED BY <3>2, <3>3, <3>4
    <2>3. CASE queue[conn] # <<>>
        <3>1. /\ stage' = [stage EXCEPT ![conn] = "header"]
              /\ queue' = [queue EXCEPT ![conn] = Tail(queue[conn])]
            BY <1>1, <2>3 DEF ReceiveMessage
        <3>2. stage'[conn] = "header" /\ queue'[conn] = Tail(queue[conn])
            BY <1>3, <2>1, <3>1
        <3>3. Len(Tail(queue[conn])) = Len(queue[conn]) - 1
            BY <2>1, <2>3, HeadTailProperties
        <3>4. Len(accepted'[conn]) - Len(queue'[conn]) = sent + 1
            <4> DEFINE n == Len(accepted[conn])
                       q == Len(queue[conn])
            <4>1. n \in Nat /\ q \in Nat
                BY <1>3, <2>1
            <4>2. Len(accepted'[conn]) = n /\ Len(queue'[conn]) = q - 1
                BY <1>1, <3>2, <3>3
            <4> HIDE DEF n, q
            <4>3. n - (q - 1) = (n - q) + 1
                BY <4>1
            <4> QED BY <4>2, <4>3 DEF n, q
        <3>5. Written(conn, off)' = off[sent + 1]
            BY <3>2, <3>4 DEF Written, sinkVars
        <3> QED BY <3>2, <3>5
    <2> QED BY <2>2, <2>3
<1> HIDE DEF b, r, w, a, sent
<1>10. Carries(w \o b, r, off, a)
    BY <1>2, <1>3, <1>4, <1>5, <1>6, WriteKeeps
<1>11. Len(w \o b) = Len(w) + Contents[a[sent]]
    <2>1. Len(w \o b) = Len(w) + Len(b)
        BY <1>3, <1>4, ConcatProperties
    <2> QED BY <1>4, <2>1
<1>12. r + Len(w \o b) = off[sent + 1]
    <2> DEFINE o == off[sent]
               q == Contents[a[sent]]
               l == Len(w)
    <2>1. /\ o \in Nat /\ q \in Nat /\ l \in Nat /\ r + l = o + HeaderSize
          /\ Frame(a[sent]) = HeaderSize + q
        BY <1>2, <1>3, <1>5, <1>6
    <2> HIDE DEF o, q, l
    <2>2. r + (l + q) = o + (HeaderSize + q)
        BY <1>3, <1>5, <2>1, SumsAgree
    <2> QED BY <1>8, <1>11, <2>1, <2>2 DEF o, q, l
<1>13. /\ ReadSoFar(off)' = r /\ conn' = conn /\ accepted'[conn] = a
    BY <1>1 DEF ReadSoFar, sinkVars, r, a
<1> QED BY <1>3, <1>7, <1>9, <1>10, <1>12, <1>13 DEF Aligned

LEMMA HandleStream ==
    ASSUME TypeOK, QueueInv, ConnInv, ShownInv, Reading, NEW off, Aligned(off),
           UNCHANGED sinkVars, Handle
    PROVE  \E new \in [1..Len(accepted'[conn]) + 1 -> Nat] : Aligned(new)'
<1> DEFINE a == accepted[conn]
           m == handed + 1
           sent == Len(accepted[conn]) - Len(queue[conn])
<1>1. /\ conn \in Connections /\ a \in Seq(Messages) /\ Len(a) \in Nat
      /\ wire[conn] \in Seq(Bytes) /\ Len(wire[conn]) \in Nat
      /\ Starts(off, a) /\ Carries(wire[conn], ReadSoFar(off), off, a)
      /\ ReadSoFar(off) \in Nat /\ off[Len(lines) + 1] \in Nat
      /\ Len(lines) \in Nat /\ Len(lines) <= Len(a)
      /\ ReadSoFar(off) + Len(wire[conn]) <= off[Len(a) + 1]
      /\ stage[conn] # "closed" =>
            ReadSoFar(off) + Len(wire[conn]) = Written(conn, off)
    BY AlignedFacts
<1>2. m \in Messages /\ UNCHANGED wire /\ UNCHANGED <<conn, lines, where>>
    BY HandleEffect DEF Handle, sinkVars
<1>3. \/ /\ stage[conn] = "receive" /\ stage'[conn] = "header"
         /\ queue'[conn] = queue[conn] /\ accepted'[conn] = Append(a, m)
      \/ /\ stage[conn] \in {"header", "content"} /\ stage'[conn] = stage[conn]
         /\ queue'[conn] = Append(queue[conn], m) /\ accepted'[conn] = Append(a, m)
      \/ /\ stage'[conn] = stage[conn]
         /\ queue'[conn] = queue[conn] /\ accepted'[conn] = a
    <2>1. stage[conn] # "failed"
        BY <1>1, AlignedFacts DEF QueueInv, Queued
    <2> QED BY <1>1, <2>1, HandleEffect
<1>4. CASE accepted'[conn] = Append(a, m) /\ stage[conn] \in {"receive", "header", "content"}
                /\ stage'[conn] # "closed"
                /\ \A new : Starts(new, Append(a, m))
                                /\ (\A i \in 1..Len(a) + 1 : new[i] = off[i])
                            => Written(conn, new)' = Written(conn, off)
    <2>1. PICK new \in [1..Len(Append(a, m)) + 1 -> Nat] :
                /\ Starts(new, Append(a, m))
                /\ \A i \in 1..Len(a) + 1 : new[i] = off[i]
        BY <1>1, <1>2, StartsGrow
    <2>2. ReadSoFar(new)' = ReadSoFar(off)
        <3>1. Len(lines) + 1 \in 1..Len(a) + 1
            BY <1>1
        <3>2. new[Len(lines) + 1] = off[Len(lines) + 1]
            BY <2>1, <3>1
        <3> QED BY <1>2, <3>2 DEF ReadSoFar
    <2>3. Carries(wire[conn], ReadSoFar(off), new, Append(a, m))
        BY <1>1, <1>2, <2>1, CarriesGrow
    <2>4. Written(conn, new)' = Written(conn, off)
        BY <1>4, <2>1
    <2>5. Aligned(new)'
        BY <1>1, <1>2, <1>4, <2>1, <2>2, <2>3, <2>4 DEF Aligned
    <2> QED BY <1>4, <2>1, <2>5
<1>5. CASE /\ stage[conn] = "receive" /\ stage'[conn] = "header"
           /\ queue'[conn] = queue[conn] /\ accepted'[conn] = Append(a, m)
    <2>1. queue'[conn] = <<>> /\ Len(queue'[conn]) = 0
        <3>1. queue[conn] = <<>>
            BY <1>1, <1>5 DEF QueueInv, Queued
        <3> QED BY <1>5, <3>1, EmptySeq
    <2>2. Len(Append(a, m)) = Len(a) + 1 /\ Len(a) + 1 - 0 = Len(a) + 1
        BY <1>1, <1>2, AppendProperties
    <2>3. Len(a) + 1 \in 1..Len(a) + 1
        BY <1>1
    <2>4. ASSUME NEW new, \A i \in 1..Len(a) + 1 : new[i] = off[i]
          PROVE  Written(conn, new)' = Written(conn, off)
        <3>1. Written(conn, off) = off[Len(a) + 1]
            BY <1>5 DEF Written
        <3>2. Written(conn, new)' = new[Len(a) + 1]
            BY <1>2, <1>5, <2>1, <2>2 DEF Written
        <3> QED BY <2>3, <2>4, <3>1, <3>2
    <2> QED BY <1>4, <1>5, <2>4
<1>6. CASE /\ stage[conn] \in {"header", "content"} /\ stage'[conn] = stage[conn]
           /\ queue'[conn] = Append(queue[conn], m) /\ accepted'[conn] = Append(a, m)
    <2>1. sent \in 1..Len(a) /\ sent \in 1..Len(a) + 1
        BY <1>1, <1>6, InHand, BeforeTheEnd
    <2>2. Len(accepted'[conn]) - Len(queue'[conn]) = sent
        <3>1. /\ 1..handed \subseteq Messages /\ queue[conn] \in Seq(1..handed)
              /\ Len(queue[conn]) \in Nat
            BY <1>1, Types
        <3>2. queue[conn] \in Seq(Messages)
            BY <3>1, SeqMonotonic
        <3>3. Len(accepted'[conn]) = Len(a) + 1
            BY <1>1, <1>2, <1>6, AppendProperties
        <3>4. Len(queue'[conn]) = Len(queue[conn]) + 1
            BY <1>2, <1>6, <3>2, AppendProperties
        <3>5. (Len(a) + 1) - (Len(queue[conn]) + 1) = sent
            BY <1>1, <2>1, <3>1, OneMore, Zenon
        <3> QED BY <3>3, <3>4, <3>5
    <2>3. ASSUME NEW new, \A i \in 1..Len(a) + 1 : new[i] = off[i]
          PROVE  Written(conn, new)' = Written(conn, off)
        <3>1. new[sent] = off[sent]
            BY <2>1, <2>3
        <3> HIDE DEF a, sent
        <3>2. CASE stage[conn] = "header"
            <4>1. Written(conn, off) = off[sent]
                BY <3>2 DEF Written, sent
            <4>2. Written(conn, new)' = new[sent]
                BY <1>2, <1>6, <2>2, <3>2 DEF Written
            <4> QED BY <3>1, <4>1, <4>2
        <3>3. CASE stage[conn] = "content"
            <4>1. Written(conn, off) = off[sent] + HeaderSize
                BY <3>3 DEF Written, sent
            <4>2. Written(conn, new)' = new[sent] + HeaderSize
                BY <1>2, <1>6, <2>2, <3>3 DEF Written
            <4> QED BY <3>1, <4>1, <4>2
        <3> QED BY <1>6, <3>2, <3>3
    <2> QED BY <1>4, <1>6, <2>3
<1>7. CASE /\ stage'[conn] = stage[conn]
           /\ queue'[conn] = queue[conn] /\ accepted'[conn] = a
    <2>1. Aligned(off)'
        BY <1>2, <1>7, SameStream
    <2> QED BY <1>1, <1>7, <2>1 DEF Starts
<1> QED BY <1>3, <1>5, <1>6, <1>7

\* When the bot ends, what was written is still there to read.
LEMMA BotStream ==
    ASSUME TypeOK, QueueInv, ConnInv, ShownInv, Reading, NEW off, Aligned(off),
           UNCHANGED sinkVars, BotEnds \/ BotStarts
    PROVE  Aligned(off)'
<1>1. /\ conn \in Connections
      /\ Starts(off, accepted[conn])
      /\ Carries(wire[conn], ReadSoFar(off), off, accepted[conn])
      /\ ReadSoFar(off) + Len(wire[conn]) <= off[Len(accepted[conn]) + 1]
    BY AlignedFacts
<1>2. CASE BotEnds
    <2>1. stage'[conn] = "closed" /\ UNCHANGED <<wire, accepted>>
        BY <1>1, <1>2 DEF BotEnds, ConnInv, Reading
    <2>2. /\ Written(conn, off)' = off[Len(accepted[conn]) + 1]
          /\ ReadSoFar(off)' = ReadSoFar(off) /\ conn' = conn
        BY <2>1 DEF Written, ReadSoFar, sinkVars
    <2> QED BY <1>1, <2>1, <2>2 DEF Aligned
<1>3. CASE BotStarts
    BY <1>3, SameStream DEF BotStarts
<1> QED BY <1>2, <1>3

LEMMA ThingStream ==
    ASSUME TypeOK, QueueInv, ConnInv, ShownInv, StreamInv, ThingNext, UNCHANGED sinkVars
    PROVE  ShownInv' /\ StreamInv'
<1>1. cut \subseteq cut'
    <2>1. CASE \E c \in Connections : SendHeader(c) \/ SendContent(c)
        <3>1. PICK c \in Connections : SendHeader(c) \/ SendContent(c)
            BY <2>1
        <3>2. stage[c] \in {"header", "content"}
            BY <3>1 DEF SendHeader, SendContent
        <3>3. Header(hand[c]) \in Seq(Bytes) /\ Content(hand[c]) \in Seq(Bytes)
            BY <3>2, HandType, Types, Pieces
        <3>4. Send(c, Header(hand[c])) \/ Send(c, Content(hand[c]))
            BY <3>1 DEF SendHeader, SendContent
        <3> QED BY <3>3, <3>4, SendEffect
    <2>2. CASE \/ \E c \in Connections : Accept(c) \/ AcceptTooLate(c) \/ SendFails(c)
               \/ Handle \/ BotEnds \/ BotStarts
        BY <2>2 DEF Accept, AcceptTooLate, SendFails, Handle, BotEnds, BotStarts
    <2> QED BY <2>1, <2>2 DEF ThingNext, Worker
<1>2. conn # 0 => conn \in Connections
    BY DEF ConnInv
<1>3. ShownInv'
    <2>1. conn # 0 =>
            \/ accepted'[conn] = accepted[conn]
            \/ \E m \in Messages : accepted'[conn] = Append(accepted[conn], m)
        <3>1. CASE Handle
            BY <1>2, <3>1, HandleEffect
        <3>2. CASE ~Handle
            BY <3>2 DEF ThingNext, Worker, Accept, AcceptTooLate, SendHeader,
                        SendContent, SendFails, BotEnds, BotStarts
        <3> QED BY <3>1, <3>2
    <2> QED BY <1>1, <2>1, ThingShown
<1>4. ASSUME Reading'
      PROVE  \E new \in [1..Len(accepted'[conn]) + 1 -> Nat] : Aligned(new)'
    <2>1. Reading /\ conn \in Connections /\ conn \notin cut'
        BY <1>1, <1>2, <1>4 DEF Reading, sinkVars
    <2>2. PICK off \in [1..Len(accepted[conn]) + 1 -> Nat] : Aligned(off)
        BY <2>1 DEF StreamInv, Reading
    <2>3. CASE Handle
        BY <2>1, <2>2, <2>3, HandleStream
    <2>4. CASE ~Handle
        <3>1. accepted' = accepted
            BY <2>4 DEF ThingNext, Worker, Accept, AcceptTooLate, SendHeader,
                        SendContent, SendFails, BotEnds, BotStarts
        <3>2. Aligned(off)'
            <4>1. CASE BotEnds \/ BotStarts
                BY <2>1, <2>2, <4>1, BotStream
            <4>2. CASE SendHeader(conn) \/ SendContent(conn)
                BY <2>1, <2>2, <4>2, SendHeaderStream, SendContentStream
            <4>3. CASE \E c \in Connections : Accept(c)
                <5>1. PICK c \in Connections : Accept(c)
                    BY <4>3
                <5>2. /\ stage[c] = "backlog" /\ stage' = [stage EXCEPT ![c] = "receive"]
                      /\ UNCHANGED <<wire, queue>>
                    BY <5>1 DEF Accept
                <5>3. \/ stage'[conn] = stage[conn]
                      \/ stage[conn] = "backlog" /\ stage'[conn] = "receive"
                    BY <2>1, <5>2 DEF TypeOK, ThingTypeOK
                <5> QED BY <2>2, <3>1, <5>2, <5>3, SameStream
            <4>4. CASE \E c \in Connections \ {conn} : SendHeader(c) \/ SendContent(c)
                <5>1. PICK c \in Connections \ {conn} : SendHeader(c) \/ SendContent(c)
                    BY <4>4
                <5>2. stage[c] \in {"header", "content"}
                    BY <5>1 DEF SendHeader, SendContent
                <5>3. Header(hand[c]) \in Seq(Bytes) /\ Content(hand[c]) \in Seq(Bytes)
                    BY <5>2, HandType, Types, Pieces
                <5>4. Send(c, Header(hand[c])) \/ Send(c, Content(hand[c]))
                    BY <5>1 DEF SendHeader, SendContent
                <5>5. wire'[conn] = wire[conn]
                    BY <2>1, <5>3, <5>4, SendEffect
                <5>6. stage'[conn] = stage[conn] /\ queue'[conn] = queue[conn]
                    <6>1. /\ stage \in [Connections -> Stages]
                          /\ queue \in [Connections -> Seq(1..handed)]
                        BY DEF TypeOK, ThingTypeOK
                    <6> QED BY <2>1, <5>1, <6>1 DEF SendHeader, SendContent,
                                ReceiveMessage, AwaitNextMessage
                <5> QED BY <2>2, <3>1, <5>5, <5>6, SameStream
            <4>5. CASE \E c \in Connections : AcceptTooLate(c) \/ SendFails(c)
                <5>1. PICK c \in Connections : AcceptTooLate(c) \/ SendFails(c)
                    BY <4>5
                <5>2. /\ c # conn /\ UNCHANGED <<wire, queue>>
                      /\ \/ stage' = [stage EXCEPT ![c] = "closed"]
                         \/ stage' = [stage EXCEPT ![c] = "failed"]
                    BY <2>1, <5>1 DEF AcceptTooLate, SendFails, ConnInv, Reading
                <5>3. stage'[conn] = stage[conn]
                    BY <2>1, <5>2 DEF TypeOK, ThingTypeOK
                <5> QED BY <2>2, <3>1, <5>2, <5>3, SameStream
            <4> QED BY <2>4, <4>1, <4>2, <4>3, <4>4, <4>5 DEF ThingNext, Worker
        <3> QED BY <2>2, <3>1, <3>2
    <2> QED BY <2>3, <2>4
<1>5. StreamInv'
    BY <1>4 DEF StreamInv, Reading, sinkVars
<1> QED BY <1>3, <1>5

-----------------------------------------------------------------------------
\* What the terminal does to the stream

\* On a new connection nothing is written, read or shown.
LEMMA ConnectedStream ==
    ASSUME TypeOK, QueueInv, ConnInv, Connected
    PROVE  ShownInv' /\ StreamInv'
<1>1. /\ stage[conn'] = "none" /\ stage' = [stage EXCEPT ![conn'] = "backlog"]
      /\ conn' \in Connections /\ UNCHANGED <<queue, wire, accepted, cut>>
      /\ lines' = <<>> /\ where' = "header"
    BY DEF Connected, Arrives
<1>2. stage'[conn'] = "backlog"
    BY <1>1 DEF TypeOK, ThingTypeOK
<1>3. accepted'[conn'] = <<>> /\ wire'[conn'] = <<>>
    BY <1>1 DEF QueueInv, Queued
<1>4. Len(<<>>) = 0 /\ Len(lines') = 0 /\ Len(accepted'[conn']) = 0 /\ Len(wire'[conn']) = 0
    BY <1>1, <1>3
<1>5. ShownInv'
    BY <1>1, <1>4 DEF ShownInv
<1>6. PICK off \in [1..0 + 1 -> Nat] : off[0 + 1] = 0
    <2>1. [k \in 1..0 + 1 |-> 0] \in [1..0 + 1 -> Nat] /\ [k \in 1..0 + 1 |-> 0][0 + 1] = 0
        OBVIOUS
    <2> QED BY <2>1
<1>7. Starts(off, accepted'[conn'])
    BY <1>4, <1>6 DEF Starts
<1>8. ReadSoFar(off)' = 0 /\ Written(conn, off)' = 0
    BY <1>1, <1>2, <1>4, <1>6 DEF ReadSoFar, Written
<1>9. Aligned(off)'
    BY <1>2, <1>4, <1>7, <1>8 DEF Aligned, Carries
<1>10. off \in [1..Len(accepted'[conn']) + 1 -> Nat]
    BY <1>4, <1>6
<1> QED BY <1>5, <1>9, <1>10 DEF StreamInv

\* The header that is read is that of the next message to show.
LEMMA ReadHeaderStream ==
    ASSUME TypeOK, QueueInv, ConnInv, ShownInv, StreamInv, ReadHeader
    PROVE  ShownInv' /\ StreamInv'
<1> DEFINE a == accepted[conn]
           i == Len(lines) + 1
           w == wire[conn]
<1>1. PICK bytes \in Arrived(HeaderSize) :
            Receive(bytes, HeaderSize) /\ SizeIn(bytes, size')
    BY DEF ReadHeader
<1>2. /\ where = "header" /\ where' = "content"
      /\ UNCHANGED <<up, starts, handed, stage, hand, queue, gone, accepted,
                     sock, isOpen, conn, lines>>
    BY DEF ReadHeader
<1>3. /\ conn \in Connections /\ conn # 0 /\ HeaderSize \in Nat /\ sock = "connected"
    BY <1>1, <1>2, ReadingConn, SizesAssumption DEF Receive
<1>4. /\ cut \subseteq cut' /\ w # <<>>
      /\ conn \notin cut' =>
            /\ HeaderSize \in 1..Len(w) /\ bytes = SubSeq(w, 1, HeaderSize)
            /\ wire'[conn] = SubSeq(w, HeaderSize + 1, Len(w))
    BY <1>1, <1>3, ReceiveEffect
<1> SUFFICES ASSUME conn \notin cut' PROVE ShownInv' /\ StreamInv'
    BY <1>2 DEF ShownInv, StreamInv
<1>5. Reading
    BY <1>2, <1>3, <1>4 DEF Reading
<1>6. PICK off \in [1..Len(a) + 1 -> Nat] : Aligned(off)
    BY <1>5 DEF StreamInv, Reading
<1>7. /\ a \in Seq(Messages) /\ Len(a) \in Nat /\ w \in Seq(Bytes) /\ Len(w) \in Nat
      /\ Starts(off, a) /\ Carries(w, ReadSoFar(off), off, a)
      /\ off[i] \in Nat /\ ReadSoFar(off) \in Nat
      /\ Len(lines) \in Nat /\ Len(lines) <= Len(a)
      /\ Written(conn, off) \in Nat
    BY <1>5, <1>6, AlignedFacts
<1>8. i \in 1..Len(a)
    BY <1>2, <1>4, <1>5, <1>6, NotYetShown
<1>9. a[i] \in Messages /\ a[i] \in 1..handed /\ handed \in Nat
    <2>1. handed \in Nat /\ \A k \in 1..Len(a) : a[k] \in 1..handed
        BY <1>3, Types
    <2> QED BY <1>8, <2>1, Types
<1>10. ReadSoFar(off) = off[i] + 0
    BY <1>2 DEF ReadSoFar
<1>11. ReadSoFar(off)' = off[i] + HeaderSize
    BY <1>2 DEF ReadSoFar
<1>12. HeaderSize \in 0..Len(w) /\ 0 \in Nat /\ 0 + HeaderSize <= Frame(a[i])
    <2>1. Frame(a[i]) = HeaderSize + Contents[a[i]] /\ Contents[a[i]] \in Nat
        BY <1>9, FrameType
    <2> QED BY <1>3, <1>4, <2>1
<1> HIDE DEF a, i, w
<1>13. SubSeq(w, 1, HeaderSize) = Piece(a[i], 0, HeaderSize)
    BY <1>7, <1>8, <1>10, <1>12, ReadReturns
<1>14. bytes = Header(a[i])
    BY <1>4, <1>9, <1>13, Pieces
<1>15. size' = Contents[a[i]]
    BY <1>1, <1>9, <1>14 DEF SizeIn
<1>16. ShownInv'
    <2>1. /\ Len(lines) < Len(a)
          /\ \A k \in 1..Len(lines) : lines[k] = Content(a[k])
        BY <1>5, <1>7, <1>8 DEF ShownInv, Reading, a, i
    <2> QED BY <1>2, <1>7, <1>15, <2>1 DEF ShownInv, a, i
<1>17. /\ Carries(SubSeq(w, HeaderSize + 1, Len(w)), ReadSoFar(off) + HeaderSize, off, a)
       /\ Len(SubSeq(w, HeaderSize + 1, Len(w))) = Len(w) - HeaderSize
    BY <1>7, <1>12, ReadKeeps
<1>18. ReadSoFar(off)' = ReadSoFar(off) + HeaderSize
    BY <1>3, <1>7, <1>10, <1>11, SumsAgree
<1>19. Written(conn, off)' = Written(conn, off)
    BY <1>2 DEF Written
<1>20. Aligned(off)'
    <2>1. IF stage[conn] = "closed"
          THEN ReadSoFar(off) + Len(w) <= Written(conn, off)
          ELSE ReadSoFar(off) + Len(w) = Written(conn, off)
        BY <1>6 DEF Aligned, w
    <2>2. (ReadSoFar(off) + HeaderSize) + (Len(w) - HeaderSize) = ReadSoFar(off) + Len(w)
        BY <1>3, <1>7, SumsAgree
    <2> QED BY <1>2, <1>4, <1>7, <1>17, <1>18, <1>19, <2>1, <2>2 DEF Aligned, a
<1> QED BY <1>2, <1>6, <1>16, <1>20 DEF StreamInv, a

\* A message without content has no byte to wait for.
LEMMA ReadNothingStream ==
    ASSUME TypeOK, QueueInv, ConnInv, ShownInv, StreamInv, ReadNothing
    PROVE  ShownInv' /\ StreamInv'
<1> DEFINE a == accepted[conn]
           i == Len(lines) + 1
<1>1. /\ where = "content" /\ size = 0 /\ lines' = Append(lines, <<>>) /\ where' = "header"
      /\ UNCHANGED <<stage, queue, wire, accepted, cut, sock, conn>>
    BY DEF ReadNothing, thingVars
<1>2. conn \in Connections /\ conn # 0
    BY <1>1, ReadingConn
<1> SUFFICES ASSUME conn \notin cut PROVE ShownInv' /\ StreamInv'
    BY <1>1 DEF ShownInv, StreamInv
<1>3. /\ a \in Seq(Messages) /\ Len(a) \in Nat /\ Len(lines) \in Nat
      /\ lines \in Seq(Seq(Bytes))
    BY <1>2, Types
<1>4. /\ Len(lines) < Len(a) /\ Contents[a[i]] = 0
      /\ \A k \in 1..Len(lines) : lines[k] = Content(a[k])
    BY <1>1, <1>2 DEF ShownInv
<1>5. i \in 1..Len(a) /\ i \in 1..Len(a) + 1 /\ i + 1 \in 1..Len(a) + 1
    BY <1>3, <1>4
<1>6. a[i] \in Messages
    BY <1>3, <1>5, ElementOfSeq
<1>7. Content(a[i]) = <<>>
    BY <1>4 DEF Content
<1>8. /\ Len(lines') = i
      /\ \A k \in 1..Len(lines) : lines'[k] = lines[k]
      /\ lines'[i] = <<>>
    <2>1. <<>> \in Seq(Bytes)
        BY EmptySeq
    <2> QED BY <1>1, <1>3, <2>1, AppendProperties
<1>9. ShownInv'
    <2>1. Len(lines') <= Len(a)
        BY <1>3, <1>4, <1>8
    <2>2. ASSUME NEW k \in 1..Len(lines') PROVE lines'[k] = Content(a[k])
        <3>1. k = i \/ k \in 1..Len(lines)
            BY <1>3, <1>8
        <3> QED BY <1>4, <1>7, <1>8, <3>1
    <2> QED BY <1>1, <2>1, <2>2 DEF ShownInv
<1>10. ASSUME sock = "connected"
       PROVE  \E off \in [1..Len(a) + 1 -> Nat] : Aligned(off)'
    <2>1. Reading
        BY <1>1, <1>2, <1>10 DEF Reading
    <2>2. PICK off \in [1..Len(a) + 1 -> Nat] : Aligned(off)
        BY <2>1 DEF StreamInv, Reading
    <2>3. Starts(off, a) /\ off[i] \in Nat
        BY <2>1, <2>2, AlignedFacts
    <2>4. off[i + 1] = off[i] + HeaderSize
        <3>1. off[i + 1] = off[i] + Frame(a[i])
            BY <1>3, <1>5, <2>3, StartsFacts
        <3>2. Frame(a[i]) = HeaderSize + 0 /\ HeaderSize \in Nat
            BY <1>4, <1>6, FrameType
        <3> QED BY <3>1, <3>2
    <2>5. ReadSoFar(off)' = ReadSoFar(off)
        <3>1. ReadSoFar(off) = off[i] + HeaderSize
            BY <1>1 DEF ReadSoFar
        <3>2. ReadSoFar(off)' = off[i + 1] + 0
            BY <1>1, <1>8 DEF ReadSoFar
        <3>3. off[i + 1] \in Nat
            BY <1>3, <1>5, <2>3, StartsFacts
        <3> QED BY <2>4, <3>1, <3>2, <3>3, SumsAgree
    <2>6. Written(conn, off)' = Written(conn, off)
        BY <1>1 DEF Written
    <2>7. Aligned(off)'
        BY <1>1, <2>2, <2>5, <2>6 DEF Aligned
    <2> QED BY <2>7
<1> QED BY <1>1, <1>9, <1>10 DEF StreamInv

\* The bytes that are read are the content of the next message to show.
LEMMA ReadContentStream ==
    ASSUME TypeOK, QueueInv, ConnInv, ShownInv, StreamInv, ReadContent
    PROVE  ShownInv' /\ StreamInv'
<1> DEFINE a == accepted[conn]
           i == Len(lines) + 1
           w == wire[conn]
<1>1. PICK bytes \in Arrived(size) :
            Receive(bytes, size) /\ lines' = Append(lines, bytes)
    BY DEF ReadContent
<1>2. /\ where = "content" /\ where' = "header"
      /\ UNCHANGED <<up, starts, handed, stage, hand, queue, gone, accepted,
                     sock, isOpen, conn>>
    BY DEF ReadContent
<1>3. conn \in Connections /\ conn # 0 /\ size \in Nat /\ sock = "connected"
    BY <1>1, <1>2, ReadingConn, SizeType DEF Receive
<1>4. /\ cut \subseteq cut' /\ w # <<>> /\ bytes \in Seq(Bytes)
      /\ conn \notin cut' =>
            /\ size \in 1..Len(w) /\ bytes = SubSeq(w, 1, size)
            /\ wire'[conn] = SubSeq(w, size + 1, Len(w))
    BY <1>1, <1>3, ReceiveEffect
<1> SUFFICES ASSUME conn \notin cut' PROVE ShownInv' /\ StreamInv'
    BY <1>2 DEF ShownInv, StreamInv
<1>5. Reading
    BY <1>2, <1>3, <1>4 DEF Reading
<1>6. PICK off \in [1..Len(a) + 1 -> Nat] : Aligned(off)
    BY <1>5 DEF StreamInv, Reading
<1>7. /\ a \in Seq(Messages) /\ Len(a) \in Nat /\ w \in Seq(Bytes) /\ Len(w) \in Nat
      /\ Starts(off, a) /\ Carries(w, ReadSoFar(off), off, a)
      /\ off[i] \in Nat /\ ReadSoFar(off) \in Nat /\ Written(conn, off) \in Nat
      /\ Len(lines) \in Nat /\ lines \in Seq(Seq(Bytes))
    BY <1>5, <1>6, AlignedFacts, Types
<1>8. /\ Len(lines) < Len(a) /\ size = Contents[a[i]]
      /\ \A k \in 1..Len(lines) : lines[k] = Content(a[k])
    BY <1>2, <1>5 DEF ShownInv, Reading
<1>9. i \in 1..Len(a) /\ i + 1 \in 1..Len(a) + 1
    BY <1>7, <1>8
<1>10. a[i] \in Messages
    BY <1>7, <1>9, ElementOfSeq
<1>11. /\ Frame(a[i]) = HeaderSize + size /\ HeaderSize \in Nat
       /\ HeaderSize + size <= Frame(a[i])
    <2>1. Frame(a[i]) = HeaderSize + size /\ HeaderSize \in Nat
        BY <1>8, <1>10, FrameType
    <2> QED BY <1>3, <2>1
<1>12. ReadSoFar(off) = off[i] + HeaderSize
    BY <1>2 DEF ReadSoFar
<1>13. size \in 0..Len(w)
    BY <1>4, <1>7
<1> HIDE DEF w
<1>14. bytes = Content(a[i])
    <2>1. SubSeq(w, 1, size) = Piece(a[i], HeaderSize, size)
        <3>1. HeaderSize + size <= Frame(a[i]) /\ HeaderSize \in Nat
            BY <1>11
        <3> HIDE DEF a, i
        <3> QED BY <1>7, <1>9, <1>12, <1>13, <3>1, ReadReturns
    <2> QED BY <1>4, <1>8, <2>1 DEF Content, Piece
<1>15. /\ Len(lines') = i
       /\ \A k \in 1..Len(lines) : lines'[k] = lines[k]
       /\ lines'[i] = bytes
    BY <1>1, <1>4, <1>7, AppendProperties
<1>16. ShownInv'
    <2>1. Len(lines') <= Len(a)
        BY <1>7, <1>8, <1>15
    <2>2. ASSUME NEW k \in 1..Len(lines') PROVE lines'[k] = Content(a[k])
        <3>1. k = i \/ k \in 1..Len(lines)
            BY <1>7, <1>15
        <3> QED BY <1>8, <1>14, <1>15, <3>1
    <2> QED BY <1>2, <2>1, <2>2 DEF ShownInv
<1>17. /\ Carries(SubSeq(w, size + 1, Len(w)), ReadSoFar(off) + size, off, a)
       /\ Len(SubSeq(w, size + 1, Len(w))) = Len(w) - size
    BY <1>7, <1>13, ReadKeeps
<1>18. ReadSoFar(off)' = ReadSoFar(off) + size
    <2>1. ReadSoFar(off)' = off[i + 1] + 0
        BY <1>2, <1>15 DEF ReadSoFar
    <2>2. off[i + 1] = off[i] + Frame(a[i]) /\ off[i + 1] \in Nat
        BY <1>7, <1>9, StartsFacts
    <2>3. off[i] + (HeaderSize + size) = (off[i] + HeaderSize) + size
        BY <1>3, <1>7, <1>11, SumsAgree
    <2> QED BY <1>11, <1>12, <2>1, <2>2, <2>3, SumsAgree
<1>19. Written(conn, off)' = Written(conn, off)
    BY <1>2 DEF Written
<1>20. Aligned(off)'
    <2>1. IF stage[conn] = "closed"
          THEN ReadSoFar(off) + Len(w) <= Written(conn, off)
          ELSE ReadSoFar(off) + Len(w) = Written(conn, off)
        BY <1>6 DEF Aligned, w
    <2>2. (ReadSoFar(off) + size) + (Len(w) - size) = ReadSoFar(off) + Len(w)
        BY <1>3, <1>7, SumsAgree
    <2> QED BY <1>2, <1>4, <1>7, <1>17, <1>18, <1>19, <2>1, <2>2 DEF Aligned
<1> QED BY <1>2, <1>6, <1>16, <1>20 DEF StreamInv

-----------------------------------------------------------------------------
\* The theorems

IInv == TypeOK /\ QueueInv /\ ConnInv /\ ShownInv /\ StreamInv

\* Steps after which nothing is read.
LEMMA IdleStream ==
    ASSUME ShownInv, UNCHANGED <<conn, cut, accepted, lines>>,
           where' \notin {"header", "content"} \/ sock' # "connected",
           where' = "content" => where = "content" /\ size' = size
    PROVE  ShownInv' /\ StreamInv'
BY DEF ShownInv, StreamInv

LEMMA NextStream == IInv /\ [Next]_vars => ShownInv' /\ StreamInv'
<1> SUFFICES ASSUME IInv, [Next]_vars PROVE ShownInv' /\ StreamInv'
    OBVIOUS
<1>1. CASE ThingNext /\ UNCHANGED sinkVars
    BY <1>1, ThingStream DEF IInv
<1>2. CASE Connected \/ ReadHeader \/ ReadNothing \/ ReadContent
    BY <1>2, ConnectedStream, ReadHeaderStream, ReadNothingStream, ReadContentStream
       DEF IInv
<1>3. CASE ConnectFails \/ WaitEnds \/ ReadFails \/ Exit
    <2>1. /\ UNCHANGED <<conn, cut, accepted, lines>>
          /\ where' \in {"waiting", "exited", "connecting", "ending"}
        BY <1>3 DEF ConnectFails, WaitEnds, ReadFails, Exit, StartConnect, thingVars
    <2> QED BY <2>1, IdleStream DEF IInv
<1>4. CASE Interrupt \/ InterruptAgain
    <2>1. /\ UNCHANGED <<conn, cut, accepted, lines, size>> /\ sock' = "closed"
          /\ where' = where \/ where' = "killed"
        BY <1>4 DEF Interrupt, InterruptAgain, CloseSocket
    <2> QED BY <2>1, IdleStream DEF IInv
<1>5. CASE UNCHANGED vars
    <2>1. UNCHANGED <<conn, cut, accepted, lines, size, where, sock, stage, queue, wire>>
        BY <1>5 DEF vars, thingVars, sinkVars
    <2>2. ShownInv'
        BY <2>1 DEF IInv, ShownInv
    <2>3. \A off : Aligned(off) => Aligned(off)'
        BY <2>1 DEF Aligned, Written, ReadSoFar
    <2> QED BY <2>1, <2>2, <2>3 DEF IInv, StreamInv
<1> QED BY <1>1, <1>2, <1>3, <1>4, <1>5 DEF Next, TcpWorker

LEMMA InitHolds == Init => IInv
<1> SUFFICES ASSUME Init PROVE IInv
    OBVIOUS
<1>1. TypeOK
    BY InitType
<1>2. QueueInv
    BY DEF Init, ThingInit, QueueInv, Queued
<1>3. ConnInv /\ ShownInv /\ StreamInv
    BY DEF Init, ConnInv, ShownInv, StreamInv
<1> QED BY <1>1, <1>2, <1>3 DEF IInv

LEMMA Invariant == Spec => []IInv
<1>1. IInv /\ [Next]_vars => IInv'
    BY NextType, NextQueueInv, NextConnInv, NextStream DEF IInv
<1> QED BY <1>1, InitHolds, PTL DEF Spec

\* The thing, its clients and the terminal keep their types: no queue grows past its
\* capacity and no wire past what fits, whatever the sizes of the messages.
THEOREM TerminalTypes == Spec => []TypeOK
<1>1. IInv => TypeOK
    BY DEF IInv
<1> QED BY <1>1, Invariant, PTL

LEMMA PrefixElements ==
    ASSUME NEW S, NEW s \in Seq(S), NEW T, NEW t \in Seq(T), Len(s) <= Len(t),
           \A i \in 1..Len(s) : s[i] = t[i]
    PROVE  IsPrefix(s, t)
<1>1. Len(s) \in Nat /\ Len(t) \in Nat
    BY LenProperties
<1>2. /\ \A i \in 1..Len(s) : s[i] \in S
      /\ \A i \in 1..Len(s) : t[i] \in S
    BY ElementOfSeq
<1>3. /\ SubSeq(s, 1, Len(s)) \in Seq(S)
      /\ Len(SubSeq(s, 1, Len(s))) = IF 1 <= Len(s) THEN Len(s) - 1 + 1 ELSE 0
      /\ \A i \in 1..Len(s) - 1 + 1 : SubSeq(s, 1, Len(s))[i] = s[1 + i - 1]
    BY <1>1, <1>2, SubSeqProperties
<1>4. /\ SubSeq(t, 1, Len(s)) \in Seq(S)
      /\ Len(SubSeq(t, 1, Len(s))) = IF 1 <= Len(s) THEN Len(s) - 1 + 1 ELSE 0
      /\ \A i \in 1..Len(s) - 1 + 1 : SubSeq(t, 1, Len(s))[i] = t[1 + i - 1]
    BY <1>1, <1>2, SubSeqProperties
<1> DEFINE v == SubSeq(s, 1, Len(s))
           w == SubSeq(t, 1, Len(s))
<1>5. Len(v) = Len(s) /\ Len(w) = Len(s)
    BY <1>1, <1>3, <1>4
<1>6. ASSUME NEW i \in 1..Len(s) PROVE v[i] = w[i]
    <2>1. i \in 1..Len(s) - 1 + 1 /\ 1 + i - 1 = i
        BY <1>1
    <2> QED BY <1>3, <1>4, <2>1
<1>7. v = w
    <2>1. v \in Seq(S) /\ w \in Seq(S)
        BY <1>3, <1>4
    <2> HIDE DEF v, w
    <2> QED BY <1>5, <1>6, <2>1, SeqEqual
<1> QED BY <1>7 DEF IsPrefix

LEMMA AllIsShown ==
    ASSUME IInv, conn # 0, conn \notin cut, Quiet(conn)
    PROVE  Len(lines) = Len(accepted[conn])
<1> DEFINE a == accepted[conn]
<1>1. /\ sock = "connected" /\ stage[conn] = "receive" /\ wire[conn] = <<>>
      /\ where = "header"
    BY DEF Quiet
<1>2. Reading
    BY <1>1 DEF Reading
<1>3. PICK off \in [1..Len(a) + 1 -> Nat] : Aligned(off)
    BY <1>2 DEF IInv, StreamInv, Reading
<1>4. /\ a \in Seq(Messages) /\ Len(a) \in Nat /\ Starts(off, a)
      /\ off[Len(lines) + 1] \in Nat
      /\ Len(lines) \in Nat /\ Len(lines) <= Len(a)
      /\ ReadSoFar(off) + Len(wire[conn]) = Written(conn, off)
    BY <1>1, <1>2, <1>3, AlignedFacts DEF IInv
<1>5. off[Len(lines) + 1] = off[Len(a) + 1]
    <2>1. Written(conn, off) = off[Len(a) + 1]
        BY <1>1 DEF Written
    <2>2. ReadSoFar(off) = off[Len(lines) + 1] + 0 /\ Len(wire[conn]) = 0
        BY <1>1 DEF ReadSoFar
    <2>3. off[Len(lines) + 1] + 0 = off[Len(lines) + 1]
        BY <1>4, SumsAgree
    <2> QED BY <1>4, <2>1, <2>2, <2>3
<1>6. ASSUME Len(lines) < Len(a) PROVE FALSE
    <2>1. /\ Len(lines) + 1 \in 1..Len(a) /\ Len(a) + 1 \in 1..Len(a) + 1
          /\ Len(lines) + 1 < Len(a) + 1
        BY <1>4, <1>6
    <2>2. off[Len(lines) + 1] + Frame(a[Len(lines) + 1]) <= off[Len(a) + 1]
        BY <1>4, <2>1, StartsFacts
    <2>3. a[Len(lines) + 1] \in Messages
        BY <1>4, <2>1, ElementOfSeq
    <2>4. Frame(a[Len(lines) + 1]) \in Nat /\ Frame(a[Len(lines) + 1]) > 0
        BY <2>3, FrameType
    <2> DEFINE o == off[Len(lines) + 1]
               f == Frame(a[Len(lines) + 1])
    <2>5. o \in Nat /\ f \in Nat /\ f > 0 /\ o + f <= o
        BY <1>4, <1>5, <2>2, <2>4
    <2> HIDE DEF o, f
    <2> QED BY <2>5
<1> QED BY <1>4, <1>6

\* While nothing was cut short, the terminal shows what its client took, whole, in
\* order and once, and all of it when nothing is under way, for every capacity of the
\* queue, every size of header and messages and everything that fits on the wire.
THEOREM ShownAsTaken == Spec => []ShownInOrder
<1>1. IInv => ShownInOrder
    <2> SUFFICES ASSUME IInv, conn # 0, conn \notin cut
                 PROVE  LET taken == accepted[conn]
                        IN  /\ IsPrefix(lines,
                                        [k \in DOMAIN taken |-> Content(taken[k])])
                            /\ Quiet(conn) => Len(lines) = Len(taken)
        BY DEF ShownInOrder
    <2> DEFINE a == accepted[conn]
               t == [k \in DOMAIN a |-> Content(a[k])]
    <2>1. conn \in Connections /\ TypeOK
        BY DEF IInv, ConnInv
    <2>2. /\ a \in Seq(Messages) /\ Len(a) \in Nat
          /\ lines \in Seq(Seq(Bytes)) /\ Len(lines) \in Nat /\ handed \in Nat
          /\ \A k \in 1..Len(a) : a[k] \in 1..handed
          /\ \A k \in 1..handed : k \in Messages
        BY <2>1, Types
    <2>3. DOMAIN a = 1..Len(a)
        BY <2>2, LenProperties
    <2>4. \A k \in 1..Len(a) : Content(a[k]) \in Seq(Bytes)
        BY <2>2, Pieces DEF Bytes
    <2>5. t \in [1..Len(a) -> Seq(Bytes)]
        BY <2>3, <2>4
    <2>6. t \in Seq(Seq(Bytes)) /\ Len(t) = Len(a)
        <3> HIDE DEF t
        <3> QED BY <2>2, <2>5, FunctionIsSeq
    <2>7. /\ Len(lines) <= Len(a)
          /\ \A k \in 1..Len(lines) : lines[k] = Content(a[k])
        BY DEF IInv, ShownInv
    <2>8. \A k \in 1..Len(lines) : lines[k] = t[k]
        BY <2>2, <2>3, <2>7
    <2> HIDE DEF t
    <2>9. IsPrefix(lines, t)
        BY <2>2, <2>6, <2>7, <2>8, PrefixElements
    <2>10. Quiet(conn) => Len(lines) = Len(a)
        BY AllIsShown
    <2> QED BY <2>9, <2>10 DEF t
<1> QED BY <1>1, Invariant, PTL

=============================================================================
