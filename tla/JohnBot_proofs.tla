--------------------------- MODULE JohnBot_proofs ---------------------------
(***************************************************************************)
(* JohnBot, for every number of clients, every capacity of the channel and *)
(* every traffic: its channel, its type invariant, the state between two   *)
(* steps, that it implements MessageBus, that no message is answered twice *)
(* and that run returns only when every worker has.                        *)
(***************************************************************************)
EXTENDS JohnBot, SequenceTheorems, FiniteSetTheorems, TLAPS

-----------------------------------------------------------------------------
\* The channel.  The three cases of a send (a receiver waits, there is room, there is
\* none) and the refill of a slot that is freed are invisible from outside: the channel
\* is a queue of the messages accepted and not yet received.

\* What holds between two operations: a sender is suspended only while the
\* buffer is full, a receiver only while there is nothing at all.
Sound(ch) ==
    /\ Len(ch.buffer) <= Capacity
    /\ ch.senders # <<>> => Len(ch.buffer) = Capacity
    /\ ch.waiting => ch.handed = <<>> /\ ch.buffer = <<>> /\ ch.senders = <<>>

\* The messages of the suspended senders, oldest first.
Suspended(ch) == [i \in 1..Len(ch.senders) |-> ch.senders[i].msg]

-----------------------------------------------------------------------------
LEMMA Fields ==
    ASSUME NEW M, NEW C, NEW ch \in Channel(M, C)
    PROVE  /\ ch.buffer \in Seq(M) /\ ch.handed \in Seq(M)
           /\ ch.senders \in Seq([msg : M, by : C])
           /\ ch.waiting \in BOOLEAN /\ ch.open \in BOOLEAN
BY DEF Channel

LEMMA InTheLastPart ==
    ASSUME NEW i \in Nat, NEW a \in Nat, NEW b \in Nat, NEW c \in Nat,
           i <= a + b + c, ~(i <= a + b)
    PROVE  i - a - b \in 1..c
OBVIOUS

\* s is a followed by b followed by c, element by element.
ThreeParts(s, a, b, c) ==
    /\ Len(s) = Len(a) + Len(b) + Len(c)
    /\ \A i \in 1..Len(s) : s[i] =
            IF i <= Len(a) THEN a[i]
            ELSE IF i <= Len(a) + Len(b) THEN b[i - Len(a)]
            ELSE c[i - Len(a) - Len(b)]

LEMMA ConcatThree ==
    ASSUME NEW M, NEW a \in Seq(M), NEW b \in Seq(M), NEW c \in Seq(M)
    PROVE  a \o b \o c \in Seq(M) /\ ThreeParts(a \o b \o c, a, b, c)
<1>1. /\ a \o b \in Seq(M)
      /\ Len(a \o b) = Len(a) + Len(b)
      /\ \A i \in 1..(Len(a) + Len(b)) :
            (a \o b)[i] = IF i <= Len(a) THEN a[i] ELSE b[i - Len(a)]
    BY ConcatProperties
<1> DEFINE ab == a \o b
<1>2. ab \in Seq(M)
    BY <1>1
<1> HIDE DEF ab
<1>3. /\ ab \o c \in Seq(M)
      /\ Len(ab \o c) = Len(ab) + Len(c)
      /\ \A i \in 1..(Len(ab) + Len(c)) :
            (ab \o c)[i] = IF i <= Len(ab) THEN ab[i] ELSE c[i - Len(ab)]
    BY <1>2, ConcatProperties
<1>4. Len(a) \in Nat /\ Len(b) \in Nat /\ Len(c) \in Nat
    OBVIOUS
<1> QED
    BY <1>1, <1>3, <1>4 DEF ab, ThreeParts

LEMMA ThreePartsUnique ==
    ASSUME NEW M, NEW p \in Seq(M), NEW q \in Seq(M), NEW a, NEW b, NEW c,
           ThreeParts(p, a, b, c), ThreeParts(q, a, b, c)
    PROVE  p = q
<1>1. Len(p) = Len(q) /\ \A i \in 1..Len(p) : p[i] = q[i]
    BY DEF ThreeParts
<1> QED
    BY <1>1, SeqEqual

\* An element goes to the end through the middle part when the last is empty ...
LEMMA AppendInTheMiddle ==
    ASSUME NEW M, NEW p \in Seq(M), NEW a \in Seq(M), NEW b \in Seq(M), NEW m \in M,
           ThreeParts(p, a, b, <<>>)
    PROVE  ThreeParts(Append(p, m), a, Append(b, m), <<>>)
<1> DEFINE q == Append(p, m)
           d == Append(b, m)
<1>1. /\ Len(q) = Len(p) + 1 /\ q[Len(p) + 1] = m
      /\ \A i \in 1..Len(p) : q[i] = p[i]
    BY AppendProperties
<1>2. /\ Len(d) = Len(b) + 1 /\ d[Len(b) + 1] = m
      /\ \A i \in 1..Len(b) : d[i] = b[i]
    BY AppendProperties
<1>3. /\ Len(a) \in Nat /\ Len(b) \in Nat /\ Len(p) = Len(a) + Len(b)
      /\ Len(<<>>) = 0
      /\ \A i \in 1..Len(p) : p[i] = IF i <= Len(a) THEN a[i] ELSE b[i - Len(a)]
    BY DEF ThreeParts
<1> HIDE DEF q, d
<1>4. ASSUME NEW i \in 1..Len(q)
      PROVE  q[i] = IF i <= Len(a) THEN a[i] ELSE d[i - Len(a)]
    <2>1. CASE i = Len(p) + 1
        <3>1. ~(i <= Len(a)) /\ i - Len(a) = Len(b) + 1
            BY <2>1, <1>3
        <3> QED BY <2>1, <3>1, <1>1, <1>2
    <2>2. CASE i # Len(p) + 1
        <3>1. i \in 1..Len(p) /\ (~(i <= Len(a)) => i - Len(a) \in 1..Len(b))
            BY <2>2, <1>1, <1>3
        <3> QED BY <3>1, <1>1, <1>2, <1>3
    <2> QED BY <2>1, <2>2
<1> QED
    BY <1>1, <1>2, <1>3, <1>4 DEF ThreeParts, q, d

\* ... and through the last part in any case.
LEMMA AppendAtTheEnd ==
    ASSUME NEW M, NEW p \in Seq(M), NEW a \in Seq(M), NEW b \in Seq(M), NEW c \in Seq(M),
           NEW m \in M, ThreeParts(p, a, b, c)
    PROVE  ThreeParts(Append(p, m), a, b, Append(c, m))
<1> DEFINE q == Append(p, m)
           d == Append(c, m)
<1>1. /\ Len(q) = Len(p) + 1 /\ q[Len(p) + 1] = m
      /\ \A i \in 1..Len(p) : q[i] = p[i]
    BY AppendProperties
<1>2. /\ Len(d) = Len(c) + 1 /\ d[Len(c) + 1] = m
      /\ \A i \in 1..Len(c) : d[i] = c[i]
    BY AppendProperties
<1>3. /\ Len(a) \in Nat /\ Len(b) \in Nat /\ Len(c) \in Nat
      /\ Len(p) = Len(a) + Len(b) + Len(c)
      /\ \A i \in 1..Len(p) : p[i] =
            IF i <= Len(a) THEN a[i]
            ELSE IF i <= Len(a) + Len(b) THEN b[i - Len(a)]
            ELSE c[i - Len(a) - Len(b)]
    BY DEF ThreeParts
<1> HIDE DEF q, d
<1>4. ASSUME NEW i \in 1..Len(q)
      PROVE  q[i] = IF i <= Len(a) THEN a[i]
                    ELSE IF i <= Len(a) + Len(b) THEN b[i - Len(a)]
                    ELSE d[i - Len(a) - Len(b)]
    <2>1. CASE i = Len(p) + 1
        <3>1. /\ ~(i <= Len(a)) /\ ~(i <= Len(a) + Len(b))
              /\ i - Len(a) - Len(b) = Len(c) + 1
            BY <2>1, <1>3
        <3> QED BY <2>1, <3>1, <1>1, <1>2
    <2>2. CASE i # Len(p) + 1
        <3>1. i \in 1..Len(p) /\ i <= Len(a) + Len(b) + Len(c)
            BY <2>2, <1>1, <1>3
        <3>2. ~(i <= Len(a) + Len(b)) => i - Len(a) - Len(b) \in 1..Len(c)
            BY <3>1, <1>3, InTheLastPart
        <3> QED BY <3>1, <3>2, <1>1, <1>2, <1>3
    <2> QED BY <2>1, <2>2
<1> QED
    BY <1>1, <1>2, <1>3, <1>4 DEF ThreeParts, q, d

\* Without a first part, the head is that of the middle part, and what follows
\* it is the tail of the middle part followed by the last part.
LEMMA HeadOfTheMiddle ==
    ASSUME NEW M, NEW p \in Seq(M), NEW b \in Seq(M), NEW c \in Seq(M), b # <<>>,
           ThreeParts(p, <<>>, b, c)
    PROVE  p # <<>> /\ Head(p) = Head(b) /\ ThreeParts(Tail(p), <<>>, Tail(b), c)
<1>1. /\ Len(b) \in Nat \ {0} /\ Len(c) \in Nat /\ Len(<<>>) = 0
      /\ Len(p) = Len(b) + Len(c)
      /\ \A i \in 1..Len(p) : p[i] = IF i <= Len(b) THEN b[i] ELSE c[i - Len(b)]
    BY DEF ThreeParts
<1>2. p # <<>> /\ 1 \in 1..Len(p) /\ 1 <= Len(b)
    BY <1>1
<1>3. p[1] = b[1]
    BY <1>1, <1>2
<1>4. Head(p) = Head(b)
    BY <1>2, <1>3
<1> DEFINE q == Tail(p)
           d == Tail(b)
<1>5. Len(q) = Len(p) - 1 /\ \A i \in 1..Len(q) : q[i] = p[i + 1]
    BY <1>2, HeadTailProperties
<1>6. Len(d) = Len(b) - 1 /\ \A i \in 1..Len(d) : d[i] = b[i + 1]
    BY HeadTailProperties
<1> HIDE DEF q, d
<1>7. ASSUME NEW i \in 1..Len(q)
      PROVE  q[i] = IF i <= Len(d) THEN d[i] ELSE c[i - Len(d)]
    <2>1. i + 1 \in 1..Len(p)
        BY <1>1, <1>5
    <2>2. CASE i <= Len(d)
        <3>1. i \in 1..Len(d) /\ i + 1 <= Len(b)
            BY <2>2, <1>1, <1>6
        <3> QED BY <2>1, <2>2, <3>1, <1>1, <1>5, <1>6
    <2>3. CASE ~(i <= Len(d))
        <3>1. ~(i + 1 <= Len(b)) /\ i + 1 - Len(b) = i - Len(d)
            BY <2>3, <1>1, <1>6
        <3> QED BY <2>1, <2>3, <3>1, <1>1, <1>5
    <2> QED BY <2>2, <2>3
<1>8. Len(q) = Len(d) + Len(c)
    BY <1>1, <1>5, <1>6
<1> QED
    BY <1>1, <1>2, <1>4, <1>5, <1>6, <1>7, <1>8 DEF ThreeParts, q, d

\* The boundary between the middle and the last part can be moved.
LEMMA MoveBoundary ==
    ASSUME NEW M, NEW p \in Seq(M), NEW b \in Seq(M), NEW c \in Seq(M), c # <<>>,
           ThreeParts(p, <<>>, b, c)
    PROVE  ThreeParts(p, <<>>, Append(b, Head(c)), Tail(c))
<1>1. /\ Len(b) \in Nat /\ Len(c) \in Nat \ {0} /\ Len(<<>>) = 0
      /\ Len(p) = Len(b) + Len(c)
      /\ \A i \in 1..Len(p) : p[i] = IF i <= Len(b) THEN b[i] ELSE c[i - Len(b)]
    BY DEF ThreeParts
<1> DEFINE d == Append(b, Head(c))
           e == Tail(c)
<1>2. /\ Head(c) \in M /\ Head(c) = c[1]
      /\ Len(e) = Len(c) - 1 /\ \A i \in 1..Len(e) : e[i] = c[i + 1]
    BY HeadTailProperties
<1>3. /\ Len(d) = Len(b) + 1 /\ d[Len(b) + 1] = c[1]
      /\ \A i \in 1..Len(b) : d[i] = b[i]
    BY <1>2, AppendProperties
<1> HIDE DEF d, e
<1>4. ASSUME NEW i \in 1..Len(p)
      PROVE  p[i] = IF i <= Len(d) THEN d[i] ELSE e[i - Len(d)]
    <2>1. CASE i <= Len(b)
        <3>1. i <= Len(d) /\ i \in 1..Len(b)
            BY <2>1, <1>1, <1>3
        <3> QED BY <3>1, <2>1, <1>1, <1>3
    <2>2. CASE i = Len(b) + 1
        <3>1. i <= Len(d) /\ ~(i <= Len(b)) /\ i - Len(b) = 1
            BY <2>2, <1>1, <1>3
        <3> QED BY <3>1, <2>2, <1>1, <1>3
    <2>3. CASE i > Len(b) + 1
        <3>1. /\ ~(i <= Len(d)) /\ ~(i <= Len(b))
              /\ i - Len(d) \in 1..Len(e) /\ (i - Len(d)) + 1 = i - Len(b)
            BY <2>3, <1>1, <1>2, <1>3
        <3> QED BY <3>1, <1>1, <1>2
    <2> QED BY <2>1, <2>2, <2>3, <1>1
<1>5. Len(p) = Len(d) + Len(e)
    BY <1>1, <1>2, <1>3
<1> QED
    BY <1>1, <1>4, <1>5 DEF ThreeParts, d, e

-----------------------------------------------------------------------------
\* The suspended messages follow the queue of suspended senders.
LEMMA SuspendedType ==
    ASSUME NEW M, NEW C, NEW ch \in Channel(M, C)
    PROVE  /\ Suspended(ch) \in Seq(M)
           /\ Len(Suspended(ch)) = Len(ch.senders)
           /\ \A i \in 1..Len(ch.senders) : Suspended(ch)[i] = ch.senders[i].msg
<1> DEFINE s == ch.senders
<1>1. s \in Seq([msg : M, by : C])
    BY Fields
<1>2. Suspended(ch) = [i \in 1..Len(s) |-> s[i].msg]
    BY DEF Suspended
<1> HIDE DEF s
<1>3. ASSUME NEW i \in 1..Len(s) PROVE s[i].msg \in M
    <2>1. s[i] \in [msg : M, by : C]
        BY <1>1, ElementOfSeq
    <2> QED BY <2>1
<1>4. Len(s) \in Nat
    BY <1>1
<1>5. [i \in 1..Len(s) |-> s[i].msg] \in Seq(M)
    BY <1>3, <1>4
<1> QED BY <1>2, <1>4, <1>5 DEF s

LEMMA SuspendedEmpty ==
    ASSUME NEW M, NEW C, NEW ch \in Channel(M, C)
    PROVE  Suspended(ch) = <<>> <=> ch.senders = <<>>
<1>1. ch.senders \in Seq([msg : M, by : C]) /\ Suspended(ch) \in Seq(M)
    BY Fields, SuspendedType
<1>2. Len(Suspended(ch)) = Len(ch.senders)
    BY SuspendedType
<1> QED BY <1>1, <1>2, EmptySeq

LEMMA SuspendedAppend ==
    ASSUME NEW M, NEW C, NEW ch \in Channel(M, C), NEW new \in Channel(M, C),
           NEW m \in M, NEW c \in C,
           new.senders = Append(ch.senders, [msg |-> m, by |-> c])
    PROVE  Suspended(new) = Append(Suspended(ch), m)
<1>0. ch \in Channel(M, C) /\ new \in Channel(M, C)
    OBVIOUS
<1>a. /\ Suspended(ch) \in Seq(M) /\ Len(Suspended(ch)) = Len(ch.senders)
      /\ \A i \in 1..Len(ch.senders) : Suspended(ch)[i] = ch.senders[i].msg
    BY ONLY <1>0, SuspendedType
<1>b. /\ Suspended(new) \in Seq(M) /\ Len(Suspended(new)) = Len(new.senders)
      /\ \A i \in 1..Len(new.senders) : Suspended(new)[i] = new.senders[i].msg
    BY ONLY <1>0, SuspendedType
<1> DEFINE e == [msg |-> m, by |-> c]
           s == ch.senders
           t == Append(s, e)
           u == Suspended(ch)
           v == Suspended(new)
           w == Append(u, m)
<1>1. e \in [msg : M, by : C] /\ e.msg = m /\ s \in Seq([msg : M, by : C])
    BY Fields
<1>2. /\ u \in Seq(M) /\ v \in Seq(M) /\ Len(u) = Len(s) /\ Len(v) = Len(t)
      /\ \A i \in 1..Len(s) : u[i] = s[i].msg
      /\ \A i \in 1..Len(t) : v[i] = t[i].msg
    BY <1>a, <1>b
<1> HIDE DEF u, v
<1> HIDE DEF s, e
<1>3. Len(t) = Len(s) + 1 /\ t[Len(s) + 1] = e /\ \A i \in 1..Len(s) : t[i] = s[i]
    BY <1>1, AppendProperties
<1>4. /\ w \in Seq(M) /\ Len(w) = Len(u) + 1 /\ w[Len(u) + 1] = m
      /\ \A i \in 1..Len(u) : w[i] = u[i]
    BY <1>2, AppendProperties
<1>5. Len(s) \in Nat
    BY <1>1
<1> HIDE DEF t, w
<1>6. ASSUME NEW i \in 1..Len(v) PROVE v[i] = w[i]
    <2>1. CASE i = Len(s) + 1
        BY <2>1, <1>1, <1>2, <1>3, <1>4
    <2>2. CASE i # Len(s) + 1
        <3>1. i \in 1..Len(s)
            BY <2>2, <1>2, <1>3, <1>5
        <3> QED BY <3>1, <1>2, <1>3, <1>4
    <2> QED BY <2>1, <2>2
<1>7. Len(v) = Len(w)
    BY <1>2, <1>3, <1>4
<1>8. v = w
    BY <1>2, <1>4, <1>6, <1>7, SeqEqual
<1> QED BY <1>8 DEF v, w, u

LEMMA SuspendedTail ==
    ASSUME NEW M, NEW C, NEW ch \in Channel(M, C), NEW new \in Channel(M, C),
           ch.senders # <<>>, new.senders = Tail(ch.senders)
    PROVE  /\ Suspended(new) = Tail(Suspended(ch))
           /\ Head(Suspended(ch)) = Head(ch.senders).msg
<1>0. ch \in Channel(M, C) /\ new \in Channel(M, C)
    OBVIOUS
<1>a. /\ Suspended(ch) \in Seq(M) /\ Len(Suspended(ch)) = Len(ch.senders)
      /\ \A i \in 1..Len(ch.senders) : Suspended(ch)[i] = ch.senders[i].msg
    BY ONLY <1>0, SuspendedType
<1>b. /\ Suspended(new) \in Seq(M) /\ Len(Suspended(new)) = Len(new.senders)
      /\ \A i \in 1..Len(new.senders) : Suspended(new)[i] = new.senders[i].msg
    BY ONLY <1>0, SuspendedType
<1> DEFINE s == ch.senders
           t == Tail(s)
           u == Suspended(ch)
           v == Suspended(new)
           w == Tail(u)
<1>1. s \in Seq([msg : M, by : C]) /\ s # <<>>
    BY Fields
<1>2. /\ u \in Seq(M) /\ v \in Seq(M) /\ Len(u) = Len(s) /\ Len(v) = Len(t)
      /\ \A i \in 1..Len(s) : u[i] = s[i].msg
      /\ \A i \in 1..Len(t) : v[i] = t[i].msg
    BY <1>a, <1>b
<1> HIDE DEF u, v
<1>3. u # <<>>
    BY SuspendedEmpty DEF u
<1> HIDE DEF s
<1>4. Len(t) = Len(s) - 1 /\ \A i \in 1..Len(t) : t[i] = s[i + 1]
    BY <1>1, HeadTailProperties
<1>5. w \in Seq(M) /\ Len(w) = Len(u) - 1 /\ \A i \in 1..Len(w) : w[i] = u[i + 1]
    BY <1>2, <1>3, HeadTailProperties
<1>6. Len(s) \in Nat \ {0}
    BY <1>1
<1> HIDE DEF t, w
<1>7. ASSUME NEW i \in 1..Len(v) PROVE v[i] = w[i]
    <2>1. i \in 1..Len(t) /\ i \in 1..Len(w) /\ i + 1 \in 1..Len(s)
        BY <1>2, <1>4, <1>5, <1>6
    <2> QED BY <2>1, <1>2, <1>4, <1>5
<1>8. v = w
    BY <1>2, <1>4, <1>5, <1>7, SeqEqual
<1>9. Head(u) = Head(s).msg
    <2>1. Head(u) = u[1] /\ Head(s) = s[1] /\ 1 \in 1..Len(s)
        BY <1>1, <1>2, <1>3, <1>6
    <2> QED BY <2>1, <1>2
<1> QED BY <1>8, <1>9 DEF v, w, u, s

LEMMA PendingParts ==
    ASSUME NEW M, NEW C, NEW ch \in Channel(M, C)
    PROVE  /\ Pending(ch) \in Seq(M)
           /\ ThreeParts(Pending(ch), ch.handed, ch.buffer, Suspended(ch))
<1> DEFINE h == ch.handed
           b == ch.buffer
           s == Suspended(ch)
<1>1. Pending(ch) = h \o b \o s
    BY DEF Pending, Suspended
<1>2. h \in Seq(M) /\ b \in Seq(M) /\ s \in Seq(M)
    BY Fields, SuspendedType
<1> HIDE DEF h, b, s
<1>3. h \o b \o s \in Seq(M) /\ ThreeParts(h \o b \o s, h, b, s)
    BY <1>2, ConcatThree
<1> QED BY <1>1, <1>3 DEF h, b, s

-----------------------------------------------------------------------------
LEMMA SendKeepsType ==
    ASSUME NEW M, NEW C, NEW ch \in Channel(M, C), Sound(ch), NEW m \in M, NEW c \in C
    PROVE  Send(ch, m, c) \in Channel(M, C) /\ Sound(Send(ch, m, c))
<1>0. /\ ch.buffer \in Seq(M) /\ ch.handed \in Seq(M)
      /\ ch.senders \in Seq([msg : M, by : C])
      /\ ch.waiting \in BOOLEAN /\ ch.open \in BOOLEAN
    BY Fields
<1>1. CASE ~ch.open
    BY <1>1 DEF Send
<1>2. CASE ch.open /\ ch.waiting
    <2>1. Send(ch, m, c) = [ch EXCEPT !.waiting = FALSE, !.handed = <<m>>]
        BY <1>2 DEF Send
    <2>2. <<m>> \in Seq(M)
        OBVIOUS
    <2> QED BY <1>2, <2>1, <2>2, CapacityAssumption DEF Channel, Sound
<1>3. CASE ch.open /\ ~ch.waiting /\ Len(ch.buffer) < Capacity
    <2>1. Send(ch, m, c) = [ch EXCEPT !.buffer = Append(ch.buffer, m)]
        BY <1>3 DEF Send
    <2>2. Append(ch.buffer, m) \in Seq(M) /\ Len(Append(ch.buffer, m)) = Len(ch.buffer) + 1
        BY <1>0, AppendProperties
    <2>3. Len(ch.buffer) \in Nat /\ ch.senders = <<>>
        BY <1>3, <1>0, CapacityAssumption DEF Sound
    <2>4. Len(ch.buffer) + 1 <= Capacity
        BY <1>3, <2>3, CapacityAssumption
    <2> HIDE DEF Send
    <2> DEFINE b == Append(ch.buffer, m)
    <2>5. [ch EXCEPT !.buffer = b] \in Channel(M, C)
        BY <2>2 DEF Channel
    <2>6. /\ [ch EXCEPT !.buffer = b].buffer = b
          /\ [ch EXCEPT !.buffer = b].senders = <<>>
          /\ [ch EXCEPT !.buffer = b].waiting = FALSE
        BY <1>3, <2>3 DEF Channel
    <2> HIDE DEF b
    <2>7. Sound([ch EXCEPT !.buffer = b])
        BY <2>2, <2>4, <2>6 DEF Sound, b
    <2> QED BY <2>1, <2>5, <2>7 DEF b
<1>4. CASE ch.open /\ ~ch.waiting /\ ~(Len(ch.buffer) < Capacity)
    <2> DEFINE e == [msg |-> m, by |-> c]
               s == Append(ch.senders, e)
    <2>1. Send(ch, m, c) = [ch EXCEPT !.senders = s]
        BY <1>4 DEF Send
    <2>2. s \in Seq([msg : M, by : C])
        BY <1>0, AppendProperties
    <2>3. Len(ch.buffer) = Capacity
        BY <1>4, <1>0, CapacityAssumption DEF Sound
    <2> HIDE DEF s
    <2> QED BY <1>4, <2>1, <2>2, <2>3, CapacityAssumption DEF Channel, Sound
<1> QED
    BY <1>1, <1>2, <1>3, <1>4, <1>0

LEMMA ReceiveKeepsType ==
    ASSUME NEW M, NEW C, NEW ch \in Channel(M, C), Sound(ch), ch.buffer # <<>>
    PROVE  Receive(ch) \in Channel(M, C) /\ Sound(Receive(ch))
<1>0. /\ ch.buffer \in Seq(M) /\ ch.handed \in Seq(M)
      /\ ch.senders \in Seq([msg : M, by : C])
      /\ ch.waiting \in BOOLEAN /\ ch.open \in BOOLEAN
    BY Fields
<1>1. /\ Tail(ch.buffer) \in Seq(M) /\ Len(Tail(ch.buffer)) = Len(ch.buffer) - 1
      /\ Len(ch.buffer) \in Nat /\ ~ch.waiting
    BY <1>0, HeadTailProperties DEF Sound
<1>2. CASE ch.senders = <<>>
    <2> DEFINE b == Tail(ch.buffer)
    <2>1. Receive(ch) = [ch EXCEPT !.buffer = b]
        BY <1>2 DEF Receive
    <2> HIDE DEF b
    <2>2. b \in Seq(M) /\ Len(b) <= Capacity
        BY <1>1, CapacityAssumption DEF b, Sound
    <2> QED BY <1>1, <1>2, <2>1, <2>2, CapacityAssumption DEF Channel, Sound
<1>3. CASE ch.senders # <<>>
    <2> DEFINE b == Append(Tail(ch.buffer), Head(ch.senders).msg)
               s == Tail(ch.senders)
    <2>1. Receive(ch) = [ch EXCEPT !.buffer = b, !.senders = s]
        BY <1>3 DEF Receive
    <2>2. Head(ch.senders) \in [msg : M, by : C] /\ s \in Seq([msg : M, by : C])
        BY <1>3, <1>0, HeadTailProperties
    <2>3. Head(ch.senders).msg \in M
        BY <2>2
    <2>4. b \in Seq(M) /\ Len(b) = Len(Tail(ch.buffer)) + 1
        BY <1>1, <2>3, AppendProperties
    <2>5. Len(b) = Capacity
        BY <1>1, <1>3, <2>4 DEF Sound
    <2> HIDE DEF b, s
    <2>6. Receive(ch) \in Channel(M, C)
        BY <2>1, <2>2, <2>4 DEF Channel
    <2>7. Receive(ch).buffer = b /\ Receive(ch).waiting = FALSE
        BY <2>1, <1>1, <1>0 DEF Channel
    <2>8. Len(b) <= Capacity
        BY <2>5, CapacityAssumption
    <2> QED BY <2>5, <2>6, <2>7, <2>8 DEF Sound
<1> QED
    BY <1>2, <1>3

\* A message sent to an open channel goes to the end of what is pending, in all
\* three cases of queue_message; a closed channel does not change.
LEMMA SendAppends ==
    ASSUME NEW M, NEW C, NEW ch \in Channel(M, C), Sound(ch), NEW m \in M, NEW c \in C
    PROVE  /\ ch.open => Pending(Send(ch, m, c)) = Append(Pending(ch), m)
           /\ ~ch.open => Send(ch, m, c) = ch
<1>0. /\ ch.buffer \in Seq(M) /\ ch.handed \in Seq(M)
      /\ ch.senders \in Seq([msg : M, by : C])
      /\ ch.waiting \in BOOLEAN /\ ch.open \in BOOLEAN
    BY Fields
<1> DEFINE new == Send(ch, m, c)
           p   == Pending(ch)
           q   == Pending(new)
           a   == Append(p, m)
<1>1. ~ch.open => Send(ch, m, c) = ch
    BY DEF Send
<1>2. new \in Channel(M, C)
    BY SendKeepsType
<1>3. p \in Seq(M) /\ ThreeParts(p, ch.handed, ch.buffer, Suspended(ch))
    BY PendingParts
<1>4. q \in Seq(M) /\ ThreeParts(q, new.handed, new.buffer, Suspended(new))
    BY <1>2, PendingParts
<1>5. a \in Seq(M)
    BY <1>3, AppendProperties
<1>6. Suspended(ch) \in Seq(M)
    BY SuspendedType
<1> HIDE DEF p, q
<1>7. ASSUME ch.open PROVE ThreeParts(a, new.handed, new.buffer, Suspended(new))
    <2>1. CASE ch.waiting
        <3>1. new = [ch EXCEPT !.waiting = FALSE, !.handed = <<m>>]
            BY <1>7, <2>1 DEF Send
        <3>2. /\ new.handed = <<m>> /\ new.buffer = <<>> /\ new.senders = <<>>
              /\ ch.handed = <<>> /\ ch.buffer = <<>> /\ ch.senders = <<>>
            BY <3>1, <2>1 DEF Channel, Sound
        <3> HIDE DEF new
        <3>3. Suspended(new) = <<>> /\ Suspended(ch) = <<>>
            BY <1>2, <3>2, SuspendedEmpty
        <3>4. Len(p) = 0
            BY <1>3, <3>2, <3>3 DEF ThreeParts
        <3>5. Len(a) = 1 /\ a[1] = m
            BY <1>3, <3>4, AppendProperties
        <3> QED BY <3>2, <3>3, <3>5 DEF ThreeParts
    <2>2. CASE ~ch.waiting /\ Len(ch.buffer) < Capacity
        <3>1. new = [ch EXCEPT !.buffer = Append(ch.buffer, m)]
            BY <1>7, <2>2 DEF Send
        <3>2. /\ new.handed = ch.handed /\ new.senders = ch.senders
              /\ new.buffer = Append(ch.buffer, m)
            BY <3>1 DEF Channel
        <3>3. ch.senders = <<>>
            BY <2>2, <1>0, CapacityAssumption DEF Sound
        <3> HIDE DEF new
        <3>4. Suspended(new) = <<>> /\ Suspended(ch) = <<>>
            BY <1>2, <3>2, <3>3, SuspendedEmpty
        <3>5. ThreeParts(p, ch.handed, ch.buffer, <<>>)
            BY <1>3, <3>4
        <3>6. ThreeParts(a, ch.handed, Append(ch.buffer, m), <<>>)
            BY <1>0, <1>3, <3>5, AppendInTheMiddle
        <3> QED BY <3>2, <3>4, <3>6
    <2>3. CASE ~ch.waiting /\ ~(Len(ch.buffer) < Capacity)
        <3>1. new = [ch EXCEPT !.senders = Append(ch.senders, [msg |-> m, by |-> c])]
            BY <1>7, <2>3 DEF Send
        <3>2. /\ new.handed = ch.handed /\ new.buffer = ch.buffer
              /\ new.senders = Append(ch.senders, [msg |-> m, by |-> c])
            BY <3>1 DEF Channel
        <3> HIDE DEF new
        <3>3. Suspended(new) = Append(Suspended(ch), m)
            BY <1>2, <3>2, SuspendedAppend
        <3>4. ThreeParts(a, ch.handed, ch.buffer, Append(Suspended(ch), m))
            BY <1>0, <1>3, <1>6, AppendAtTheEnd
        <3> QED BY <3>2, <3>3, <3>4
    <2> QED BY <1>0, <2>1, <2>2, <2>3
<1> HIDE DEF a, new
<1>8. ASSUME ch.open PROVE q = a
    BY <1>4, <1>5, <1>7, <1>8, ThreePartsUnique
<1> QED
    BY <1>1, <1>8 DEF p, q, a, new

\* What is received is the oldest of what is pending, and the rest keeps its
\* order although a suspended send moves into the slot that is freed.
LEMMA ReceiveTakesHead ==
    ASSUME NEW M, NEW C, NEW ch \in Channel(M, C), Sound(ch),
           ch.buffer # <<>>, ch.handed = <<>>
    PROVE  /\ Pending(ch) # <<>>
           /\ Head(Pending(ch)) = Head(ch.buffer)
           /\ Pending(Receive(ch)) = Tail(Pending(ch))
<1>0. /\ ch.buffer \in Seq(M) /\ ch.handed \in Seq(M)
      /\ ch.senders \in Seq([msg : M, by : C])
      /\ ch.waiting \in BOOLEAN /\ ch.open \in BOOLEAN
    BY Fields
<1> DEFINE new == Receive(ch)
           p   == Pending(ch)
           q   == Pending(new)
<1>1. new \in Channel(M, C)
    BY ReceiveKeepsType
<1>2. p \in Seq(M) /\ ThreeParts(p, <<>>, ch.buffer, Suspended(ch))
    BY PendingParts
<1>3. q \in Seq(M) /\ ThreeParts(q, new.handed, new.buffer, Suspended(new))
    BY <1>1, PendingParts
<1>4. Suspended(ch) \in Seq(M)
    BY SuspendedType
<1> HIDE DEF p, q
<1>5. p # <<>> /\ Head(p) = Head(ch.buffer)
      /\ ThreeParts(Tail(p), <<>>, Tail(ch.buffer), Suspended(ch))
    BY <1>0, <1>2, <1>4, HeadOfTheMiddle
<1>6. Tail(p) \in Seq(M) /\ Tail(ch.buffer) \in Seq(M)
    BY <1>0, <1>2, <1>5, HeadTailProperties
<1>7. new.handed = <<>> /\ ThreeParts(Tail(p), <<>>, new.buffer, Suspended(new))
    <2>1. CASE ch.senders = <<>>
        <3>1. new = [ch EXCEPT !.buffer = Tail(ch.buffer)]
            BY <2>1 DEF Receive
        <3>2. new.handed = <<>> /\ new.senders = <<>> /\ new.buffer = Tail(ch.buffer)
            BY <3>1, <2>1 DEF Channel
        <3> HIDE DEF new
        <3>3. Suspended(new) = <<>> /\ Suspended(ch) = <<>>
            BY <1>1, <2>1, <3>2, SuspendedEmpty
        <3> QED BY <1>5, <3>2, <3>3
    <2>2. CASE ch.senders # <<>>
        <3>1. new = [ch EXCEPT !.buffer = Append(Tail(ch.buffer), Head(ch.senders).msg),
                               !.senders = Tail(ch.senders)]
            BY <2>2 DEF Receive
        <3>2. /\ new.handed = <<>>
              /\ new.senders = Tail(ch.senders)
              /\ new.buffer = Append(Tail(ch.buffer), Head(ch.senders).msg)
            BY <3>1 DEF Channel
        <3> HIDE DEF new
        <3>3. /\ Suspended(new) = Tail(Suspended(ch))
              /\ Head(Suspended(ch)) = Head(ch.senders).msg
            BY <1>1, <2>2, <3>2, SuspendedTail
        <3>4. Suspended(ch) # <<>>
            BY <2>2, SuspendedEmpty
        <3>5. ThreeParts(Tail(p), <<>>, Append(Tail(ch.buffer), Head(Suspended(ch))),
                         Tail(Suspended(ch)))
            BY <1>4, <1>5, <1>6, <3>4, MoveBoundary
        <3> QED BY <3>2, <3>3, <3>5
    <2> QED BY <2>1, <2>2
<1> HIDE DEF new
<1>8. q = Tail(p)
    BY <1>3, <1>6, <1>7, ThreePartsUnique
<1> QED
    BY <1>5, <1>8 DEF p, q, new

\* A receiver that is resumed takes the message handed to it, which is the
\* oldest one, and leaves the rest as it is.
LEMMA ResumeTakesHead ==
    ASSUME NEW M, NEW C, NEW ch \in Channel(M, C), Len(ch.handed) = 1
    PROVE  /\ Pending(ch) # <<>>
           /\ Head(Pending(ch)) = Head(ch.handed)
           /\ Pending(Resume(ch)) = Tail(Pending(ch))
           /\ Resume(ch) \in Channel(M, C)
<1>0. /\ ch.buffer \in Seq(M) /\ ch.handed \in Seq(M)
      /\ ch.senders \in Seq([msg : M, by : C])
      /\ ch.waiting \in BOOLEAN /\ ch.open \in BOOLEAN
    BY Fields
<1> DEFINE new == Resume(ch)
           p   == Pending(ch)
           q   == Pending(new)
           r   == Tail(p)
           b   == ch.buffer
           s   == Suspended(ch)
<1>1. new = [ch EXCEPT !.handed = <<>>]
    BY DEF Resume
<1>2. /\ new \in Channel(M, C) /\ new.handed = <<>> /\ new.buffer = ch.buffer
      /\ new.senders = ch.senders
    <2>1. new.handed = <<>> /\ new.buffer = ch.buffer /\ new.senders = ch.senders
        BY <1>1 DEF Channel
    <2>2. <<>> \in Seq(M)
        OBVIOUS
    <2>3. new \in Channel(M, C)
        BY <1>1, <2>2 DEF Channel
    <2> QED BY <2>1, <2>3
<1>3. Suspended(new) = s
    BY <1>2 DEF Suspended
<1>4. p \in Seq(M) /\ ThreeParts(p, ch.handed, b, s)
    BY PendingParts
<1>5. q \in Seq(M) /\ ThreeParts(q, <<>>, b, s)
    BY <1>2, <1>3, PendingParts
<1>6. s \in Seq(M) /\ b \in Seq(M)
    BY <1>0, SuspendedType
<1> HIDE DEF new, p, q, b, s
<1>7. /\ Len(p) = 1 + Len(b) + Len(s) /\ Len(b) \in Nat /\ Len(s) \in Nat
      /\ \A i \in 1..Len(p) : p[i] = IF i <= 1 THEN ch.handed[i]
                                     ELSE IF i <= 1 + Len(b) THEN b[i - 1]
                                     ELSE s[i - 1 - Len(b)]
    BY <1>4, <1>6 DEF ThreeParts
<1>8. p # <<>> /\ 1 \in 1..Len(p) /\ Len(p) \in Nat
    BY <1>4, <1>7
<1>9. Head(p) = Head(ch.handed)
    <2>1. p[1] = ch.handed[1]
        BY <1>7, <1>8
    <2> QED BY <2>1, <1>0, <1>4, <1>8
<1>10. /\ r \in Seq(M) /\ Len(r) = Len(p) - 1
       /\ \A i \in 1..Len(r) : r[i] = p[i + 1]
    BY <1>4, <1>8, HeadTailProperties
<1> HIDE DEF r
<1>11. ASSUME NEW i \in 1..Len(r)
       PROVE  r[i] = IF i <= Len(b) THEN b[i] ELSE s[i - Len(b)]
    <2>1. /\ i + 1 \in 1..Len(p) /\ ~(i + 1 <= 1) /\ (i + 1 <= 1 + Len(b) <=> i <= Len(b))
          /\ (i + 1) - 1 = i
        BY <1>7, <1>10
    <2> QED BY <2>1, <1>7, <1>10
<1>12. Len(r) = Len(b) + Len(s) /\ Len(<<>>) = 0
    BY <1>7, <1>10
<1>13. ThreeParts(r, <<>>, b, s)
    BY <1>6, <1>11, <1>12 DEF ThreeParts
<1>14. q = r
    BY <1>5, <1>10, <1>13, ThreePartsUnique
<1> QED
    BY <1>2, <1>8, <1>9, <1>14 DEF new, p, q, r

\* What a send does to the parts of the channel the receiver looks at.
LEMMA SendEffects ==
    ASSUME NEW M, NEW C, NEW ch \in Channel(M, C), NEW m \in M, NEW c \in C
    PROVE  /\ Send(ch, m, c).open = ch.open
           /\ ch.open /\ ch.waiting => /\ Send(ch, m, c).handed = <<m>>
                                       /\ ~Send(ch, m, c).waiting
           /\ ~(ch.open /\ ch.waiting) => /\ Send(ch, m, c).handed = ch.handed
                                          /\ Send(ch, m, c).waiting = ch.waiting
<1>1. ch.waiting \in BOOLEAN /\ ch.open \in BOOLEAN
    BY Fields
<1>2. CASE ~ch.open
    BY <1>1, <1>2 DEF Send
<1>3. CASE ch.open /\ ch.waiting
    BY <1>1, <1>3 DEF Send, Channel
<1>4. CASE ch.open /\ ~ch.waiting
    BY <1>1, <1>4 DEF Send, Channel
<1> QED BY <1>1, <1>2, <1>3, <1>4

-----------------------------------------------------------------------------
\* The bot.

\* Where the loop is says what the channel does for it: a message is handed over
\* only to a suspended loop, and handlers run only while the loop waits for them.
LoopInv ==
    /\ Sound(chan)
    /\ Len(chan.handed) <= 1
    /\ chan.handed # <<>> => run = "waiting" /\ ~chan.waiting
    /\ chan.waiting => run = "waiting" /\ chan.open
    /\ run = "waiting" => chan.waiting \/ chan.handed # <<>>
    /\ outbox # {} => Relay \in handlers
    /\ handlers # {} => run = "gather"

IInv == TypeOK /\ LoopInv

-----------------------------------------------------------------------------
\* The payload of a command, of a declaration and of an add_thing.
LEMMA PayloadTypes ==
    ASSUME NEW body \in Bodies
    PROVE  /\ body.kind = "command" =>
                /\ body.chat \in Chats /\ body.argv \in Seq(Words)
           /\ body.kind = "incoming_message" => body.chat \in Chats
           /\ body.kind = "command_decl" =>
                body.command \in Words /\ body.level \in Int
           /\ body.kind = "add_thing" => body.thing \in Things
<1>1. CASE body \in Traffic
    <2>1. CASE body = Exit
        BY <2>1 DEF Exit
    <2>2. CASE \E c \in Chats : body = IncomingMessage(c)
        BY <2>2 DEF IncomingMessage
    <2>3. CASE /\ body.kind = "command" /\ body.argv \in Seq(Words)
               /\ \E u \in Users, c \in Chats : body = Command(u, c, body.argv)
        BY <2>3 DEF Command
    <2> QED BY <1>1, <2>1, <2>2, <2>3, TrafficAssumption
<1>2. CASE body = NoMessage.body \/ body = Exit
    BY <1>2 DEF NoMessage, NewMessage, Exit
<1>3. CASE body \in {AddThing(t) : t \in Things}
    BY <1>3 DEF AddThing
<1>4. CASE body \in {CommandDecl(AddMap, Op)}
    BY <1>4, WordsAssumption DEF CommandDecl, Op
<1>5. CASE body \in {OutgoingMessage(c, content) : c \in Chats, content \in Contents}
    BY <1>5 DEF OutgoingMessage
<1> QED
    BY <1>1, <1>2, <1>3, <1>4, <1>5 DEF Bodies

LEMMA CommandUser ==
    ASSUME NEW body \in Bodies, body.kind = "command"
    PROVE  body.user \in Users
<1>1. body \in Traffic
    BY DEF Bodies, NoMessage, NewMessage, Exit, AddThing, CommandDecl, OutgoingMessage
<1> QED BY <1>1, TrafficAssumption DEF Exit, IncomingMessage, Command

LEMMA NewMessageType ==
    ASSUME NEW from \in Things \cup {"", Bot}, NEW to \in Things \cup {All, Bot},
           NEW re \in Nat, NEW body \in Bodies
    PROVE  NewMessage(from, to, re, body) \in Message
BY DEF NewMessage, Message, MessagesOf

\* queue_message keeps the channel as it has to be and wakes the loop.
LEMMA QueueKeeps ==
    ASSUME TypeOK, LoopInv, NEW m \in Message, NEW c \in Coroutines,
           QueueMessage(m, c)
    PROVE  /\ chan' \in Channel(Message, Coroutines)
           /\ serial' \in Nat
           /\ Sound(chan')
           /\ Len(chan'.handed) <= 1
           /\ chan'.handed # <<>> => run = "waiting" /\ ~chan'.waiting
           /\ chan'.waiting => run = "waiting" /\ chan'.open
           /\ run = "waiting" => chan'.waiting \/ chan'.handed # <<>>
           /\ chan'.open = chan.open
<1> DEFINE n == [m EXCEPT !.serial = serial]
<1>1. n \in Message /\ serial' = serial + 1 /\ chan' = Send(chan, n, c) /\ serial \in Nat
    BY DEF QueueMessage, TypeOK, Message, MessagesOf
<1> HIDE DEF n
<1>2. chan \in Channel(Message, Coroutines) /\ Sound(chan)
    BY DEF TypeOK, LoopInv
<1>3. chan' \in Channel(Message, Coroutines) /\ Sound(chan')
    BY <1>1, <1>2, SendKeepsType
<1>4. /\ chan'.open = chan.open
      /\ chan.open /\ chan.waiting => chan'.handed = <<n>> /\ ~chan'.waiting
      /\ ~(chan.open /\ chan.waiting) => chan'.handed = chan.handed
                                         /\ chan'.waiting = chan.waiting
    BY <1>1, <1>2, SendEffects
<1>5. Len(<<n>>) = 1 /\ <<n>> # <<>>
    OBVIOUS
<1> QED
    <2>1. serial' \in Nat
        BY <1>1
    <2>2. CASE chan.open /\ chan.waiting
        <3>1. run = "waiting" /\ chan'.handed = <<n>> /\ ~chan'.waiting
            BY <1>4, <2>2 DEF LoopInv
        <3>2. Len(chan'.handed) <= 1 /\ chan'.handed # <<>>
            BY <1>5, <3>1
        <3> QED BY <1>3, <1>4, <2>1, <3>1, <3>2
    <2>3. CASE ~(chan.open /\ chan.waiting)
        <3>1. /\ chan'.handed = chan.handed
              /\ chan'.waiting = chan.waiting
              /\ chan'.open = chan.open
            BY <1>4, <2>3
        <3> QED BY <1>3, <2>1, <3>1 DEF LoopInv
    <2> QED BY <2>2, <2>3

LEMMA InitIInv == Init => IInv
<1> SUFFICES ASSUME Init PROVE IInv
    OBVIOUS
<1>1. chan \in Channel(Message, Coroutines) /\ Sound(chan)
    BY CapacityAssumption DEF Init, NewChannel, Channel, Sound
<1>2. NoMessage \in Message
    BY DEF NoMessage, NewMessage, NoReply, Message, MessagesOf, Bodies, All
<1>3. TypeOK
    BY <1>1, <1>2, WordsAssumption, SetupOrderAssumption DEF Init, TypeOK
<1>4. LoopInv
    BY <1>1 DEF Init, NewChannel, LoopInv
<1> QED
    BY <1>3, <1>4 DEF IInv

-----------------------------------------------------------------------------
\* Each action keeps the invariant.  The receiving steps first.
LEMMA ReceiveMessageInv == IInv /\ ReceiveMessage => IInv'
<1> SUFFICES ASSUME IInv, ReceiveMessage PROVE IInv'
    OBVIOUS
<1>1. chan \in Channel(Message, Coroutines) /\ Sound(chan) /\ chan.buffer # <<>>
    BY DEF IInv, TypeOK, LoopInv, ReceiveMessage
<1>2. chan' = Receive(chan) /\ cur' = Head(chan.buffer) /\ run' = "handle"
    BY DEF ReceiveMessage
<1>3. chan' \in Channel(Message, Coroutines) /\ Sound(chan')
    BY <1>1, <1>2, ReceiveKeepsType
<1>4. chan.buffer \in Seq(Message)
    BY <1>1, Fields
<1>5. Head(chan.buffer) \in Message
    BY <1>1, <1>4, HeadTailProperties
<1>6. chan'.handed = chan.handed /\ chan'.waiting = chan.waiting
    BY <1>1, <1>2 DEF Receive, Channel
<1>7. TypeOK'
    BY <1>2, <1>3, <1>5 DEF IInv, TypeOK, ReceiveMessage, botVars
<1>8. LoopInv'
    BY <1>2, <1>3, <1>6 DEF IInv, LoopInv, ReceiveMessage
<1> QED BY <1>7, <1>8 DEF IInv

LEMMA WaitForMessageInv == IInv /\ WaitForMessage => IInv'
<1> SUFFICES ASSUME IInv, WaitForMessage PROVE IInv'
    OBVIOUS
<1>1. /\ chan \in Channel(Message, Coroutines) /\ Sound(chan)
      /\ chan.buffer = <<>> /\ chan.open /\ run = "receive" /\ run' = "waiting"
    BY DEF IInv, TypeOK, LoopInv, WaitForMessage
<1>2. chan' = [chan EXCEPT !.waiting = TRUE]
    BY DEF WaitForMessage, AwaitMessage
<1>3. /\ chan' \in Channel(Message, Coroutines) /\ chan'.waiting = TRUE
      /\ chan'.buffer = chan.buffer /\ chan'.senders = chan.senders
      /\ chan'.handed = chan.handed /\ chan'.open = chan.open
    BY <1>1, <1>2 DEF Channel
<1>4. Len(chan.buffer) = 0 /\ chan.senders = <<>> /\ chan.handed = <<>>
    <2>1. Len(chan.buffer) = 0
        BY <1>1
    <2>2. chan.senders = <<>>
        BY <1>1, <2>1, CapacityAssumption DEF Sound
    <2>3. chan.handed = <<>>
        BY <1>1 DEF IInv, LoopInv
    <2> QED BY <2>1, <2>2, <2>3
<1>5. Sound(chan')
    BY <1>1, <1>3, <1>4, CapacityAssumption DEF Sound
<1>6. TypeOK'
    BY <1>1, <1>3 DEF IInv, TypeOK, WaitForMessage, botVars
<1>7. LoopInv'
    BY <1>1, <1>3, <1>4, <1>5 DEF IInv, LoopInv, WaitForMessage
<1> QED BY <1>6, <1>7 DEF IInv

LEMMA ResumeWithMessageInv == IInv /\ ResumeWithMessage => IInv'
<1> SUFFICES ASSUME IInv, ResumeWithMessage PROVE IInv'
    OBVIOUS
<1>1. /\ chan \in Channel(Message, Coroutines) /\ Sound(chan)
      /\ chan.handed # <<>> /\ ~chan.waiting /\ run = "waiting" /\ run' = "handle"
    BY DEF IInv, TypeOK, LoopInv, ResumeWithMessage
<1>2. chan' = [chan EXCEPT !.handed = <<>>] /\ cur' = Head(chan.handed)
    BY DEF ResumeWithMessage, Resume
<1>3. /\ chan'.handed = <<>> /\ chan'.waiting = chan.waiting
      /\ chan'.buffer = chan.buffer /\ chan'.senders = chan.senders
    BY <1>1, <1>2 DEF Channel
<1>4. <<>> \in Seq(Message) /\ Len(<<>>) = 0
    OBVIOUS
<1>5. chan' \in Channel(Message, Coroutines)
    BY <1>1, <1>2, <1>4 DEF Channel
<1>6. Head(chan.handed) \in Message
    BY <1>1, Fields, HeadTailProperties
<1>7. Sound(chan')
    BY <1>1, <1>3 DEF Sound
<1>8. TypeOK'
    BY <1>1, <1>2, <1>5, <1>6 DEF IInv, TypeOK, ResumeWithMessage, botVars
<1>9. LoopInv'
    BY <1>1, <1>3, <1>4, <1>7 DEF IInv, LoopInv, ResumeWithMessage
<1> QED BY <1>8, <1>9 DEF IInv

\* The steps that leave the channel and the messages alone.
LEMMA QuietInv ==
    /\ IInv /\ LeaveLoop => IInv'
    /\ IInv /\ Undeliverable => IInv'
    /\ IInv /\ JoinOneThing => IInv'
    /\ IInv /\ ExitSuccessfully => IInv'
    /\ IInv /\ RelayHandled => IInv'
    /\ IInv /\ RelayDeclared => IInv'
    /\ \A c \in Clients : IInv /\ ClientHandled(c) => IInv'
    /\ IInv /\ UNCHANGED vars => IInv'
<1> USE DEF IInv, TypeOK, LoopInv, botVars, loopVars
<1>1. IInv /\ LeaveLoop => IInv'
    BY DEF LeaveLoop
<1>2. IInv /\ Undeliverable => IInv'
    BY DEF Undeliverable
<1>3. IInv /\ JoinOneThing => IInv'
    BY DEF JoinOneThing
<1>4. IInv /\ ExitSuccessfully => IInv'
    BY DEF ExitSuccessfully
<1>5. IInv /\ RelayHandled => IInv'
    BY DEF RelayHandled
<1>6. IInv /\ RelayDeclared => IInv'
    BY DEF RelayDeclared
<1>7. ASSUME NEW c \in Clients PROVE IInv /\ ClientHandled(c) => IInv'
    <2>1. c # Relay
        BY ClientsAssumption DEF Local
    <2> QED BY <2>1 DEF ClientHandled
<1>8. IInv /\ UNCHANGED vars => IInv'
    BY DEF vars
<1> QED BY <1>1, <1>2, <1>3, <1>4, <1>5, <1>6, <1>7, <1>8

\* The steps that queue a message.
LEMMA ReplyType ==
    ASSUME TypeOK, cur.body.kind = "command", NEW from \in {Bot, Relay},
           NEW content \in Contents
    PROVE  Reply(from, content) \in Message
<1>1. /\ cur.from \in Things \cup {"", Bot} /\ cur.serial \in Nat /\ cur.body \in Bodies
    BY DEF TypeOK, Message, MessagesOf
<1>2. cur.body.chat \in Chats
    BY <1>1, PayloadTypes
<1>3. OutgoingMessage(cur.body.chat, content) \in Bodies
    BY <1>2 DEF Bodies
<1>4. from \in Things \cup {"", Bot} /\ cur.from \in Things \cup {All, Bot}
    BY <1>1 DEF Things, Local, All
<1> QED BY <1>1, <1>3, <1>4, NewMessageType DEF Reply

LEMMA RefuseCommandInv == IInv /\ RefuseCommand => IInv'
<1> SUFFICES ASSUME IInv, RefuseCommand PROVE IInv'
    OBVIOUS
<1>1. PICK content \in Contents : Refuse(content) /\ IsCommand
    <2>1. CASE \E c \in Refusals : Refuse(c)
        BY <2>1 DEF Refusals, Contents
    <2>2. CASE SqlMayFail /\ IsCommand /\ Refuse("an error has ocurred, check logs")
        BY <2>2 DEF Contents
    <2> QED BY <2>1, <2>2 DEF RefuseCommand
<1>2. Reply(Bot, content) \in Message
    BY <1>1, ReplyType DEF IInv, IsCommand
<1>3. QueueMessage(Reply(Bot, content), RunLoop)
    BY <1>1 DEF Refuse
<1>4. RunLoop \in Coroutines
    BY DEF Coroutines
<1>5. /\ chan' \in Channel(Message, Coroutines) /\ serial' \in Nat /\ Sound(chan')
      /\ Len(chan'.handed) <= 1
      /\ chan'.handed # <<>> => run = "waiting" /\ ~chan'.waiting
      /\ chan'.waiting => run = "waiting" /\ chan'.open
    BY <1>2, <1>3, <1>4, QueueKeeps DEF IInv
<1>6. run = "handle" /\ run' = "receive" /\ UNCHANGED <<cur, handlers, outbox, botVars, setup>>
    BY <1>1 DEF RefuseCommand, Refuse
<1>7. TypeOK'
    BY <1>5, <1>6 DEF IInv, TypeOK, botVars
<1>8. LoopInv'
    BY <1>5, <1>6 DEF IInv, LoopInv
<1> QED BY <1>7, <1>8 DEF IInv

LEMMA RelayQueuesInv == IInv /\ RelayQueues => IInv'
<1> SUFFICES ASSUME IInv, RelayQueues PROVE IInv'
    OBVIOUS
<1>1. PICK m \in outbox : QueueMessage(m, RelayHandler) /\ outbox' = outbox \ {m}
    BY DEF RelayQueues
<1>2. m \in Message /\ RelayHandler \in Coroutines
    BY DEF IInv, TypeOK, Coroutines
<1>3. /\ chan' \in Channel(Message, Coroutines) /\ serial' \in Nat /\ Sound(chan')
      /\ Len(chan'.handed) <= 1
      /\ chan'.handed # <<>> => run = "waiting" /\ ~chan'.waiting
      /\ chan'.waiting => run = "waiting" /\ chan'.open
      /\ run = "waiting" => chan'.waiting \/ chan'.handed # <<>>
    BY <1>1, <1>2, QueueKeeps DEF IInv
<1>4. UNCHANGED <<run, cur, handlers, botVars, setup>>
    BY DEF RelayQueues
<1>5. TypeOK'
    BY <1>1, <1>3, <1>4 DEF IInv, TypeOK, botVars
<1>6. LoopInv'
    BY <1>1, <1>3, <1>4 DEF IInv, LoopInv
<1> QED BY <1>5, <1>6 DEF IInv

LEMMA ClientMessageType ==
    ASSUME NEW c \in Clients, NEW to \in Addressees, NEW body \in Traffic
    PROVE  NewMessage(c, to, NoReply, body) \in Message /\ c \in Coroutines
<1>1. c \in Things \cup {"", Bot} /\ to \in Things \cup {All, Bot} /\ NoReply \in Nat
    BY AddresseesAssumption DEF Things, NoReply
<1>2. body \in Bodies
    BY DEF Bodies
<1> QED BY <1>1, <1>2, NewMessageType DEF Coroutines, Things

LEMMA ClientQueuesInv == ASSUME NEW c \in Clients PROVE IInv /\ ClientQueues(c) => IInv'
<1> SUFFICES ASSUME IInv, ClientQueues(c) PROVE IInv'
    OBVIOUS
<1>1. PICK body \in Traffic, to \in Addressees :
        QueueMessage(NewMessage(c, to, NoReply, body), c)
    BY DEF ClientQueues
<1>2. NewMessage(c, to, NoReply, body) \in Message /\ c \in Coroutines
    BY ClientMessageType
<1>3. /\ chan' \in Channel(Message, Coroutines) /\ serial' \in Nat /\ Sound(chan')
      /\ Len(chan'.handed) <= 1
      /\ chan'.handed # <<>> => run = "waiting" /\ ~chan'.waiting
      /\ chan'.waiting => run = "waiting" /\ chan'.open
      /\ run = "waiting" => chan'.waiting \/ chan'.handed # <<>>
    BY <1>1, <1>2, QueueKeeps DEF IInv
<1>4. UNCHANGED <<loopVars, botVars, setup>>
    BY DEF ClientQueues
<1>5. TypeOK'
    BY <1>3, <1>4 DEF IInv, TypeOK, botVars, loopVars
<1>6. LoopInv'
    BY <1>3, <1>4 DEF IInv, LoopInv, loopVars
<1> QED BY <1>5, <1>6 DEF IInv

LEMMA SetupMessageType ==
    ASSUME TypeOK, setup < Len(SetupOrder)
    PROVE  /\ NewMessage("", Bot, NoReply, AddThing(SetupOrder[setup + 1])) \in Message
           /\ Setup \in Coroutines
           /\ setup + 1 \in 0..Len(SetupOrder)
<1> DEFINE n == Len(SetupOrder)
<1>1. n \in Nat /\ setup \in Nat /\ setup < n
    BY SetupOrderAssumption DEF TypeOK
<1> HIDE DEF n
<1>2. setup + 1 \in 1..n /\ setup + 1 \in 0..n
    BY <1>1
<1>3. SetupOrder[setup + 1] \in Things
    BY <1>2, SetupOrderAssumption, ElementOfSeq DEF n
<1>4. AddThing(SetupOrder[setup + 1]) \in Bodies
    BY <1>3 DEF Bodies
<1> QED BY <1>2, <1>4, NewMessageType DEF Coroutines, NoReply, n

LEMMA SetUpNextInv == IInv /\ SetUpNext => IInv'
<1> SUFFICES ASSUME IInv, SetUpNext PROVE IInv'
    OBVIOUS
<1> DEFINE m == NewMessage("", Bot, NoReply, AddThing(SetupOrder[setup + 1]))
<1>1. QueueMessage(m, Setup) /\ setup' = setup + 1 /\ setup < Len(SetupOrder)
    BY DEF SetUpNext
<1>4. m \in Message /\ Setup \in Coroutines /\ setup' \in 0..Len(SetupOrder)
    BY <1>1, SetupMessageType DEF IInv
<1> HIDE DEF m
<1>5. /\ chan' \in Channel(Message, Coroutines) /\ serial' \in Nat /\ Sound(chan')
      /\ Len(chan'.handed) <= 1
      /\ chan'.handed # <<>> => run = "waiting" /\ ~chan'.waiting
      /\ chan'.waiting => run = "waiting" /\ chan'.open
      /\ run = "waiting" => chan'.waiting \/ chan'.handed # <<>>
    BY <1>1, <1>4, QueueKeeps DEF IInv
<1>6. UNCHANGED <<loopVars, botVars>>
    BY DEF SetUpNext
<1>7. TypeOK'
    BY <1>4, <1>5, <1>6 DEF IInv, TypeOK, botVars, loopVars
<1>8. LoopInv'
    BY <1>5, <1>6 DEF IInv, LoopInv, loopVars
<1> QED BY <1>7, <1>8 DEF IInv

\* The handlers start: what the relay is left to queue are messages.
LEMMA RelayStartsType ==
    ASSUME IInv, RelayStarts
    PROVE  outbox' \subseteq Message /\ mappings' \subseteq Seq(Words)
<1>1. cur \in Message /\ mappings \subseteq Seq(Words) /\ cur.body \in Bodies
    BY DEF IInv, TypeOK, Message, MessagesOf
<1>2. CASE cur.body.kind = "incoming_message" /\ RelayIncoming
    <2>1. Relayed({c \in Chats : <<cur.body.chat, c>> \in mappings}) \subseteq Message
        <3> SUFFICES ASSUME NEW c \in Chats
                     PROVE  NewMessage(Relay, All, NoReply, OutgoingMessage(c, "relayed")) \in Message
            BY DEF Relayed
        <3>0. "relayed" \in Contents
            BY DEF Contents
        <3>1. OutgoingMessage(c, "relayed") \in Bodies
            BY <3>0 DEF Bodies
        <3>2. Relay \in Things \cup {"", Bot} /\ All \in Things \cup {All, Bot} /\ NoReply \in Nat
            BY DEF Things, Local, NoReply
        <3> QED BY <3>1, <3>2, NewMessageType
    <2> QED BY <1>1, <1>2, <2>1 DEF RelayIncoming
<1>3. CASE IsCommand /\ RelayCommand
    <2>1. \A content \in Contents : Reply(Relay, content) \in Message
        BY <1>3, ReplyType DEF IInv, IsCommand
    <2>2. /\ Reply(Relay, "added a map") \in Message
          /\ Reply(Relay, "addmap requires 3 arguments") \in Message
          /\ Reply(Relay, "an error has ocurred, check logs") \in Message
        BY <2>1 DEF Contents
    <2>3. cur.body.argv \in Seq(Words) /\ cur.body.argv # <<>>
        BY <1>1, <1>3, PayloadTypes DEF IsCommand
    <2>4. Tail(cur.body.argv) \in Seq(Words)
        BY <2>3, HeadTailProperties
    <2>5. CASE RelayAddMap(Tail(cur.body.argv))
        BY <1>1, <2>2, <2>4, <2>5 DEF RelayAddMap
    <2> QED BY <1>1, <1>3, <2>2, <2>5 DEF RelayCommand
<1>4. CASE outbox' = {} /\ UNCHANGED mappings
    BY <1>1, <1>4
<1> QED BY <1>2, <1>3, <1>4 DEF RelayStarts

LEMMA HandToThingsInv == IInv /\ HandToThings => IInv'
<1> SUFFICES ASSUME IInv, HandToThings PROVE IInv'
    OBVIOUS
<1>1. PICK targets \in SUBSET things : StartHandlers(targets)
    BY DEF HandToThings
<1>2. /\ handlers' \subseteq things /\ run' = "gather" /\ run = "handle"
      /\ UNCHANGED <<chan, serial, cur, things, worker, commands, setup>>
    BY <1>1 DEF StartHandlers, HandToThings
<1>3. outbox' \subseteq Message /\ mappings' \subseteq Seq(Words)
    <2>1. CASE Relay \in targets
        BY <1>1, <2>1, RelayStartsType DEF StartHandlers
    <2>2. CASE Relay \notin targets
        BY <1>1, <2>2 DEF StartHandlers, IInv, TypeOK
    <2> QED BY <2>1, <2>2
<1>4. TypeOK'
    BY <1>2, <1>3 DEF IInv, TypeOK
<1>5. outbox' # {} => Relay \in handlers'
    BY <1>1 DEF StartHandlers, Relay, Logger, Dummy
<1>6. LoopInv'
    BY <1>2, <1>5 DEF IInv, LoopInv
<1> QED BY <1>4, <1>6 DEF IInv

\* The message in hand is handled internally: a declaration, an exit, a new thing.
LEMMA RelayDeclType ==
    NewMessage(Relay, Bot, NoReply, CommandDecl(AddMap, Op)) \in Message
<1>1. CommandDecl(AddMap, Op) \in Bodies
    BY DEF Bodies
<1>2. Relay \in Things \cup {"", Bot} /\ Bot \in Things \cup {All, Bot} /\ NoReply \in Nat
    BY DEF Things, Local, NoReply
<1> QED BY <1>1, <1>2, NewMessageType

LEMMA FinishMessageInv == IInv /\ FinishMessage => IInv'
<1> SUFFICES ASSUME IInv, FinishMessage PROVE IInv'
    OBVIOUS
<1>1. /\ run' = "receive" /\ run \in {"gather", "handle"} /\ handlers = {} /\ outbox = {}
      /\ UNCHANGED <<cur, handlers, outbox, mappings, setup>>
    BY DEF FinishMessage, IInv, LoopInv
<1>2. cur.body \in Bodies
    BY DEF IInv, TypeOK, Message, MessagesOf
<1>3. PICK t \in Things, cmd \in Words, level \in Int :
        \/ UNCHANGED <<chan, serial, things, worker, commands>>
        \/ Declare(cmd, level)
        \/ CloseChannel
        \/ Register(t)
    <2>1. Relay \in Things /\ AddMap \in Words /\ 0 \in Int
        BY WordsAssumption DEF Things, Local
    <2>2. CASE cur.body.kind = "command_decl" /\ Declare(cur.body.command, cur.body.level)
        BY <1>2, <2>1, <2>2, PayloadTypes
    <2>3. CASE cur.body.kind = "add_thing" /\ Register(cur.body.thing)
        BY <1>2, <2>1, <2>3, PayloadTypes
    <2>4. CASE CloseChannel \/ UNCHANGED <<chan, serial, things, worker, commands>>
        BY <2>1, <2>4
    <2> QED BY <2>2, <2>3, <2>4 DEF FinishMessage, HandleInternally
<1>4. CASE UNCHANGED <<chan, serial, things, worker, commands>>
    BY <1>1, <1>4 DEF IInv, TypeOK, LoopInv
<1>5. CASE Declare(cmd, level)
    BY <1>1, <1>5 DEF IInv, TypeOK, LoopInv, Declare
<1>6. CASE CloseChannel
    <2>1. chan' = [chan EXCEPT !.open = FALSE] /\ UNCHANGED <<serial, things, worker, commands>>
        BY <1>6 DEF CloseChannel, Close
    <2>2. chan \in Channel(Message, Coroutines) /\ ~chan.waiting /\ chan.handed = <<>>
        BY <1>1 DEF IInv, TypeOK, LoopInv
    <2>3. /\ chan'.handed = chan.handed /\ chan'.waiting = chan.waiting
          /\ chan'.buffer = chan.buffer /\ chan'.senders = chan.senders
          /\ chan' \in Channel(Message, Coroutines)
        BY <2>1, <2>2 DEF Channel
    <2>4. Sound(chan')
        BY <2>3 DEF IInv, LoopInv, Sound
    <2>5. TypeOK'
        BY <1>1, <2>1, <2>3 DEF IInv, TypeOK
    <2>6. LoopInv'
        BY <1>1, <2>2, <2>3, <2>4 DEF IInv, LoopInv
    <2> QED BY <2>5, <2>6 DEF IInv
<1>7. CASE Register(t)
    <2>1. CASE UNCHANGED <<chan, serial, things, worker, commands>>
        BY <1>4, <2>1
    <2>2. CASE things' = things \cup {t} /\ StartWorker(t) /\ UNCHANGED commands
        <3>1. /\ chan' \in Channel(Message, Coroutines) /\ serial' \in Nat /\ Sound(chan')
              /\ Len(chan'.handed) <= 1
              /\ chan'.handed # <<>> => run = "waiting" /\ ~chan'.waiting
              /\ chan'.waiting => run = "waiting" /\ chan'.open
            <4>1. CASE t = Relay
                <5>1. QueueMessage(NewMessage(Relay, Bot, NoReply, CommandDecl(AddMap, Op)), Relay)
                    BY <2>2, <4>1 DEF StartWorker
                <5>2. Relay \in Coroutines
                    BY DEF Coroutines, Things, Local
                <5> QED BY <5>1, <5>2, RelayDeclType, QueueKeeps DEF IInv
            <4>2. CASE t # Relay
                BY <2>2, <4>2 DEF StartWorker, IInv, TypeOK, LoopInv
            <4> QED BY <4>1, <4>2
        <3>2. worker' \in [Things -> {"absent", "declaring", "running", "returned", "joined"}]
            BY <2>2 DEF StartWorker, IInv, TypeOK
        <3>3. TypeOK'
            BY <1>1, <2>2, <3>1, <3>2 DEF IInv, TypeOK
        <3>4. LoopInv'
            BY <1>1, <3>1 DEF IInv, LoopInv
        <3> QED BY <3>3, <3>4 DEF IInv
    <2> QED BY <1>7, <2>1, <2>2 DEF Register
<1> QED BY <1>3, <1>4, <1>5, <1>6, <1>7

LEMMA NextIInv == IInv /\ [Next]_vars => IInv'
BY ReceiveMessageInv, WaitForMessageInv, ResumeWithMessageInv, QuietInv,
   RefuseCommandInv, HandToThingsInv, FinishMessageInv, RelayQueuesInv,
   ClientQueuesInv, SetUpNextInv
   DEF Next, Loop, Idle

LEMMA InvariantHolds == Spec => []IInv
BY InitIInv, NextIInv, PTL DEF Spec

\* Every variable has its type, for every number of clients and every capacity:
\* in particular only messages travel through the channel of the bot.
THEOREM TypeCorrect == Spec => []TypeOK
<1>1. IInv => TypeOK
    BY DEF IInv
<1> QED BY InvariantHolds, <1>1, PTL

-----------------------------------------------------------------------------
LEMMA PendingEmpty ==
    ASSUME NEW M, NEW C, NEW ch \in Channel(M, C),
           ch.handed = <<>>, ch.buffer = <<>>, ch.senders = <<>>
    PROVE  Pending(ch) = <<>>
<1>1. Suspended(ch) = <<>>
    BY SuspendedEmpty
<1>2. Pending(ch) \in Seq(M) /\ ThreeParts(Pending(ch), <<>>, <<>>, <<>>)
    BY <1>1, PendingParts
<1>3. Len(Pending(ch)) = 0
    BY <1>2 DEF ThreeParts
<1> QED BY <1>2, <1>3, EmptySeq

\* A sender is suspended only while the buffer is full and the loop only while
\* there is nothing to receive: no wake-up is lost between queue_message and run.
THEOREM NobodyWaits == Spec => []NobodyWaitsInVain
<1>1. ASSUME IInv PROVE NobodyWaitsInVain
    <2>1. chan.waiting => Pending(chan) = <<>>
        BY <1>1, PendingEmpty DEF IInv, TypeOK, LoopInv, Sound
    <2> QED BY <1>1, <2>1 DEF IInv, LoopInv, Sound, NobodyWaitsInVain
<1> QED BY InvariantHolds, <1>1, PTL

-----------------------------------------------------------------------------
\* Once the loop has left, the channel is closed and empty and stays so: what is
\* queued then is lost, nothing is suspended.
DrainInv ==
    run \in {"join", "done"} =>
        ~chan.open /\ chan.handed = <<>> /\ chan.buffer = <<>> /\ chan.senders = <<>>
           /\ handlers = {} /\ outbox = {}

\* queue_message on a closed channel changes nothing but the serial.
LEMMA QueueClosed ==
    ASSUME NEW m, NEW c, QueueMessage(m, c), ~chan.open
    PROVE  chan' = chan
BY DEF QueueMessage, Send

LEMMA NextDrainInv == IInv /\ IInv' /\ DrainInv /\ [Next]_vars => DrainInv'
<1> SUFFICES ASSUME IInv, IInv', DrainInv, [Next]_vars, run' \in {"join", "done"}
             PROVE  DrainInv'
    BY DEF DrainInv
<1> USE DEF DrainInv
<1>1. CASE LeaveLoop
    <2>1. ~chan.open /\ chan.buffer = <<>> /\ run = "receive" /\ chan' = chan
          /\ handlers' = handlers /\ outbox' = outbox
        BY <1>1 DEF LeaveLoop
    <2>2. Len(chan.buffer) = 0
        BY <2>1
    <2>3. chan.senders = <<>> /\ chan.handed = <<>> /\ handlers = {} /\ outbox = {}
        BY <2>1, <2>2, CapacityAssumption DEF IInv, LoopInv, Sound
    <2> QED BY <2>1, <2>3
<1>2. CASE ReceiveMessage \/ WaitForMessage \/ ResumeWithMessage \/ RefuseCommand
           \/ HandToThings \/ Undeliverable \/ FinishMessage
    BY <1>2 DEF ReceiveMessage, WaitForMessage, ResumeWithMessage, RefuseCommand, Refuse,
                HandToThings, StartHandlers, Undeliverable, FinishMessage
<1>3. CASE JoinOneThing \/ ExitSuccessfully
    BY <1>3 DEF JoinOneThing, ExitSuccessfully, loopVars
<1>4. CASE RelayQueues
    BY <1>4 DEF RelayQueues
<1>5. CASE RelayHandled \/ RelayDeclared
    BY <1>5 DEF RelayHandled, RelayDeclared, loopVars
<1>6. ASSUME NEW c \in Clients, ClientHandled(c) PROVE DrainInv'
    BY <1>6 DEF ClientHandled
<1>7. ASSUME NEW c \in Clients, ClientQueues(c) PROVE DrainInv'
    <2>1. run \in {"join", "done"} /\ UNCHANGED <<run, handlers, outbox>>
        BY <1>7 DEF ClientQueues, loopVars
    <2>2. chan' = chan
        BY <1>7, <2>1, QueueClosed DEF ClientQueues
    <2> QED BY <2>1, <2>2
<1>8. CASE SetUpNext
    <2>1. run \in {"join", "done"} /\ UNCHANGED <<run, handlers, outbox>>
        BY <1>8 DEF SetUpNext, loopVars
    <2>2. chan' = chan
        BY <1>8, <2>1, QueueClosed DEF SetUpNext
    <2> QED BY <2>1, <2>2
<1>9. CASE Idle \/ UNCHANGED vars
    BY <1>9 DEF Idle, vars
<1> QED BY <1>1, <1>2, <1>3, <1>4, <1>5, <1>6, <1>7, <1>8, <1>9 DEF Next, Loop

\* Everything accepted before the exit is handled before run goes on to join the
\* workers, the sends suspended at that time included (bot::run).
THEOREM DrainedFirst == Spec => []DrainedBeforeJoin
<1>1. Init => DrainInv
    BY DEF Init, DrainInv
<1>2. Spec => []DrainInv
    BY <1>1, InvariantHolds, NextDrainInv, PTL DEF Spec
<1>3. ASSUME IInv, DrainInv PROVE DrainedBeforeJoin
    BY <1>3, PendingEmpty DEF IInv, TypeOK, DrainInv, DrainedBeforeJoin
<1> QED BY InvariantHolds, <1>2, <1>3, PTL

-----------------------------------------------------------------------------
\* addmap is declared by nobody but the relay, for operators.
LevelInv == AddMap \in DOMAIN commands => commands[AddMap] = Op

LEMMA DeclaredLevel ==
    ASSUME NEW body \in Bodies, body.kind = "command_decl"
    PROVE  body.command = AddMap /\ body.level = Op
<1>1. body \notin Traffic
    BY TrafficAssumption DEF Exit, IncomingMessage
<1> QED
    BY <1>1 DEF Bodies, NoMessage, NewMessage, Exit, AddThing, CommandDecl, OutgoingMessage

LEMMA NextLevelInv == IInv /\ LevelInv /\ [Next]_vars => LevelInv'
<1> SUFFICES ASSUME IInv, LevelInv, [Next]_vars PROVE LevelInv'
    OBVIOUS
<1> USE DEF LevelInv
<1>1. CASE UNCHANGED commands
    BY <1>1
<1>2. CASE FinishMessage
    <2>1. cur.body \in Bodies
        BY DEF IInv, TypeOK, Message, MessagesOf
    <2>2. CASE cur.body.kind = "command_decl" /\ Declare(cur.body.command, cur.body.level)
        <3>1. commands' = [c \in DOMAIN commands \cup {AddMap} |->
                                IF c \in DOMAIN commands THEN commands[c] ELSE Op]
            BY <2>1, <2>2, DeclaredLevel DEF Declare
        <3> QED BY <3>1
    <2>3. CASE UNCHANGED commands
        BY <1>1, <2>3
    <2> QED BY <1>2, <2>2, <2>3
        DEF FinishMessage, HandleInternally, CloseChannel, Register
<1>3. CASE UNCHANGED vars
    BY <1>1, <1>3 DEF vars
<1> QED BY <1>1, <1>2, <1>3
    DEF Next, Loop, Idle, ReceiveMessage, WaitForMessage, ResumeWithMessage, LeaveLoop,
        RefuseCommand, Refuse, HandToThings, StartHandlers, Undeliverable, JoinOneThing,
        ExitSuccessfully, RelayQueues, RelayHandled, RelayDeclared, ClientHandled,
        ClientQueues, SetUpNext, botVars, vars

\* Where the table can change at all.
LEMMA MappingsChange ==
    ASSUME [Next]_vars, mappings' # mappings
    PROVE  /\ Refusals = {} /\ RelayCommand /\ IsCommand
           /\ Head(cur.body.argv) = AddMap /\ Len(cur.body.argv) = 3
           /\ mappings' = mappings \cup {Tail(cur.body.argv)}
<1>1. HandToThings
    BY DEF Next, Loop, Idle, ReceiveMessage, WaitForMessage, ResumeWithMessage, LeaveLoop,
        RefuseCommand, Refuse, HandToThings, FinishMessage, Undeliverable, JoinOneThing,
        ExitSuccessfully, RelayQueues, RelayHandled, RelayDeclared, ClientHandled,
        ClientQueues, SetUpNext, botVars, vars
<1>2. RelayStarts /\ Refusals = {}
    BY <1>1 DEF HandToThings, StartHandlers
<1>3. RelayCommand /\ IsCommand
    BY <1>2 DEF RelayStarts, RelayIncoming
<1>4. /\ Head(cur.body.argv) = AddMap /\ Len(cur.body.argv) = 3
      /\ RelayAddMap(Tail(cur.body.argv))
    BY <1>3 DEF RelayCommand
<1>5. mappings' = mappings \cup {Tail(cur.body.argv)}
    BY <1>4 DEF RelayAddMap
<1> QED BY <1>2, <1>3, <1>4, <1>5

\* The table of mappings changes only by a pair an operator asked for, although
\* the relay itself checks no permission (handle_message and relay::handle).
THEOREM OperatorsOnly == Spec => OnlyOperatorsMap
<1>1. Init => LevelInv
    BY DEF Init, LevelInv
<1>2. Spec => []LevelInv
    BY <1>1, InvariantHolds, NextLevelInv, PTL DEF Spec
<1>3. ASSUME IInv, LevelInv, [Next]_vars
      PROVE  [mappings' # mappings =>
                /\ IsCommand /\ Head(cur.body.argv) = AddMap
                /\ LevelOf(cur.body.user) >= Op
                /\ mappings' = mappings \cup {Tail(cur.body.argv)}]_vars
    <2> SUFFICES ASSUME mappings' # mappings
                 PROVE  /\ IsCommand /\ Head(cur.body.argv) = AddMap
                        /\ LevelOf(cur.body.user) >= Op
                        /\ mappings' = mappings \cup {Tail(cur.body.argv)}
        OBVIOUS
    <2>1. /\ Refusals = {} /\ IsCommand /\ Head(cur.body.argv) = AddMap
          /\ mappings' = mappings \cup {Tail(cur.body.argv)}
        BY <1>3, MappingsChange
    <2>2. AddMap \in DOMAIN commands /\ ~(LevelOf(cur.body.user) < commands[AddMap])
        BY <2>1 DEF Refusals
    <2>3. LevelOf(cur.body.user) \in Int
        <3>1. cur.body \in Bodies /\ cur.body.kind = "command"
            BY <1>3, <2>1 DEF IInv, TypeOK, Message, MessagesOf, IsCommand
        <3>2. cur.body.user \in Users
            BY <3>1, CommandUser
        <3> QED BY <3>2, UserLevelAssumption DEF LevelOf
    <2> QED BY <1>3, <2>1, <2>2, <2>3 DEF LevelInv, Op
<1> QED BY InvariantHolds, <1>2, <1>3, PTL DEF Spec, OnlyOperatorsMap

-----------------------------------------------------------------------------
\* The serials of a sequence of messages follow the sequence.
LEMMA SerialsType ==
    ASSUME NEW s \in Seq(Message)
    PROVE  /\ Serials(s) \in Seq(Nat) /\ Len(Serials(s)) = Len(s)
           /\ \A i \in 1..Len(s) : Serials(s)[i] = s[i].serial
<1>1. ASSUME NEW i \in 1..Len(s) PROVE s[i].serial \in Nat
    <2>1. s[i] \in Message
        BY ElementOfSeq
    <2> QED BY <2>1 DEF Message, MessagesOf
<1>2. Len(s) \in Nat
    OBVIOUS
<1> QED BY <1>1, <1>2 DEF Serials

LEMMA SerialsAppend ==
    ASSUME NEW s \in Seq(Message), NEW m \in Message
    PROVE  Serials(Append(s, m)) = Append(Serials(s), m.serial)
<1> DEFINE t == Append(s, m)
           u == Serials(s)
           v == Serials(t)
           w == Append(u, m.serial)
<1>1. /\ t \in Seq(Message) /\ Len(t) = Len(s) + 1 /\ t[Len(s) + 1] = m
      /\ \A i \in 1..Len(s) : t[i] = s[i]
    BY AppendProperties
<1> HIDE DEF t
<1>2. /\ v \in Seq(Nat) /\ Len(v) = Len(t) /\ \A i \in 1..Len(t) : v[i] = t[i].serial
    BY <1>1, SerialsType
<1>3. /\ u \in Seq(Nat) /\ Len(u) = Len(s) /\ \A i \in 1..Len(s) : u[i] = s[i].serial
    BY SerialsType
<1>4. m.serial \in Nat /\ Len(s) \in Nat
    <2>1. m.serial \in Nat
        BY DEF Message, MessagesOf
    <2>2. Len(s) \in Nat
        OBVIOUS
    <2> QED BY <2>1, <2>2
<1> HIDE DEF u, v
<1>5. /\ w \in Seq(Nat) /\ Len(w) = Len(u) + 1 /\ w[Len(u) + 1] = m.serial
      /\ \A i \in 1..Len(u) : w[i] = u[i]
    BY <1>3, <1>4, AppendProperties
<1> HIDE DEF w
<1>6. ASSUME NEW i \in 1..Len(v) PROVE v[i] = w[i]
    <2>1. CASE i = Len(s) + 1
        BY <2>1, <1>1, <1>2, <1>3, <1>5
    <2>2. CASE i # Len(s) + 1
        <3>1. i \in 1..Len(s) /\ i \in 1..Len(t)
            BY <2>2, <1>1, <1>2, <1>4
        <3> QED BY <3>1, <1>1, <1>2, <1>3, <1>5
    <2> QED BY <2>1, <2>2
<1>7. v = w
    BY <1>1, <1>2, <1>3, <1>5, <1>6, SeqEqual
<1> QED BY <1>7 DEF t, u, v, w

LEMMA SerialsTail ==
    ASSUME NEW s \in Seq(Message), s # <<>>
    PROVE  /\ Serials(s) # <<>>
           /\ Head(Serials(s)) = Head(s).serial
           /\ Serials(Tail(s)) = Tail(Serials(s))
<1> DEFINE t == Tail(s)
           u == Serials(s)
           v == Serials(t)
           w == Tail(u)
<1>1. /\ t \in Seq(Message) /\ Len(t) = Len(s) - 1 /\ Len(s) \in Nat \ {0}
      /\ \A i \in 1..Len(t) : t[i] = s[i + 1]
    BY HeadTailProperties
<1> HIDE DEF t
<1>2. /\ v \in Seq(Nat) /\ Len(v) = Len(t) /\ \A i \in 1..Len(t) : v[i] = t[i].serial
    BY <1>1, SerialsType
<1>3. /\ u \in Seq(Nat) /\ Len(u) = Len(s) /\ \A i \in 1..Len(s) : u[i] = s[i].serial
    BY SerialsType
<1> HIDE DEF u, v
<1>4. u # <<>> /\ Head(u) = Head(s).serial
    <2>1. u # <<>> /\ 1 \in 1..Len(s)
        BY <1>1, <1>3
    <2>2. Head(u) = u[1] /\ Head(s) = s[1]
        BY <2>1, <1>3
    <2> QED BY <2>1, <2>2, <1>3
<1>5. w \in Seq(Nat) /\ Len(w) = Len(u) - 1 /\ \A i \in 1..Len(w) : w[i] = u[i + 1]
    BY <1>3, <1>4, HeadTailProperties
<1> HIDE DEF w
<1>6. ASSUME NEW i \in 1..Len(v) PROVE v[i] = w[i]
    <2>1. i \in 1..Len(t) /\ i \in 1..Len(w) /\ i + 1 \in 1..Len(s)
        BY <1>1, <1>2, <1>3, <1>5
    <2> QED BY <2>1, <1>1, <1>2, <1>3, <1>5
<1>7. v = w
    BY <1>1, <1>2, <1>3, <1>5, <1>6, SeqEqual
<1> QED BY <1>4, <1>7 DEF t, u, v, w

-----------------------------------------------------------------------------
\* The steps of the bot as steps of the abstract queue.  queue_message is Queue,
\* or Lose once the channel is closed ...
LEMMA QueueIsQueue ==
    ASSUME IInv, NEW m \in Message, NEW c \in Coroutines, QueueMessage(m, c), cur' = cur
    PROVE  [Bus!Next]_(Bus!vars)
<1> DEFINE n == [m EXCEPT !.serial = serial]
<1>1. n \in Message /\ n.serial = serial /\ serial' = serial + 1 /\ chan' = Send(chan, n, c)
    BY DEF QueueMessage, IInv, TypeOK, Message, MessagesOf
<1> HIDE DEF n
<1>2. chan \in Channel(Message, Coroutines) /\ Sound(chan)
    BY DEF IInv, TypeOK, LoopInv
<1>3. chan'.open = chan.open
    BY <1>1, <1>2, SendEffects
<1>4. CASE chan.open
    <2>1. Pending(chan') = Append(Pending(chan), n)
        BY <1>1, <1>2, <1>4, SendAppends
    <2>2. Pending(chan) \in Seq(Message)
        BY <1>2, PendingParts
    <2>3. PendingSerials' = Append(PendingSerials, serial)
        BY <2>1, <2>2, <1>1, SerialsAppend DEF PendingSerials
    <2>4. Bus!Queue
        BY <1>1, <1>3, <1>4, <2>3 DEF Bus!Queue
    <2> QED BY <2>4 DEF Bus!Next
<1>5. CASE ~chan.open
    <2>1. chan' = chan
        BY <1>1, <1>2, <1>5, SendAppends
    <2>2. Bus!Lose
        BY <1>1, <1>5, <2>1 DEF Bus!Lose, PendingSerials
    <2> QED BY <2>2 DEF Bus!Next
<1> QED BY <1>4, <1>5

\* The loop gets the oldest of the messages accepted, and nothing else changes.
LEMMA ReceiveTakes ==
    ASSUME IInv, ReceiveMessage \/ ResumeWithMessage
    PROVE  /\ Pending(chan) \in Seq(Message) /\ Pending(chan) # <<>>
           /\ cur' = Head(Pending(chan))
           /\ Pending(chan') = Tail(Pending(chan))
           /\ chan'.open = chan.open /\ serial' = serial
<1>1. chan \in Channel(Message, Coroutines) /\ Sound(chan)
    BY DEF IInv, TypeOK, LoopInv
<1>2. /\ Pending(chan) # <<>> /\ cur' = Head(Pending(chan))
      /\ Pending(chan') = Tail(Pending(chan))
      /\ chan'.open = chan.open /\ serial' = serial
    <2>1. CASE ReceiveMessage
        <3>1. chan.buffer # <<>> /\ chan.handed = <<>> /\ chan' = Receive(chan)
              /\ cur' = Head(chan.buffer) /\ serial' = serial
            BY <2>1 DEF ReceiveMessage, IInv, LoopInv
        <3>2. chan'.open = chan.open
            BY <1>1, <3>1 DEF Receive, Channel
        <3> QED BY <1>1, <3>1, <3>2, ReceiveTakesHead
    <2>2. CASE ResumeWithMessage
        <3>1. chan.handed # <<>> /\ chan' = Resume(chan)
              /\ cur' = Head(chan.handed) /\ serial' = serial
            BY <2>2 DEF ResumeWithMessage
        <3>2. chan'.open = chan.open
            BY <1>1, <3>1 DEF Resume, Channel
        <3>3. Len(chan.handed) = 1
            <4>1. chan.handed \in Seq(Message)
                BY <1>1, Fields
            <4>2. Len(chan.handed) \in Nat /\ Len(chan.handed) # 0
                BY <3>1, <4>1, EmptySeq
            <4>3. Len(chan.handed) <= 1
                BY DEF IInv, LoopInv
            <4> DEFINE n == Len(chan.handed)
            <4>4. n \in Nat /\ n # 0 /\ n <= 1
                BY <4>2, <4>3
            <4> HIDE DEF n
            <4>5. n = 1
                BY <4>4
            <4> QED BY <4>5 DEF n
        <3> QED BY <1>1, <3>1, <3>2, <3>3, ResumeTakesHead
    <2> QED BY <2>1, <2>2
<1>3. Pending(chan) \in Seq(Message)
    BY <1>1, PendingParts
<1> QED BY <1>2, <1>3

\* ... and receiving a message is Take.
LEMMA ReceiveIsTake ==
    ASSUME IInv, ReceiveMessage \/ ResumeWithMessage
    PROVE  Bus!Take
<1>1. /\ Pending(chan) \in Seq(Message) /\ Pending(chan) # <<>>
      /\ cur' = Head(Pending(chan)) /\ Pending(chan') = Tail(Pending(chan))
      /\ chan'.open = chan.open /\ serial' = serial
    BY ReceiveTakes
<1>2. /\ PendingSerials # <<>> /\ cur'.serial = Head(PendingSerials)
      /\ PendingSerials' = Tail(PendingSerials)
    BY <1>1, SerialsTail DEF PendingSerials
<1> QED BY <1>1, <1>2 DEF Bus!Take

\* A step that changes neither the pending messages nor the serials is none of
\* the queue's.
LEMMA QuietIsStutter ==
    ASSUME Pending(chan') = Pending(chan), chan'.open = chan.open,
           serial' = serial, cur' = cur
    PROVE  UNCHANGED Bus!vars
BY DEF Bus!vars, PendingSerials

LEMMA FinishIsClose ==
    ASSUME IInv, FinishMessage
    PROVE  [Bus!Next]_(Bus!vars)
<1>1. cur' = cur
    BY DEF FinishMessage
<1>2. CASE UNCHANGED <<chan, serial>>
    BY <1>1, <1>2, QuietIsStutter
<1>3. CASE CloseChannel
    <2>1. chan' = [chan EXCEPT !.open = FALSE] /\ serial' = serial
        BY <1>3 DEF CloseChannel, Close
    <2>2. /\ chan'.handed = chan.handed /\ chan'.buffer = chan.buffer
          /\ chan'.senders = chan.senders /\ chan'.open = FALSE /\ chan.open \in BOOLEAN
        BY <2>1 DEF IInv, TypeOK, Channel
    <2>3. Pending(chan') = Pending(chan)
        BY <2>2 DEF Pending
    <2>4. CASE chan.open
        BY <1>1, <2>1, <2>2, <2>3, <2>4 DEF Bus!Next, Bus!Close, PendingSerials
    <2>5. CASE ~chan.open
        BY <1>1, <2>1, <2>2, <2>3, <2>5, QuietIsStutter
    <2> QED BY <2>4, <2>5
<1>4. CASE QueueMessage(NewMessage(Relay, Bot, NoReply, CommandDecl(AddMap, Op)), Relay)
    <2>1. Relay \in Coroutines
        BY DEF Coroutines, Things, Local
    <2> QED BY <1>1, <1>4, <2>1, RelayDeclType, QueueIsQueue
<1> QED BY <1>2, <1>3, <1>4
    DEF FinishMessage, HandleInternally, Declare, Register, StartWorker

LEMMA NextIsBusNext ==
    ASSUME IInv, [Next]_vars
    PROVE  [Bus!Next]_(Bus!vars)
<1>1. CASE ReceiveMessage \/ ResumeWithMessage
    BY <1>1, ReceiveIsTake DEF Bus!Next
<1>2. CASE WaitForMessage
    <2>1. chan' = [chan EXCEPT !.waiting = TRUE] /\ serial' = serial /\ cur' = cur
        BY <1>2 DEF WaitForMessage, AwaitMessage
    <2>2. /\ chan'.handed = chan.handed /\ chan'.buffer = chan.buffer
          /\ chan'.senders = chan.senders /\ chan'.open = chan.open
        BY <2>1 DEF IInv, TypeOK, Channel
    <2>3. Pending(chan') = Pending(chan)
        BY <2>2 DEF Pending
    <2> QED BY <2>1, <2>2, <2>3, QuietIsStutter
<1>3. CASE RefuseCommand
    <2>1. PICK content \in Contents : Refuse(content) /\ IsCommand
        BY <1>3 DEF RefuseCommand, Refusals, Contents
    <2>2. Reply(Bot, content) \in Message /\ RunLoop \in Coroutines
        BY <2>1, ReplyType DEF IInv, IsCommand, Coroutines
    <2> QED BY <2>1, <2>2, QueueIsQueue DEF Refuse
<1>4. CASE FinishMessage
    BY <1>4, FinishIsClose
<1>5. CASE RelayQueues
    <2>1. PICK m \in outbox : QueueMessage(m, RelayHandler) /\ cur' = cur
        BY <1>5 DEF RelayQueues
    <2>2. m \in Message /\ RelayHandler \in Coroutines
        BY DEF IInv, TypeOK, Coroutines
    <2> QED BY <2>1, <2>2, QueueIsQueue
<1>6. ASSUME NEW c \in Clients, ClientQueues(c) PROVE [Bus!Next]_(Bus!vars)
    <2>1. PICK body \in Traffic, to \in Addressees :
            QueueMessage(NewMessage(c, to, NoReply, body), c) /\ cur' = cur
        BY <1>6 DEF ClientQueues, loopVars
    <2>2. NewMessage(c, to, NoReply, body) \in Message /\ c \in Coroutines
        BY ClientMessageType
    <2> QED BY <2>1, <2>2, QueueIsQueue
<1>7. CASE SetUpNext
    <2>1. /\ QueueMessage(NewMessage("", Bot, NoReply, AddThing(SetupOrder[setup + 1])), Setup)
          /\ cur' = cur
        BY <1>7 DEF SetUpNext, loopVars
    <2>2. NewMessage("", Bot, NoReply, AddThing(SetupOrder[setup + 1])) \in Message
          /\ Setup \in Coroutines
        BY <1>7, SetupMessageType DEF SetUpNext, IInv
    <2> QED BY <2>1, <2>2, QueueIsQueue
<1>8. CASE UNCHANGED <<chan, serial, cur>>
    BY <1>8, QuietIsStutter
<1> QED BY <1>1, <1>2, <1>3, <1>4, <1>5, <1>6, <1>7, <1>8
    DEF Next, Loop, Idle, LeaveLoop, HandToThings, StartHandlers, Undeliverable,
        JoinOneThing, ExitSuccessfully, RelayHandled, RelayDeclared, ClientHandled,
        loopVars, vars

\* The bot implements the abstract queue, whatever the capacity of the channel,
\* the number of senders and the way they are blocked: messages are received in
\* the order of their serials, each once, and lost only after an exit.
THEOREM ImplementsBus == Spec => BusSpec
<1>1. Init => Bus!Init
    <2> SUFFICES ASSUME Init PROVE Bus!Init
        OBVIOUS
    <2>1. chan \in Channel(Message, Coroutines)
        BY InitIInv DEF IInv, TypeOK
    <2>2. Pending(chan) = <<>>
        BY <2>1, PendingEmpty DEF Init, NewChannel
    <2>3. Len(Pending(chan)) = 0
        BY <2>2
    <2>4. PendingSerials = <<>>
        BY <2>2, <2>3, SerialsType, EmptySeq DEF PendingSerials
    <2> QED BY <2>4 DEF Init, Bus!Init, NewChannel, NoMessage, NewMessage
<1> QED BY <1>1, InvariantHolds, NextIsBusNext, PTL DEF Spec, BusSpec, Bus!Spec

-----------------------------------------------------------------------------
\* A thing whose worker was started is registered, and the things are finitely
\* many: so the count of the joined workers tells when none is left.
WorkersInv ==
    /\ IsFiniteSet(things)
    /\ \A t \in Things : worker[t] # "absent" => t \in things
    /\ NoWorkerOutlivesBot

\* As many joined as registered: then every registered one is joined.
LEMMA AllJoined ==
    ASSUME TypeOK, WorkersInv, Cardinality(Joined) >= Cardinality(things)
    PROVE  \A t \in Things : worker[t] \in {"absent", "joined"}
<1>1. Joined \subseteq things /\ IsFiniteSet(things)
    BY DEF Joined, WorkersInv
<1>2. /\ IsFiniteSet(Joined) /\ Cardinality(Joined) <= Cardinality(things)
      /\ Cardinality(things) = Cardinality(Joined) => things = Joined
    BY <1>1, FS_Subset
<1>3. Cardinality(Joined) \in Nat /\ Cardinality(things) \in Nat
    BY <1>1, <1>2, FS_CardinalityType
<1>4. things = Joined
    BY <1>2, <1>3
<1> QED BY <1>4 DEF Joined, WorkersInv

LEMMA NextWorkersInv == IInv /\ WorkersInv /\ [Next]_vars => WorkersInv'
<1> SUFFICES ASSUME IInv, WorkersInv, [Next]_vars PROVE WorkersInv'
    OBVIOUS
<1>0. worker \in [Things -> {"absent", "declaring", "running", "returned", "joined"}]
    BY DEF IInv, TypeOK
<1> USE DEF WorkersInv, NoWorkerOutlivesBot
<1>1. CASE UNCHANGED <<things, worker>> /\ run' # "done"
    BY <1>1
<1>2. CASE UNCHANGED <<things, worker, run>>
    BY <1>2
<1>3. CASE ExitSuccessfully
    <2>1. UNCHANGED <<things, worker>> /\ Cardinality(Joined) >= Cardinality(things)
        BY <1>3 DEF ExitSuccessfully, botVars
    <2>2. \A t \in Things : worker[t] \in {"absent", "joined"}
        BY <2>1, AllJoined DEF IInv
    <2> QED BY <2>1, <2>2
<1>4. CASE JoinOneThing
    BY <1>0, <1>4 DEF JoinOneThing, loopVars
<1>5. CASE RelayDeclared
    BY <1>0, <1>5 DEF RelayDeclared, loopVars
<1>6. ASSUME NEW c \in Clients, ClientHandled(c) PROVE WorkersInv'
    <2>1. run # "done" /\ run' = run /\ things' = things
        BY <1>6 DEF ClientHandled, IInv, LoopInv
    <2> QED BY <1>0, <1>6, <2>1 DEF ClientHandled
<1>7. CASE FinishMessage
    <2>1. run' = "receive"
        BY <1>7 DEF FinishMessage
    <2>2. CASE UNCHANGED <<things, worker>>
        BY <2>1, <2>2
    <2>3. ASSUME NEW t, things' = things \cup {t}, StartWorker(t) PROVE WorkersInv'
        <3>1. IsFiniteSet(things')
            BY <2>3, FS_AddElement
        <3>2. \A u \in Things : worker'[u] # "absent" => u \in things'
            BY <1>0, <2>3 DEF StartWorker
        <3> QED BY <2>1, <3>1, <3>2
    <2> QED BY <1>7, <2>2, <2>3
        DEF FinishMessage, HandleInternally, Declare, CloseChannel, Register
<1> QED BY <1>1, <1>2, <1>3, <1>4, <1>5, <1>6, <1>7
    DEF Next, Loop, Idle, ReceiveMessage, WaitForMessage, ResumeWithMessage, LeaveLoop,
        RefuseCommand, Refuse, HandToThings, StartHandlers, Undeliverable, RelayQueues,
        RelayHandled, ClientQueues, SetUpNext, botVars, loopVars, vars

\* bot::run returns only when every worker that was started has returned, however
\* many things register and in whatever order their workers end: things can be
\* registered only by the loop, which has ended when the count is taken.
THEOREM WorkersJoined == Spec => []NoWorkerOutlivesBot
<1>1. Init => WorkersInv
    BY FS_EmptySet DEF Init, WorkersInv, NoWorkerOutlivesBot
<1>2. Spec => []WorkersInv
    BY <1>1, InvariantHolds, NextWorkersInv, PTL DEF Spec
<1>3. WorkersInv => NoWorkerOutlivesBot
    BY DEF WorkersInv
<1> QED BY <1>2, <1>3, PTL

-----------------------------------------------------------------------------
\* The messages of the bus are ordered: MessageBus proves it of its own steps,
\* and the steps of the bot are such steps.
BusProofs == INSTANCE MessageBus_proofs
             WITH queue <- PendingSerials, next <- serial, last <- cur.serial,
                  open <- chan.open

LEMMA SerialsOrdered == Spec => []BusProofs!Ordered
<1>1. BusSpec => BusProofs!Spec
    BY DEF BusSpec, Bus!Spec, Bus!Init, Bus!Next, Bus!Queue, Bus!Lose, Bus!Take, Bus!Close,
           Bus!vars, BusProofs!Spec, BusProofs!Init, BusProofs!Next, BusProofs!Queue,
           BusProofs!Lose, BusProofs!Take, BusProofs!Close, BusProofs!vars
<1> QED BY <1>1, ImplementsBus, BusProofs!BusOrder, PTL

-----------------------------------------------------------------------------
\* The messages accepted and not yet received.
InQueue == {Pending(chan)[i] : i \in 1..Len(Pending(chan))}

\* A reply answers a message received before the one it is itself; the message in
\* hand is answered by nobody yet while the loop decides about it, and by one
\* reply at most while the relay still has to queue its own.
ReplyInv ==
    /\ cur.re # NoReply => cur.re < cur.serial
    /\ \A m \in InQueue : m.re # NoReply => m.re <= cur.serial
    /\ \A m, n \in InQueue \cup {cur} : m # n /\ m.re # NoReply => m.re # n.re
    /\ run = "handle" => \A m \in InQueue : m.re # NoReply => m.re # cur.serial
    /\ \A m \in outbox : m.re # NoReply =>
            m.re = cur.serial /\ outbox = {m} /\ \A n \in InQueue : n.re # m.re

\* What queue_message adds to the messages in flight.
LEMMA QueueAdds ==
    ASSUME IInv, NEW m \in Message, NEW c \in Coroutines, QueueMessage(m, c)
    PROVE  \E n \in Message : n.re = m.re /\ InQueue' \subseteq InQueue \cup {n}
<1> DEFINE n == [m EXCEPT !.serial = serial]
<1>1. n \in Message /\ n.re = m.re /\ chan' = Send(chan, n, c)
    BY DEF QueueMessage, IInv, TypeOK, Message, MessagesOf
<1> HIDE DEF n
<1>2. chan \in Channel(Message, Coroutines) /\ Sound(chan)
    BY DEF IInv, TypeOK, LoopInv
<1>3. CASE ~chan.open
    BY <1>1, <1>2, <1>3, SendAppends DEF InQueue
<1>4. CASE chan.open
    <2> DEFINE p == Pending(chan)
               q == Append(p, n)
    <2>1. p \in Seq(Message) /\ Pending(chan') = q
        BY <1>1, <1>2, <1>4, SendAppends, PendingParts
    <2>2. InQueue' = {q[i] : i \in 1..Len(q)} /\ InQueue = {p[i] : i \in 1..Len(p)}
        BY <2>1 DEF InQueue
    <2> HIDE DEF p
    <2>3. /\ Len(q) = Len(p) + 1 /\ q[Len(p) + 1] = n /\ Len(p) \in Nat
          /\ \A i \in 1..Len(p) : q[i] = p[i]
        BY <1>1, <2>1, AppendProperties
    <2> HIDE DEF q
    <2>4. ASSUME NEW i \in 1..Len(q) PROVE q[i] \in InQueue \cup {n}
        BY <2>2, <2>3
    <2> QED BY <1>1, <2>2, <2>4
<1> QED BY <1>3, <1>4

\* A message that answers nothing disturbs nothing.
LEMMA QueueNoReply ==
    ASSUME IInv, ReplyInv, NEW m \in Message, NEW c \in Coroutines, QueueMessage(m, c),
           m.re = NoReply, run' = run \/ run' = "receive", cur' = cur, outbox' = outbox
    PROVE  ReplyInv'
<1>1. PICK n \in Message : n.re = NoReply /\ InQueue' \subseteq InQueue \cup {n}
    BY QueueAdds
<1>2. \A k \in InQueue' : k \in InQueue \/ k.re = NoReply
    BY <1>1
<1> QED BY <1>2 DEF ReplyInv

\* The one reply to the message in hand.
LEMMA QueueTheReply ==
    ASSUME IInv, ReplyInv, NEW m \in Message, NEW c \in Coroutines, QueueMessage(m, c),
           m.re = cur.serial, \A k \in InQueue : k.re # NoReply => k.re # cur.serial,
           run' # "handle", cur' = cur, outbox' = {}
    PROVE  ReplyInv'
<1>1. PICK n \in Message : n.re = cur.serial /\ InQueue' \subseteq InQueue \cup {n}
    BY QueueAdds
<1>2. cur.serial \in Nat /\ cur.re \in Nat
    BY DEF IInv, TypeOK, Message, MessagesOf
<1>3. \A k \in InQueue' : k.re # NoReply => k.re <= cur.serial
    BY <1>1, <1>2 DEF ReplyInv
<1>4. cur.re # NoReply => cur.re # cur.serial
    BY <1>2 DEF ReplyInv
<1>5. ASSUME NEW k \in InQueue' \cup {cur}, NEW l \in InQueue' \cup {cur}, k # l,
             k.re # NoReply
      PROVE  k.re # l.re
    <2>1. CASE k \in InQueue \cup {cur} /\ l \in InQueue \cup {cur}
        BY <1>5, <2>1 DEF ReplyInv
    <2>2. CASE k = n /\ l \in InQueue \cup {cur}
        BY <1>1, <1>4, <1>5, <2>2
    <2>3. CASE l = n /\ k \in InQueue \cup {cur}
        BY <1>1, <1>4, <1>5, <2>3
    <2> QED BY <1>1, <1>5, <2>1, <2>2, <2>3
<1>6. cur.re # NoReply => cur.re < cur.serial
    BY DEF ReplyInv
<1> QED BY <1>3, <1>5, <1>6 DEF ReplyInv

\* Receiving: the new message in hand is newer than everything answered so far.
LEMMA TakeReplyInv ==
    ASSUME IInv, BusProofs!Ordered, ReplyInv, ReceiveMessage \/ ResumeWithMessage
    PROVE  ReplyInv'
<1> DEFINE p == Pending(chan)
           q == Tail(p)
<1>1. p \in Seq(Message) /\ p # <<>> /\ cur' = Head(p) /\ Pending(chan') = q
    BY ReceiveTakes
<1>2. InQueue' = {q[i] : i \in 1..Len(q)} /\ InQueue = {p[i] : i \in 1..Len(p)}
    BY <1>1 DEF InQueue
<1>3. cur.serial < p[1].serial
    <2>1. p \in Seq(Message) /\ PendingSerials = Serials(p)
        BY <1>1 DEF PendingSerials
    <2> HIDE DEF p
    <2>2. 1 \in 1..Len(p)
        BY <1>1
    <2>3. Len(PendingSerials) = Len(p) /\ PendingSerials[1] = p[1].serial
        BY <2>1, <2>2, SerialsType
    <2> QED BY <2>2, <2>3 DEF BusProofs!Ordered
<1> HIDE DEF p
<1>4. /\ Len(q) = Len(p) - 1 /\ Len(p) \in Nat \ {0} /\ cur' = p[1]
      /\ \A i \in 1..Len(q) : q[i] = p[i + 1]
    BY <1>1, HeadTailProperties
<1> HIDE DEF q
<1>5. InQueue' \cup {cur'} \subseteq InQueue
    <2>1. ASSUME NEW i \in 1..Len(q) PROVE q[i] \in InQueue
        BY <1>2, <1>4
    <2>2. p[1] \in InQueue
        BY <1>2, <1>4
    <2> QED BY <1>2, <1>4, <2>1, <2>2
<1>6. InQueue \subseteq Message
    <2>1. ASSUME NEW i \in 1..Len(p) PROVE p[i] \in Message
        BY <1>1, ElementOfSeq
    <2> QED BY <1>2, <2>1
<1>7. \A m \in Message : m.re \in Nat /\ m.serial \in Nat
    BY DEF Message, MessagesOf
<1>8. cur.serial < cur'.serial /\ cur.serial \in Nat /\ cur'.serial \in Nat
    BY <1>3, <1>4, <1>5, <1>6, <1>7 DEF IInv, TypeOK
<1>9. \A m \in InQueue' \cup {cur'} : m.re # NoReply => m.re < cur'.serial
    BY <1>5, <1>6, <1>7, <1>8 DEF ReplyInv
<1>10. outbox' = {}
    BY DEF IInv, LoopInv, ReceiveMessage, ResumeWithMessage
<1>11. \A m \in InQueue' : m.re # NoReply => m.re <= cur'.serial /\ m.re # cur'.serial
    BY <1>5, <1>6, <1>7, <1>8, <1>9
<1>12. \A m, n \in InQueue' \cup {cur'} : m # n /\ m.re # NoReply => m.re # n.re
    BY <1>5 DEF ReplyInv
<1> QED BY <1>9, <1>10, <1>11, <1>12 DEF ReplyInv

\* The relay is left with what it has to queue: either messages that answer
\* nothing or the reply to the command in hand.
LEMMA StartedOutbox ==
    ASSUME RelayStarts
    PROVE  \A m \in outbox' : m.re # NoReply => m.re = cur.serial /\ outbox' = {m}
<1>0. /\ \A from, to, re, body : NewMessage(from, to, re, body).re = re
      /\ \A from, content : Reply(from, content).re = cur.serial
    BY DEF NewMessage, Reply
<1>1. CASE RelayIncoming
    <2>1. PICK chats : outbox' \subseteq Relayed(chats)
        BY <1>1 DEF RelayIncoming
    <2>2. \A m \in Relayed(chats) : m.re = NoReply
        BY <1>0 DEF Relayed
    <2> QED BY <2>1, <2>2
<1>2. CASE RelayCommand
    <2>1. outbox' = {} \/ \E content : outbox' = {Reply(Relay, content)}
        BY <1>2, Zenon DEF RelayCommand, RelayAddMap
    <2> QED BY <1>0, <2>1
<1>3. CASE outbox' = {}
    BY <1>3
<1> QED BY <1>1, <1>2, <1>3 DEF RelayStarts

LEMMA HandToThingsReplyInv ==
    ASSUME IInv, ReplyInv, HandToThings
    PROVE  ReplyInv'
<1>1. PICK targets \in SUBSET things : StartHandlers(targets)
    BY DEF HandToThings
<1>2. InQueue' = InQueue /\ cur' = cur /\ run = "handle" /\ run' = "gather"
    BY <1>1 DEF StartHandlers, InQueue, HandToThings
<1>3. \A m \in outbox' : m.re # NoReply => m.re = cur.serial /\ outbox' = {m}
    BY <1>1, StartedOutbox DEF StartHandlers
<1>4. \A n \in InQueue : n.re # NoReply => n.re # cur.serial
    BY <1>2 DEF ReplyInv
<1>5. \A m \in outbox' : m.re # NoReply =>
            m.re = cur.serial /\ outbox' = {m} /\ \A n \in InQueue : n.re # m.re
    BY <1>3, <1>4
<1> QED BY <1>2, <1>5 DEF ReplyInv

LEMMA NextReplyInv ==
    ASSUME IInv, BusProofs!Ordered, ReplyInv, [Next]_vars
    PROVE  ReplyInv'
<1>1. CASE ReceiveMessage \/ ResumeWithMessage
    BY <1>1, TakeReplyInv
<1>2. CASE HandToThings
    BY <1>2, HandToThingsReplyInv
<1>3. CASE RefuseCommand
    <2>1. PICK content \in Contents : Refuse(content) /\ IsCommand
        BY <1>3 DEF RefuseCommand, Refusals, Contents
    <2>2. Reply(Bot, content) \in Message /\ RunLoop \in Coroutines
        BY <2>1, ReplyType DEF IInv, IsCommand, Coroutines
    <2>3. Reply(Bot, content).re = cur.serial
        BY DEF Reply, NewMessage
    <2>4. run = "handle" /\ outbox = {} /\ outbox' = outbox /\ cur' = cur /\ run' = "receive"
        BY <1>3, <2>1 DEF RefuseCommand, Refuse, IInv, LoopInv
    <2>5. \A k \in InQueue : k.re # NoReply => k.re # cur.serial
        BY <2>4 DEF ReplyInv
    <2>6. QueueMessage(Reply(Bot, content), RunLoop)
        BY <2>1 DEF Refuse
    <2> QED BY <2>2, <2>3, <2>4, <2>5, <2>6, QueueTheReply
<1>4. CASE RelayQueues
    <2>1. PICK m \in outbox : QueueMessage(m, RelayHandler) /\ outbox' = outbox \ {m}
        BY <1>4 DEF RelayQueues
    <2>2. m \in Message /\ RelayHandler \in Coroutines /\ cur' = cur /\ run' = run
          /\ run = "gather"
        BY <1>4, <2>1 DEF RelayQueues, IInv, TypeOK, LoopInv, Coroutines
    <2>3. CASE m.re # NoReply
        <3>1. m.re = cur.serial /\ outbox' = {} /\ \A k \in InQueue : k.re # cur.serial
            BY <2>1, <2>3 DEF ReplyInv
        <3> QED BY <2>1, <2>2, <3>1, QueueTheReply
    <2>4. CASE m.re = NoReply
        <3>1. PICK n \in Message : n.re = NoReply /\ InQueue' \subseteq InQueue \cup {n}
            BY <2>1, <2>2, <2>4, QueueAdds
        <3>2. \A k \in InQueue' : k \in InQueue \/ k.re = NoReply
            BY <3>1
        <3>3. \A k \in outbox' : k.re = NoReply
            BY <2>1, <2>4 DEF ReplyInv
        <3> QED BY <2>2, <3>2, <3>3 DEF ReplyInv
    <2> QED BY <2>3, <2>4
<1>5. ASSUME NEW c \in Clients, ClientQueues(c) PROVE ReplyInv'
    <2>1. PICK body \in Traffic, to \in Addressees :
            QueueMessage(NewMessage(c, to, NoReply, body), c)
        BY <1>5 DEF ClientQueues
    <2>2. NewMessage(c, to, NoReply, body) \in Message /\ c \in Coroutines
          /\ NewMessage(c, to, NoReply, body).re = NoReply
        BY ClientMessageType DEF NewMessage
    <2>3. run' = run /\ cur' = cur /\ outbox' = outbox
        BY <1>5 DEF ClientQueues, loopVars
    <2> QED BY <2>1, <2>2, <2>3, QueueNoReply
<1>6. CASE SetUpNext
    <2> DEFINE m == NewMessage("", Bot, NoReply, AddThing(SetupOrder[setup + 1]))
    <2>1. QueueMessage(m, Setup) /\ run' = run /\ cur' = cur /\ outbox' = outbox
        BY <1>6 DEF SetUpNext, loopVars
    <2>2. m \in Message /\ Setup \in Coroutines
        BY <1>6, SetupMessageType DEF IInv, SetUpNext
    <2>3. m.re = NoReply
        BY DEF NewMessage
    <2> HIDE DEF m
    <2> QED BY <2>1, <2>2, <2>3, QueueNoReply
<1>7. CASE FinishMessage
    <2>1. cur' = cur /\ run' = "receive" /\ outbox' = outbox
        BY <1>7 DEF FinishMessage
    <2>2. CASE chan' = chan
        BY <2>1, <2>2 DEF ReplyInv, InQueue
    <2>3. CASE CloseChannel
        <3>1. chan' = [chan EXCEPT !.open = FALSE] /\ chan \in Channel(Message, Coroutines)
            BY <2>3 DEF CloseChannel, Close, IInv, TypeOK
        <3>2. Pending(chan') = Pending(chan)
            BY <3>1 DEF Pending, Channel
        <3> QED BY <2>1, <3>2 DEF ReplyInv, InQueue
    <2>4. CASE QueueMessage(NewMessage(Relay, Bot, NoReply, CommandDecl(AddMap, Op)), Relay)
        <3>1. Relay \in Coroutines
            BY DEF Coroutines, Things, Local
        <3>2. NewMessage(Relay, Bot, NoReply, CommandDecl(AddMap, Op)).re = NoReply
            BY DEF NewMessage
        <3> QED BY <2>1, <2>4, <3>1, <3>2, RelayDeclType, QueueNoReply
    <2> QED BY <1>7, <2>2, <2>3, <2>4
        DEF FinishMessage, HandleInternally, Declare, Register, StartWorker
<1>8. CASE WaitForMessage
    <2>1. chan' = [chan EXCEPT !.waiting = TRUE] /\ chan \in Channel(Message, Coroutines)
          /\ cur' = cur /\ outbox' = outbox /\ run' = "waiting"
        BY <1>8 DEF WaitForMessage, AwaitMessage, IInv, TypeOK
    <2>2. Pending(chan') = Pending(chan)
        BY <2>1 DEF Pending, Channel
    <2>3. InQueue' = InQueue
        BY <2>2 DEF InQueue
    <2> QED BY <2>1, <2>3 DEF ReplyInv
<1>9. CASE UNCHANGED <<chan, cur, outbox>> /\ (run' = run \/ run' # "handle")
    <2>1. InQueue' = InQueue /\ cur' = cur /\ outbox' = outbox
        BY <1>9 DEF InQueue
    <2> QED BY <1>9, <2>1 DEF ReplyInv
<1> QED BY <1>1, <1>2, <1>3, <1>4, <1>5, <1>6, <1>7, <1>8, <1>9
    DEF Next, Loop, Idle, LeaveLoop, Undeliverable, JoinOneThing, ExitSuccessfully,
        RelayHandled, RelayDeclared, ClientHandled, botVars, loopVars, vars

\* No message is answered twice, and no answer comes before the message: of the
\* replies queued, in hand and still to be queued no two refer to the same one.
\* It rests on the order of the serials and on what the loop does in one go
\* (queue_a_reply, handle_message and relay::handle).
THEOREM OneReply == Spec => []OneReplyPerMessage
<1>1. Init => ReplyInv
    <2> SUFFICES ASSUME Init PROVE ReplyInv
        OBVIOUS
    <2>1. chan \in Channel(Message, Coroutines)
        BY InitIInv DEF IInv, TypeOK
    <2>2. Pending(chan) = <<>>
        BY <2>1, PendingEmpty DEF Init, NewChannel
    <2>3. InQueue = {}
        BY <2>2 DEF InQueue
    <2> QED BY <2>3 DEF Init, ReplyInv, NoMessage, NewMessage
<1>2. IInv /\ BusProofs!Ordered /\ ReplyInv /\ [Next]_vars => ReplyInv'
    BY NextReplyInv
<1>3. Spec => []ReplyInv
    BY <1>1, <1>2, InvariantHolds, SerialsOrdered, PTL DEF Spec
<1>4. ASSUME IInv, ReplyInv PROVE OneReplyPerMessage
    <2>1. RepliesInFlight = InQueue \cup {cur} \cup outbox
        BY DEF RepliesInFlight, InQueue
    <2>2. cur.re \in Nat /\ cur.serial \in Nat
        BY <1>4 DEF IInv, TypeOK, Message, MessagesOf
    <2>3. ASSUME NEW m \in RepliesInFlight, m.re # NoReply PROVE m.re <= cur.serial
        BY <1>4, <2>1, <2>2, <2>3 DEF ReplyInv
    <2>4. ASSUME NEW m \in outbox, NEW n \in RepliesInFlight, m # n, m.re # NoReply
          PROVE  m.re # n.re
        <3>1. m.re = cur.serial /\ outbox = {m} /\ \A k \in InQueue : k.re # m.re
            BY <1>4, <2>4 DEF ReplyInv
        <3>2. cur.re # cur.serial
            BY <1>4, <2>2, <2>4, <3>1 DEF ReplyInv
        <3> QED BY <2>1, <2>4, <3>1, <3>2
    <2>5. ASSUME NEW m \in InQueue \cup {cur}, NEW n \in InQueue \cup {cur}, m # n,
                 m.re # NoReply
          PROVE  m.re # n.re
        BY <1>4, <2>5 DEF ReplyInv
    <2> QED BY <2>1, <2>3, <2>4, <2>5 DEF OneReplyPerMessage
<1> QED BY <1>3, <1>4, InvariantHolds, PTL

=============================================================================
