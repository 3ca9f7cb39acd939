------------------------- MODULE SequenceFacts_proofs -------------------------
(***************************************************************************)
(* What the proofs about strings need and the library does not state:      *)
(* induction over a set of numbers, smallest elements, parts of sequences, *)
(* and FlattenSeq.  An induction rule with a predicate as a parameter      *)
(* cannot be used by the provers; a set of numbers can be.                 *)
(***************************************************************************)
EXTENDS Integers, Sequences, SequencesExt, SequenceTheorems, WellFoundedInduction, TLAPS

-----------------------------------------------------------------------------
\* Induction, and smallest elements.

LEMMA HasSmallest ==
    ASSUME NEW T, T \subseteq Nat, T # {}
    PROVE  \E x \in T : \A y \in T : x <= y
<1> DEFINE R == OpToRel(<, Nat)
<1>1. IsWellFoundedOn(R, Nat)
    BY NatLessThanWellFounded
<1>2. \A x, y \in Nat : y < x => <<y, x>> \in R
    BY DEF OpToRel
<1> HIDE DEF R
<1>3. PICK x \in T : \A y \in T : ~ (<<y, x>> \in R)
    BY <1>1, WFMin
<1>4. ASSUME NEW y \in T PROVE x <= y
    <2>1. x \in Nat /\ y \in Nat /\ ~(y < x)
        BY <1>2, <1>3
    <2> QED BY <2>1
<1> QED BY <1>4

LEMMA SetInduction ==
    ASSUME NEW S, 0 \in S, \A n \in Nat : n \in S => n + 1 \in S
    PROVE  \A n \in Nat : n \in S
<1> DEFINE T == {n \in Nat : n \notin S}
<1>1. SUFFICES ASSUME T # {} PROVE FALSE
    OBVIOUS
<1>2. PICK x \in T : \A y \in T : x <= y
    <2>1. T \subseteq Nat
        OBVIOUS
    <2> HIDE DEF T
    <2> QED BY <1>1, <2>1, HasSmallest
<1>3. x # 0 /\ x \in Nat /\ x \notin S
    OBVIOUS
<1>4. x - 1 \in Nat /\ ~(x <= x - 1) /\ (x - 1) + 1 = x
    BY <1>3
<1>5. x - 1 \in T
    BY <1>3, <1>4
<1> QED BY <1>2, <1>4, <1>5

LEMMA MinFacts ==
    ASSUME NEW T, T \subseteq Nat, T # {}
    PROVE  Min(T) \in T /\ \A y \in T : Min(T) <= y
BY HasSmallest DEF Min

-----------------------------------------------------------------------------
\* Parts of sequences.

LEMMA OneMorePart ==
    ASSUME NEW S, NEW x \in Seq(S), NEW y \in Seq(S), NEW z \in Seq(S), NEW front, NEW whole,
           front = x \o y, whole = front \o z
    PROVE  whole = x \o (y \o z)
BY ConcatAssociative

LEMMA PairType ==
    ASSUME NEW S, NEW x \in S, NEW y \in S
    PROVE  /\ <<x, y>> \in Seq(S) /\ Len(<<x, y>>) = 2
           /\ <<x, y>>[1] = x /\ <<x, y>>[2] = y
OBVIOUS

LEMMA OneType ==
    ASSUME NEW S, NEW x \in S
    PROVE  <<x>> \in Seq(S) /\ Len(<<x>>) = 1 /\ <<x>>[1] = x
OBVIOUS

LEMMA PartFacts ==
    ASSUME NEW S, NEW s \in Seq(S), NEW a \in Nat, a >= 1, NEW b \in Nat,
           a <= b + 1, b <= Len(s)
    PROVE  /\ SubSeq(s, a, b) \in Seq(S) /\ Len(SubSeq(s, a, b)) = b + 1 - a
           /\ \A k \in 1..b + 1 - a : SubSeq(s, a, b)[k] = s[a + k - 1]
<1>1. Len(s) \in Nat
    BY LenProperties
<1>2. a \in 1..Len(s) + 1 /\ b \in a - 1..Len(s)
    BY <1>1
<1> QED BY <1>2, SubSeqProperties

LEMMA FrontFacts ==
    ASSUME NEW S, NEW t \in Seq(S), NEW n \in 0..Len(t)
    PROVE  /\ SubSeq(t, 1, n) \in Seq(S) /\ Len(SubSeq(t, 1, n)) = n
           /\ DOMAIN SubSeq(t, 1, n) = 1..n
           /\ \A k \in 1..n : SubSeq(t, 1, n)[k] = t[k] /\ t[k] \in S
<1>1. /\ Len(t) \in Nat /\ n \in Nat /\ n <= Len(t) /\ 1 <= n + 1 /\ n + 1 - 1 = n
      /\ \A k \in 1..n : 1 + k - 1 = k /\ k \in 1..Len(t)
    BY LenProperties
<1>2. /\ SubSeq(t, 1, n) \in Seq(S) /\ Len(SubSeq(t, 1, n)) = n
      /\ \A k \in 1..n : SubSeq(t, 1, n)[k] = t[k]
    BY <1>1, PartFacts
<1>3. DOMAIN SubSeq(t, 1, n) = 1..n
    BY <1>2, LenProperties
<1>4. \A k \in 1..n : t[k] \in S
    BY <1>1, ElementOfSeq
<1> QED BY <1>2, <1>3, <1>4

LEMMA ConcatType ==
    ASSUME NEW S, NEW s \in Seq(S), NEW t \in Seq(S)
    PROVE  s \o t \in Seq(S) /\ Len(s \o t) = Len(s) + Len(t)
BY ConcatProperties

\* The elements of s \o t, for s of length a and t of length b.
LEMMA ConcatElements ==
    ASSUME NEW S, NEW s \in Seq(S), NEW t \in Seq(S),
           NEW a, a = Len(s), NEW b, b = Len(t)
    PROVE  /\ s \o t \in Seq(S) /\ Len(s \o t) = a + b
           /\ \A k \in 1..a + b : (s \o t)[k] = IF k <= a THEN s[k] ELSE t[k - a]
BY ConcatProperties

LEMMA FunctionIsSequence ==
    ASSUME NEW S, NEW n \in Nat, NEW f \in [1..n -> S]
    PROVE  f \in Seq(S) /\ Len(f) = n
BY SeqDef

LEMMA SameFront ==
    ASSUME NEW S, NEW x \in Seq(S), NEW y \in Seq(S), NEW z \in Seq(S), x \o y = x \o z
    PROVE  y = z
<1> DEFINE a == Len(x)
           b == Len(y)
           c == Len(z)
<1>1. a \in Nat /\ b \in Nat /\ c \in Nat
    BY LenProperties
<1>2. /\ Len(x \o y) = a + b
      /\ \A k \in 1..a + b : (x \o y)[k] = IF k <= a THEN x[k] ELSE y[k - a]
    BY ConcatElements
<1>3. /\ Len(x \o z) = a + c
      /\ \A k \in 1..a + c : (x \o z)[k] = IF k <= a THEN x[k] ELSE z[k - a]
    BY ConcatElements
<1> HIDE DEF a, b, c
<1>4. b = c
    BY <1>1, <1>2, <1>3
<1>5. ASSUME NEW k \in 1..b PROVE y[k] = z[k]
    <2>1. a + k \in 1..a + b /\ ~(a + k <= a) /\ (a + k) - a = k
        BY <1>1
    <2> QED BY <1>2, <1>3, <1>4, <2>1
<1> QED BY <1>4, <1>5, SeqEqual DEF b, c

LEMMA NoneOfNothing == DOMAIN <<>> = {} /\ Len(<<>>) = 0
OBVIOUS

-----------------------------------------------------------------------------
\* FlattenSeq.  Collect is the recursion it is defined by.
Collect(f, s, n) == f = [k \in 1..n |-> IF k = 1 THEN s[k] ELSE f[k - 1] \o s[k]]

Gathers(f, s) ==
    /\ f[1] = s[1]
    /\ \A k \in 2..Len(s) : f[k] = f[k - 1] \o s[k]

LEMMA CollectorExists ==
    ASSUME NEW s, NEW n \in Nat
    PROVE  \E f : Collect(f, s, n)
<1> DEFINE D == {m \in Nat : \E f : Collect(f, s, m)}
<1>1. 0 \in D
    <2>1. Collect([k \in 1..0 |-> s[k]], s, 0)
        BY DEF Collect
    <2> QED BY <2>1
<1>2. ASSUME NEW m \in Nat, m \in D
      PROVE  m + 1 \in D
    <2>1. PICK f : Collect(f, s, m)
        BY <1>2
    <2> DEFINE g == [k \in 1..m + 1 |-> IF k = 1 THEN s[k] ELSE f[k - 1] \o s[k]]
    <2>2. ASSUME NEW k \in 1..m + 1, k # 1
          PROVE  g[k - 1] = f[k - 1]
        <3>1. k - 1 \in 1..m /\ k - 1 \in 1..m + 1
            BY <2>2
        <3> QED BY <2>1, <3>1 DEF Collect
    <2>3. g = [k \in 1..m + 1 |-> IF k = 1 THEN s[k] ELSE g[k - 1] \o s[k]]
        BY <2>2
    <2>4. Collect(g, s, m + 1)
        BY <2>3 DEF Collect
    <2> QED BY <2>4
<1>3. \A m \in Nat : m \in D
    <2> HIDE DEF D
    <2> QED BY <1>1, <1>2, SetInduction
<1> QED BY <1>3

LEMMA FlattenGathers ==
    ASSUME NEW S, NEW s \in Seq(Seq(S)), s # <<>>
    PROVE  \E f \in [1..Len(s) -> Seq(S)] : Gathers(f, s) /\ FlattenSeq(s) = f[Len(s)]
<1> DEFINE n == Len(s)
           f == CHOOSE g : Collect(g, s, n)
<1>1. n \in Nat /\ n > 0 /\ \A k \in 1..n : s[k] \in Seq(S)
    BY LenProperties, ElementOfSeq, EmptySeq
<1>2. Collect(f, s, n)
    BY <1>1, CollectorExists
<1>3. FlattenSeq(s) = f[n]
    BY <1>1 DEF FlattenSeq, Collect
<1> HIDE DEF f, n
<1>4. DOMAIN f = 1..n /\ \A k \in 1..n : f[k] = IF k = 1 THEN s[k] ELSE f[k - 1] \o s[k]
    BY <1>2 DEF Collect
<1>5. f[1] = s[1] /\ s[1] \in Seq(S)
    <2>1. 1 \in 1..n
        BY <1>1
    <2> QED BY <1>1, <1>4, <2>1
<1>6. ASSUME NEW k \in 2..n PROVE f[k] = f[k - 1] \o s[k]
    <2>1. k \in 1..n /\ k # 1
        BY <1>1
    <2> QED BY <1>4, <2>1
<1>7. Gathers(f, s)
    BY <1>5, <1>6 DEF Gathers, n
<1> DEFINE D == {m \in Nat : m + 1 \in 1..n => f[m + 1] \in Seq(S)}
<1>8. 0 \in D
    BY <1>5
<1>9. ASSUME NEW m \in Nat, m \in D
      PROVE  m + 1 \in D
    <2> SUFFICES ASSUME (m + 1) + 1 \in 1..n PROVE f[(m + 1) + 1] \in Seq(S)
        OBVIOUS
    <2>1. m + 1 \in 1..n /\ (m + 1) + 1 # 1 /\ ((m + 1) + 1) - 1 = m + 1
        BY <1>1
    <2>2. f[(m + 1) + 1] = f[m + 1] \o s[(m + 1) + 1]
        BY <1>4, <2>1
    <2>3. f[m + 1] \in Seq(S) /\ s[(m + 1) + 1] \in Seq(S)
        BY <1>1, <1>9, <2>1
    <2> QED BY <2>2, <2>3, ConcatProperties
<1>10. \A m \in Nat : m \in D
    <2> HIDE DEF D
    <2> QED BY <1>8, <1>9, SetInduction
<1>11. ASSUME NEW k \in 1..n PROVE f[k] \in Seq(S)
    <2>1. k - 1 \in Nat /\ (k - 1) + 1 = k
        BY <1>1
    <2> QED BY <1>10, <2>1
<1>12. f = [k \in 1..n |-> f[k]]
    BY <1>2, <1>4 DEF Collect
<1>13. f \in [1..n -> Seq(S)]
    BY <1>11, <1>12
<1> QED BY <1>3, <1>7, <1>13 DEF n

LEMMA FlattenEmpty == FlattenSeq(<<>>) = <<>>
BY DEF FlattenSeq

LEMMA FlattenType ==
    ASSUME NEW S, NEW s \in Seq(Seq(S))
    PROVE  FlattenSeq(s) \in Seq(S)
<1>1. CASE s = <<>>
    <2>1. FlattenSeq(s) = <<>>
        BY <1>1, FlattenEmpty
    <2> QED BY <2>1
<1>2. CASE s # <<>>
    <2>1. PICK f \in [1..Len(s) -> Seq(S)] : FlattenSeq(s) = f[Len(s)]
        BY <1>2, FlattenGathers
    <2>2. Len(s) \in 1..Len(s)
        BY <1>2, LenProperties, EmptySeq
    <2> QED BY <2>1, <2>2
<1> QED BY <1>1, <1>2

LEMMA FlattenOne ==
    ASSUME NEW S, NEW x \in Seq(S)
    PROVE  FlattenSeq(<<x>>) = x
<1> DEFINE s == <<x>>
<1>1. s \in Seq(Seq(S)) /\ s # <<>> /\ Len(s) = 1 /\ s[1] = x
    OBVIOUS
<1> HIDE DEF s
<1>2. PICK f : Gathers(f, s) /\ FlattenSeq(s) = f[Len(s)]
    BY <1>1, FlattenGathers
<1>3. FlattenSeq(s) = x
    BY <1>1, <1>2 DEF Gathers
<1> QED BY <1>3 DEF s

LEMMA FlattenAppend ==
    ASSUME NEW S, NEW s \in Seq(Seq(S)), NEW x \in Seq(S)
    PROVE  FlattenSeq(Append(s, x)) = FlattenSeq(s) \o x
<1>1. CASE s = <<>>
    <2>1. Append(s, x) = <<x>>
        BY <1>1
    <2>2. <<>> \o x = x
        BY ConcatEmptySeq
    <2> QED BY <1>1, <2>1, <2>2, FlattenOne, FlattenEmpty
<1>2. CASE s # <<>>
    <2> DEFINE t == Append(s, x)
               n == Len(s)
    <2>1. /\ n \in Nat /\ n > 0 /\ Len(t) = n + 1 /\ t \in Seq(Seq(S)) /\ t[n + 1] = x
          /\ \A k \in 1..n : t[k] = s[k]
        BY <1>2, AppendProperties, LenProperties, EmptySeq
    <2>2. t # <<>>
        BY <2>1
    <2> HIDE DEF t
    <2>3. PICK f : Gathers(f, s) /\ FlattenSeq(s) = f[n]
        BY <1>2, FlattenGathers
    <2>4. PICK g : Gathers(g, t) /\ FlattenSeq(t) = g[n + 1]
        BY <2>1, <2>2, FlattenGathers
    <2> DEFINE D == {m \in Nat : m + 1 \in 1..n => f[m + 1] = g[m + 1]}
    <2>5. 0 \in D
        <3>1. 1 \in 1..n
            BY <2>1
        <3> QED BY <2>1, <2>3, <2>4, <3>1 DEF Gathers
    <2>6. ASSUME NEW m \in Nat, m \in D
          PROVE  m + 1 \in D
        <3> SUFFICES ASSUME (m + 1) + 1 \in 1..n PROVE f[(m + 1) + 1] = g[(m + 1) + 1]
            OBVIOUS
        <3>1. /\ m + 1 \in 1..n /\ (m + 1) + 1 \in 2..n /\ (m + 1) + 1 \in 2..n + 1
              /\ ((m + 1) + 1) - 1 = m + 1
            BY <2>1
        <3>2. f[(m + 1) + 1] = f[m + 1] \o s[(m + 1) + 1]
            BY <2>3, <3>1 DEF Gathers
        <3>3. g[(m + 1) + 1] = g[m + 1] \o t[(m + 1) + 1]
            BY <2>1, <2>4, <3>1 DEF Gathers
        <3>4. t[(m + 1) + 1] = s[(m + 1) + 1]
            BY <2>1
        <3> QED BY <2>6, <3>1, <3>2, <3>3, <3>4
    <2>7. \A m \in Nat : m \in D
        <3> HIDE DEF D
        <3> QED BY <2>5, <2>6, SetInduction
    <2>8. f[n] = g[n]
        <3>1. n - 1 \in Nat /\ (n - 1) + 1 = n /\ n \in 1..n
            BY <2>1
        <3> QED BY <2>7, <3>1
    <2>9. g[n + 1] = g[n] \o x
        <3>1. n + 1 \in 2..n + 1 /\ (n + 1) - 1 = n
            BY <2>1
        <3> QED BY <2>1, <2>4, <3>1 DEF Gathers
    <2> QED BY <2>3, <2>4, <2>8, <2>9 DEF t
<1> QED BY <1>1, <1>2

\* A sequence with one more element than another.
LEMMA FlattenMore ==
    ASSUME NEW S, NEW f \in Seq(Seq(S)), NEW g \in Seq(Seq(S)),
           NEW n \in Nat, Len(f) = n, Len(g) = n + 1, \A k \in 1..n : g[k] = f[k]
    PROVE  FlattenSeq(g) = FlattenSeq(f) \o g[n + 1]
<1> DEFINE x == g[n + 1]
           h == Append(f, x)
<1>1. x \in Seq(S)
    BY ElementOfSeq
<1>2. /\ h \in Seq(Seq(S)) /\ Len(h) = n + 1 /\ h[n + 1] = x
      /\ \A k \in 1..n : h[k] = f[k]
    BY <1>1, AppendProperties
<1> HIDE DEF h
<1>3. ASSUME NEW k \in 1..n + 1 PROVE g[k] = h[k]
    <2>1. k \in 1..n \/ k = n + 1
        OBVIOUS
    <2> QED BY <1>2, <2>1
<1>4. g = h
    BY <1>2, <1>3, SeqEqual
<1> HIDE DEF x
<1>5. FlattenSeq(Append(f, x)) = FlattenSeq(f) \o x
    BY <1>1, FlattenAppend
<1> QED BY <1>4, <1>5 DEF h, x

LEMMA FlattenCons ==
    ASSUME NEW S, NEW s \in Seq(Seq(S)), s # <<>>
    PROVE  FlattenSeq(s) = s[1] \o FlattenSeq(Tail(s))
<1> DEFINE t == Tail(s)
           n == Len(t)
<1>1. /\ t \in Seq(Seq(S)) /\ n \in Nat /\ Len(s) = n + 1 /\ s[1] \in Seq(S)
      /\ \A k \in 1..n : t[k] = s[k + 1] /\ t[k] \in Seq(S)
    BY HeadTailProperties, LenProperties, ElementOfSeq, EmptySeq
<1> HIDE DEF t
<1>2. CASE t = <<>>
    <2>1. n = 0
        BY <1>2, EmptySeq
    <2>2. Len(s) = 1 /\ Len(<<s[1]>>) = 1 /\ <<s[1]>>[1] = s[1] /\ <<s[1]>> \in Seq(Seq(S))
        BY <1>1, <2>1
    <2>one. s = <<s[1]>>
        <3> DEFINE u == <<s[1]>>
        <3>1. u \in Seq(Seq(S)) /\ Len(u) = Len(s) /\ \A k \in 1..Len(s) : s[k] = u[k]
            BY <2>2
        <3> HIDE DEF u
        <3>2. s = u
            BY <3>1, SeqEqual
        <3> QED BY <3>2 DEF u
    <2>3. s[1] \o <<>> = s[1]
        BY <1>1, ConcatEmptySeq
    <2>4. FlattenSeq(s) = s[1]
        BY <1>1, <2>one, FlattenOne
    <2>5. FlattenSeq(t) = <<>>
        BY <1>2, FlattenEmpty
    <2> QED BY <2>3, <2>4, <2>5 DEF t
<1>3. CASE t # <<>>
    <2>1. n > 0
        BY <1>1, <1>3, EmptySeq
    <2>2. PICK f : Gathers(f, s) /\ FlattenSeq(s) = f[n + 1]
        BY <1>1, FlattenGathers
    <2>3. PICK g \in [1..n -> Seq(S)] : Gathers(g, t) /\ FlattenSeq(t) = g[n]
        BY <1>1, <1>3, FlattenGathers
    <2> DEFINE D == {m \in Nat : m + 1 \in 1..n => f[m + 2] = s[1] \o g[m + 1]}
    <2>4. 0 \in D
        <3>1. 1 \in 1..n /\ 2 \in 2..n + 1 /\ 2 - 1 = 1 /\ 1 + 1 = 2 /\ 0 + 1 = 1 /\ 0 + 2 = 2
            BY <1>1, <2>1
        <3>2. f[2] = f[2 - 1] \o s[2] /\ f[1] = s[1]
            BY <1>1, <2>2, <3>1 DEF Gathers
        <3>3. g[1] = t[1] /\ t[1] = s[1 + 1]
            BY <1>1, <2>3, <3>1 DEF Gathers
        <3>4. f[0 + 2] = s[1] \o g[0 + 1]
            BY <3>1, <3>2, <3>3
        <3> QED BY <3>4
    <2>5. ASSUME NEW m \in Nat, m \in D, (m + 1) + 1 \in 1..n
          PROVE  f[(m + 1) + 2] = s[1] \o g[(m + 1) + 1]
        <3> DEFINE x == s[1]
                   y == g[m + 1]
                   z == t[(m + 1) + 1]
        <3>1. /\ m + 1 \in 1..n /\ (m + 1) + 1 \in 2..n /\ (m + 1) + 2 \in 2..n + 1
              /\ ((m + 1) + 1) - 1 = m + 1 /\ ((m + 1) + 2) - 1 = m + 2
              /\ ((m + 1) + 1) + 1 = (m + 1) + 2
            BY <1>1, <2>5
        <3>2. f[(m + 1) + 2] = f[m + 2] \o s[(m + 1) + 2]
            BY <1>1, <2>2, <3>1 DEF Gathers
        <3>3. g[(m + 1) + 1] = y \o z
            BY <2>3, <3>1 DEF Gathers
        <3>4. z = s[(m + 1) + 2]
            BY <1>1, <2>5, <3>1
        <3>typed. z \in Seq(S)
            BY <1>1, <2>5, <3>1
        <3>5. x \in Seq(S) /\ y \in Seq(S)
            BY <1>1, <2>3, <3>1
        <3>6. f[m + 2] = x \o y
            BY <2>5, <3>1
        <3> HIDE DEF x, y, z, D
        <3>7. f[(m + 1) + 2] = f[m + 2] \o z
            BY <3>2, <3>4
        <3> DEFINE front == f[m + 2]
                   whole == f[(m + 1) + 2]
        <3> HIDE DEF front, whole
        <3>8. front = x \o y /\ whole = front \o z
            BY <3>6, <3>7 DEF front, whole
        <3>9. whole = x \o (y \o z)
            <4>1. x \in Seq(S)
                BY <3>5
            <4>2. y \in Seq(S)
                BY <3>5
            <4>3. (x \o y) \o z = x \o (y \o z)
                BY <3>typed, <4>1, <4>2, ConcatAssociative, SMTT(30)
            <4> QED BY <3>8, <4>3
        <3> QED BY <3>3, <3>9 DEF whole, x
    <2>step. ASSUME NEW m \in Nat, m \in D
           PROVE  m + 1 \in D
        <3>1. (m + 1) + 1 \in 1..n => f[(m + 1) + 2] = s[1] \o g[(m + 1) + 1]
            <4> HIDE DEF D
            <4> QED BY <2>5, <2>step
        <3>2. m + 1 \in Nat
            OBVIOUS
        <3> QED BY <3>1, <3>2
    <2>6. \A m \in Nat : m \in D
        <3> HIDE DEF D
        <3> QED BY <2>4, <2>step, SetInduction
    <2>7. f[n + 1] = s[1] \o g[n]
        <3>1. n - 1 \in Nat /\ (n - 1) + 1 = n /\ (n - 1) + 2 = n + 1 /\ n \in 1..n
            BY <1>1, <2>1
        <3> QED BY <2>6, <3>1
    <2> QED BY <2>2, <2>3, <2>7 DEF t
<1> QED BY <1>2, <1>3

=============================================================================
