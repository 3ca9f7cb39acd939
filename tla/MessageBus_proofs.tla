-------------------------- MODULE MessageBus_proofs --------------------------
(***************************************************************************)
(* The order of the messages, for the abstract queue: every specification  *)
(* that implements MessageBus inherits it.                                 *)
(***************************************************************************)
EXTENDS MessageBus, TLAPS

\* The three invariants together are inductive.
BusInv == TypeOK /\ Ordered /\ NoneLost

LEMMA InitBusInv == Init => BusInv
BY DEF Init, BusInv, TypeOK, Ordered, NoneLost

LEMMA NextBusInv == BusInv /\ [Next]_vars => BusInv'
<1> SUFFICES ASSUME BusInv, [Next]_vars PROVE BusInv'
    OBVIOUS
<1> USE DEF BusInv, TypeOK
<1>1. CASE Queue
    <2>1. TypeOK' BY <1>1 DEF Queue
    <2>2. /\ Len(queue') = Len(queue) + 1
          /\ \A i \in 1..Len(queue') :
                queue'[i] = IF i <= Len(queue) THEN queue[i] ELSE next
        BY <1>1 DEF Queue
    <2>3. Ordered' BY <1>1, <2>2 DEF Queue, Ordered
    <2>4. NoneLost'
        <3>1. open' = open /\ last' = last /\ next' = next + 1
            BY <1>1 DEF Queue
        <3>2. ASSUME open, NEW i \in 1..Len(queue') PROVE queue'[i] = last' + i
            <4>1. CASE i <= Len(queue)
                BY <2>2, <3>1, <3>2, <4>1 DEF NoneLost
            <4>2. CASE ~(i <= Len(queue))
                <5>1. i = Len(queue) + 1 /\ queue'[i] = next
                    BY <2>2, <4>2
                <5> QED BY <3>1, <3>2, <5>1 DEF NoneLost
            <4> QED BY <4>1, <4>2
        <3>3. open => Len(queue') = next' - 1 - last'
            BY <2>2, <3>1 DEF NoneLost
        <3> QED BY <3>1, <3>2, <3>3 DEF NoneLost
    <2> QED BY <2>1, <2>3, <2>4
<1>2. CASE Lose
    BY <1>2 DEF Lose, Ordered, NoneLost
<1>3. CASE Take
    <2>1. TypeOK' BY <1>3 DEF Take
    <2>2. /\ Len(queue') = Len(queue) - 1
          /\ Len(queue) \in Nat \ {0}
          /\ \A i \in 1..Len(queue') : queue'[i] = queue[i + 1]
        BY <1>3 DEF Take
    <2>3. last' = queue[1] /\ next' = next /\ open' = open
        BY <1>3 DEF Take
    <2>4. Ordered'
        <3>1. last' < next'
            <4>1. 1 \in 1..Len(queue) BY <2>2
            <4> QED BY <4>1, <2>3 DEF Ordered
        <3>0. ASSUME NEW i \in 1..Len(queue') PROVE queue'[i] < next'
            <4>1. i + 1 \in 1..Len(queue) BY <2>2
            <4> QED BY <4>1, <2>2, <2>3 DEF Ordered
        <3>2. ASSUME NEW i \in 1..Len(queue') PROVE last' < queue'[i]
            <4>1. 1 \in 1..Len(queue) /\ i + 1 \in 1..Len(queue) /\ 1 < i + 1
                BY <2>2
            <4>2. queue[1] < queue[i + 1]
                BY <4>1 DEF Ordered
            <4> QED BY <4>2, <2>2, <2>3
        <3>3. ASSUME NEW i \in 1..Len(queue'), NEW j \in 1..Len(queue'), i < j
              PROVE  queue'[i] < queue'[j]
            <4>1. i + 1 \in 1..Len(queue) /\ j + 1 \in 1..Len(queue) /\ i + 1 < j + 1
                BY <2>2, <3>3
            <4>2. queue[i + 1] < queue[j + 1]
                BY <4>1 DEF Ordered
            <4> QED BY <4>2, <2>2
        <3> QED BY <3>0, <3>1, <3>2, <3>3 DEF Ordered
    <2>5. NoneLost'
        <3> SUFFICES ASSUME open
                     PROVE  /\ Len(queue') = next' - 1 - last'
                            /\ \A i \in 1..Len(queue') : queue'[i] = last' + i
            BY <2>3 DEF NoneLost
        <3>1. queue[1] = last + 1 /\ Len(queue') = next' - 1 - last'
            <4>1. 1 \in 1..Len(queue) BY <2>2
            <4> QED BY <4>1, <2>2, <2>3 DEF NoneLost
        <3>2. ASSUME NEW i \in 1..Len(queue') PROVE queue'[i] = last' + i
            <4>1. i + 1 \in 1..Len(queue) BY <2>2
            <4>2. queue[i + 1] = last + (i + 1) BY <4>1 DEF NoneLost
            <4> QED BY <4>2, <3>1, <2>2, <2>3
        <3> QED BY <3>1, <3>2
    <2> QED BY <2>1, <2>4, <2>5
<1>4. CASE Close
    BY <1>4 DEF Close, Ordered, NoneLost
<1>5. CASE UNCHANGED vars
    BY <1>5 DEF vars, Ordered, NoneLost
<1> QED BY <1>1, <1>2, <1>3, <1>4, <1>5 DEF Next

\* Messages are handled in the order of their serials, none twice, and none is
\* lost while the queue is open (bot::queue_message and bot::run).
THEOREM BusOrder == Spec => [](Ordered /\ NoneLost)
<1>1. BusInv => Ordered /\ NoneLost
    BY DEF BusInv
<1> QED BY InitBusInv, NextBusInv, <1>1, PTL DEF Spec

=============================================================================
