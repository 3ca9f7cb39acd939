------------------------ MODULE TelegramClient_proofs -------------------------
(***************************************************************************)
(* TelegramClient, for any number of updates, failures and messages, and   *)
(* any size of a reply: its types, that updates are reported in order,     *)
(* that none is lost and that none is reported that was discarded.         *)
(*                                                                         *)
(* The offset is the highest update of the last reply, and it is forgotten *)
(* with an error.  The order rests on the short polls: when one comes back *)
(* empty the server has nothing left that was reported before.             *)
(***************************************************************************)
EXTENDS TelegramClient, SequenceTheorems, TLAPS

Increasing(s) == \A i, j \in 1..Len(s) : i < j => s[i] < s[j]

\* What a sequence of updates holds comes before what another does.
Before(s, t) == \A i \in 1..Len(s), j \in 1..Len(t) : s[i] < t[j]

\* What is reported from a long poll is later than what was reported before, and
\* every update behind the offset is later than all that.
OrderInv ==
    /\ Increasing(pending) /\ Increasing(batch) /\ Increasing(toBot)
    /\ asked => Polling /\ \A i \in 1..Len(pending) : pending[i] > highest
    /\ worker \in {"long", "handling"} =>
        \A i \in 1..Len(pending), j \in 1..Len(toBot) :
            pending[i] > highest => toBot[j] < pending[i]
    /\ worker = "handling" =>
        /\ Before(toBot, batch)
        /\ \A i \in 1..Len(batch) : batch[i] <= highest

\* The update is with the bot, on its way there, or discarded.
Settled(id) == id \in ToSet(batch) \cup ToSet(toBot) \cup discarded

\* The updates up to the offset of the next poll are settled.
ConfirmedInv ==
    /\ worker \notin {"handling", "crashed"} => batch = <<>>
    /\ \A i \in 1..Len(batch) : kinds[batch[i]] # "other"
    /\ worker \in {"short", "long", "handling"} =>
        \A id \in DOMAIN kinds : id <= highest => Settled(id) \/ kinds[id] = "edited"

IInv == TypeOK /\ OrderInv /\ ConfirmedInv /\ NoneLost

\* Nothing that was discarded is in hand, or behind the offset of the long polls.
DiscardedInv ==
    /\ worker = "handling" => \A i \in 1..Len(batch) : batch[i] \notin discarded
    /\ worker \in {"long", "handling"} =>
        \A i \in 1..Len(pending) : pending[i] > highest => pending[i] \notin discarded

-----------------------------------------------------------------------------
LEMMA TypeFacts ==
    ASSUME TypeOK
    PROVE  /\ Len(kinds) \in Nat /\ DOMAIN kinds = 1..Len(kinds)
           /\ kinds \in Seq(Kinds)
           /\ batch \in Seq(1..Len(kinds)) /\ pending \in Seq(1..Len(kinds))
           /\ toBot \in Seq(1..Len(kinds))
           /\ Len(batch) \in Nat /\ Len(pending) \in Nat /\ Len(toBot) \in Nat
           /\ \A i \in 1..Len(batch) : batch[i] \in 1..Len(kinds)
           /\ \A i \in 1..Len(pending) : pending[i] \in 1..Len(kinds)
           /\ \A i \in 1..Len(toBot) : toBot[i] \in 1..Len(kinds)
           /\ highest \in Nat
<1>1. kinds \in Seq(Kinds) /\ DOMAIN kinds = 1..Len(kinds) /\ Len(kinds) \in Nat
    BY LenProperties DEF TypeOK
<1>2. /\ batch \in Seq(1..Len(kinds)) /\ pending \in Seq(1..Len(kinds))
      /\ toBot \in Seq(1..Len(kinds))
    BY <1>1 DEF TypeOK
<1>3. highest \in 0..Len(kinds)
    BY DEF TypeOK
<1>4. Len(batch) \in Nat /\ Len(pending) \in Nat /\ Len(toBot) \in Nat
    BY <1>2, LenProperties
<1>5. \A i \in 1..Len(batch) : batch[i] \in 1..Len(kinds)
    BY <1>2, ElementOfSeq
<1>6. \A i \in 1..Len(pending) : pending[i] \in 1..Len(kinds)
    BY <1>2, ElementOfSeq
<1>7. \A i \in 1..Len(toBot) : toBot[i] \in 1..Len(kinds)
    BY <1>2, ElementOfSeq
<1>8. highest \in Nat
    BY <1>1, <1>3
<1> QED BY <1>1, <1>2, <1>4, <1>5, <1>6, <1>7, <1>8

\* The members of a sequence, by their places.
LEMMA Members ==
    ASSUME NEW S, NEW s \in Seq(S)
    PROVE  ToSet(s) = {s[i] : i \in 1..Len(s)}
BY LenProperties DEF ToSet

\* A reply holds the first updates the server keeps, and some if it keeps any.
LEMMA ReplyIsPrefix ==
    ASSUME TypeOK, Increasing(pending)
    PROVE  /\ Reply \in Seq(1..Len(kinds))
           /\ Len(Reply) \in 0..Len(pending)
           /\ \A i \in 1..Len(Reply) : Reply[i] = pending[i]
           /\ Reply = <<>> => pending = <<>>
           /\ Increasing(Reply)
           /\ Reply # <<>> =>
                /\ Last(Reply) \in 1..Len(kinds)
                /\ \A i \in 1..Len(Reply) : Reply[i] <= Last(Reply)
                /\ \A i \in 1..Len(pending) :
                      pending[i] <= Last(Reply) => pending[i] \in ToSet(Reply)
<1> DEFINE n == IF Len(pending) < Limit THEN Len(pending) ELSE Limit
<1>1. n \in 0..Len(pending) /\ (Len(pending) > 0 => n > 0)
    BY TypeFacts, LimitAssumption
<1> HIDE DEF n
<1>2. Reply = SubSeq(pending, 1, n)
    BY DEF Reply, n
<1>3. /\ Reply \in Seq(1..Len(kinds)) /\ Len(Reply) = n
      /\ \A i \in 1..Len(Reply) : Reply[i] = pending[i]
    BY <1>1, <1>2, TypeFacts, SubSeqProperties
<1>4. Reply = <<>> => pending = <<>>
    BY <1>1, <1>3, TypeFacts, EmptySeq
<1>5. Increasing(Reply)
    <2>1. \A i \in 1..Len(Reply) : i \in 1..Len(pending)
        BY <1>1, <1>3, TypeFacts
    <2> QED BY <2>1, <1>3 DEF Increasing
<1>6. ASSUME Reply # <<>>
      PROVE  /\ Last(Reply) \in 1..Len(kinds)
             /\ \A i \in 1..Len(Reply) : Reply[i] <= Last(Reply)
             /\ \A i \in 1..Len(pending) :
                  pending[i] <= Last(Reply) => pending[i] \in ToSet(Reply)
    <2>1. Last(Reply) = Reply[n] /\ n \in 1..Len(pending)
        BY <1>1, <1>3, <1>6, EmptySeq, TypeFacts DEF Last
    <2>2. Last(Reply) \in 1..Len(kinds)
        BY <2>1, <1>3, TypeFacts
    <2>3. \A i \in 1..Len(Reply) : Reply[i] <= Last(Reply)
        <3> SUFFICES ASSUME NEW i \in 1..Len(Reply)
                     PROVE  Reply[i] <= Reply[n]
            BY <2>1
        <3>1. n \in 1..Len(Reply) /\ i \in Nat /\ n \in Nat
            BY <2>1, <1>1, <1>3, TypeFacts
        <3>2. Reply[i] \in Nat /\ Reply[n] \in Nat
            <4>1. Reply[i] \in 1..Len(kinds) /\ Reply[n] \in 1..Len(kinds)
                BY <3>1, <1>3, ElementOfSeq
            <4> QED BY <4>1, TypeFacts
        <3>3. i < n \/ i = n
            BY <3>1, <1>3
        <3> QED BY <3>1, <3>2, <3>3, <1>5 DEF Increasing
    <2>4. ASSUME NEW i \in 1..Len(pending), pending[i] <= Last(Reply)
          PROVE  pending[i] \in ToSet(Reply)
        <3>1. i <= n
            <4>1. i \in Nat /\ n \in Nat /\ n \in 1..Len(pending)
                BY <2>1, TypeFacts
            <4>2. pending[n] = Last(Reply) /\ pending[n] \in Nat /\ pending[i] \in Nat
                BY <2>1, <1>1, <1>3, TypeFacts
            <4>3. n < i => pending[n] < pending[i]
                BY <4>1 DEF Increasing
            <4> QED BY <4>1, <4>2, <4>3, <2>4
        <3> QED BY <3>1, <1>1, <1>3, <2>4, Members
    <2> QED BY <2>2, <2>3, <2>4
<1> QED BY <1>1, <1>3, <1>4, <1>5, <1>6

\* What Confirm leaves is what the server kept from the offset on.
LEMMA ConfirmKeepsRest ==
    ASSUME TypeOK, Increasing(pending), NEW offset \in Nat, Confirm(offset)
    PROVE  /\ pending' \in Seq(1..Len(kinds))
           /\ Increasing(pending')
           /\ \A i \in 1..Len(pending') :
                 /\ pending'[i] >= offset
                 /\ \E j \in 1..Len(pending) : pending'[i] = pending[j]
           /\ \A j \in 1..Len(pending) :
                 pending[j] >= offset => pending[j] \in ToSet(pending')
<1>1. PICK n \in 0..Len(pending) :
        /\ \A i \in 1..Len(pending) : pending[i] < offset <=> i <= n
        /\ pending' = SubSeq(pending, n + 1, Len(pending))
    BY TypeFacts, LenProperties DEF Confirm
<1>2. /\ pending' \in Seq(1..Len(kinds))
      /\ Len(pending') = Len(pending) - n
      /\ \A i \in 1..Len(pending') : pending'[i] = pending[n + i]
    <2>1. n + 1 \in Int /\ Len(pending) \in Int
        BY TypeFacts
    <2>2. \A i \in (n + 1)..Len(pending) : pending[i] \in 1..Len(kinds)
        BY TypeFacts
    <2>3. /\ SubSeq(pending, n + 1, Len(pending)) \in Seq(1..Len(kinds))
          /\ Len(SubSeq(pending, n + 1, Len(pending)))
                = IF n + 1 <= Len(pending) THEN Len(pending) - (n + 1) + 1 ELSE 0
          /\ \A i \in 1..(Len(pending) - (n + 1) + 1) :
                SubSeq(pending, n + 1, Len(pending))[i] = pending[(n + 1) + i - 1]
        BY <2>1, <2>2, SubSeqProperties
    <2> QED BY <1>1, <2>3, TypeFacts
<1>3. Increasing(pending')
    <2>1. \A i \in 1..Len(pending') : n + i \in 1..Len(pending)
        BY <1>2, TypeFacts
    <2>2. \A i, j \in 1..Len(pending') : i < j => n + i < n + j
        OBVIOUS
    <2> QED BY <1>2, <2>1, <2>2 DEF Increasing
<1>4. ASSUME NEW i \in 1..Len(pending')
      PROVE  /\ pending'[i] >= offset
             /\ \E j \in 1..Len(pending) : pending'[i] = pending[j]
    <2>1. n + i \in 1..Len(pending) /\ ~(n + i <= n)
        BY <1>2, TypeFacts
    <2>2. pending'[i] = pending[n + i] /\ pending[n + i] \in 1..Len(kinds)
        BY <2>1, <1>2, TypeFacts, ElementOfSeq
    <2>3. ~(pending[n + i] < offset)
        BY <2>1, <1>1
    <2> QED BY <2>1, <2>2, <2>3
<1>5. ASSUME NEW j \in 1..Len(pending), pending[j] >= offset
      PROVE  pending[j] \in ToSet(pending')
    <2>1. j - n \in 1..Len(pending') /\ n + (j - n) = j
        BY <1>1, <1>2, <1>5, TypeFacts
    <2>2. pending'[j - n] = pending[j]
        BY <2>1, <1>2
    <2> QED BY <2>1, <2>2, <1>2, Members
<1> QED BY <1>2, <1>3, <1>4, <1>5

-----------------------------------------------------------------------------
\* What an action leaves as it is, and what a failure does to the count.
LEMMA FailKeepsType ==
    ASSUME TypeOK, Fail
    PROVE  done' \in [failures : 0..MaxFailures, sends : 0..MaxSends]
<1>1. /\ done \in [failures : 0..MaxFailures, sends : 0..MaxSends]
      /\ done' = [done EXCEPT !.failures = @ + 1]
      /\ done.failures < MaxFailures
    BY DEF TypeOK, Fail
<1> QED BY <1>1, BoundsAssumption

LEMMA InitHolds == Init => IInv
<1> SUFFICES ASSUME Init PROVE IInv
    OBVIOUS
<1>1. /\ kinds = <<>> /\ batch = <<>> /\ pending = <<>> /\ toBot = <<>>
      /\ Len(kinds) = 0 /\ Len(batch) = 0 /\ Len(pending) = 0 /\ Len(toBot) = 0
      /\ DOMAIN kinds = {}
    BY EmptySeq, LenProperties DEF Init
<1>2. TypeOK
    <2>1. kinds \in Seq(Kinds) /\ {batch, pending, toBot} \subseteq Seq(DOMAIN kinds)
        BY <1>1, EmptySeq
    <2>2. 0 \in 0..MaxFailures /\ 0 \in 0..MaxSends /\ 0 <= MaxUpdates
        BY BoundsAssumption
    <2>3. done \in [failures : 0..MaxFailures, sends : 0..MaxSends]
        BY <2>2 DEF Init
    <2>4. highest \in 0..Len(kinds) /\ Len(kinds) <= MaxUpdates
        BY <1>1, <2>2 DEF Init
    <2>5. discarded \subseteq DOMAIN kinds
        BY DEF Init
    <2> QED BY <2>1, <2>3, <2>4, <2>5 DEF Init, TypeOK, Connections
<1>3. OrderInv
    BY <1>1 DEF Init, OrderInv, Increasing, Before
<1>4. ConfirmedInv /\ NoneLost
    BY <1>1 DEF Init, ConfirmedInv, NoneLost
<1> QED BY <1>2, <1>3, <1>4 DEF IInv

\* A step that touches no update, and where it leads: nowhere else, away from the
\* polling, or to the first short poll.
LEMMA SameUpdates ==
    ASSUME TypeOK, OrderInv, ConfirmedInv, NoneLost, UNCHANGED <<batch, pending, kinds, discarded, toBot>>,
           \/ UNCHANGED <<worker, asked, highest>>
           \/ /\ worker \notin {"handling", "crashed"} /\ asked' = FALSE
              /\ worker' \in {"connecting", "connecting_updates", "sleeping", "crashed"}
              /\ UNCHANGED highest
           \/ /\ worker = "connecting_updates" /\ worker' = "short"
              /\ highest' = 0 /\ UNCHANGED asked
    PROVE  OrderInv' /\ ConfirmedInv' /\ NoneLost'
<1>1. OrderInv'
    BY DEF OrderInv, Increasing, Before, Polling
<1>2. NoneLost'
    BY DEF NoneLost
<1>3. ConfirmedInv'
    <2>1. worker' \notin {"handling", "crashed"} => batch' = <<>>
        BY DEF ConfirmedInv
    <2>2. \A i \in 1..Len(batch') : kinds'[batch'[i]] # "other"
        BY DEF ConfirmedInv
    <2>3. CASE UNCHANGED <<worker, asked, highest>>
        BY <2>1, <2>2, <2>3 DEF ConfirmedInv, Settled
    <2>4. CASE worker' \in {"connecting", "connecting_updates", "sleeping", "crashed"}
        BY <2>1, <2>2, <2>4 DEF ConfirmedInv
    <2>5. CASE highest' = 0
        <3>1. Len(kinds) \in Nat /\ DOMAIN kinds = 1..Len(kinds)
            BY TypeFacts
        <3>2. \A id \in DOMAIN kinds : ~(id <= 0)
            BY <3>1
        <3> QED BY <3>2, <2>1, <2>2, <2>5 DEF ConfirmedInv
    <2> QED BY <2>3, <2>4, <2>5
<1> QED BY <1>1, <1>2, <1>3

LEMMA InitConnectionKeeps == ASSUME TypeOK, OrderInv, ConfirmedInv, NoneLost, InitConnection
    PROVE  IInv'
<1>1. TypeOK'
    BY FailKeepsType DEF TypeOK, InitConnection, Connects, Connections, serverVars
<1>2. OrderInv' /\ ConfirmedInv' /\ NoneLost'
    <2>1. asked = FALSE
        BY DEF OrderInv, Polling, InitConnection, TypeOK
    <2> QED BY <2>1, SameUpdates DEF InitConnection, serverVars
<1> QED BY <1>1, <1>2 DEF IInv

LEMMA InitUpdateConnectionKeeps == ASSUME TypeOK, OrderInv, ConfirmedInv, NoneLost, InitUpdateConnection
    PROVE  IInv'
<1>1. TypeOK'
    <2>1. highest' \in 0..Len(kinds)
        <3>1. Len(kinds) \in Nat
            BY TypeFacts
        <3> QED BY <3>1 DEF InitUpdateConnection
    <2> QED BY <2>1, FailKeepsType
            DEF TypeOK, InitUpdateConnection, Connects, Connections, serverVars, sendVars
<1>2. OrderInv' /\ ConfirmedInv' /\ NoneLost'
    BY SameUpdates DEF InitUpdateConnection, serverVars
<1> QED BY <1>1, <1>2 DEF IInv

LEMMA EndWithErrorKeeps ==
    ASSUME TypeOK, OrderInv, ConfirmedInv, NoneLost, EndWithError, worker \notin {"handling", "crashed"},
           updates' \in Connections,
           done' \in [failures : 0..MaxFailures, sends : 0..MaxSends]
    PROVE  IInv'
<1>1. TypeOK'
    BY DEF TypeOK, EndWithError, Connections, serverVars, sendVars
<1>2. OrderInv' /\ ConfirmedInv' /\ NoneLost'
    BY SameUpdates DEF EndWithError, serverVars
<1> QED BY <1>1, <1>2 DEF IInv

LEMMA PollOnLostConnectionKeeps == ASSUME TypeOK, OrderInv, ConfirmedInv, NoneLost, PollOnLostConnection
    PROVE  IInv'
BY EndWithErrorKeeps DEF PollOnLostConnection, Polling, TypeOK, IInv

LEMMA ReplyIsRefusedKeeps == ASSUME TypeOK, OrderInv, ConfirmedInv, NoneLost, ReplyIsRefused
    PROVE  IInv'
BY EndWithErrorKeeps DEF ReplyIsRefused, Polling, TypeOK, OrderInv

LEMMA PollFailsKeeps == ASSUME TypeOK, OrderInv, ConfirmedInv, NoneLost, PollFails
    PROVE  IInv'
<1>1. worker \notin {"handling", "crashed"}
    BY DEF PollFails, Polling, IInv, OrderInv
<1> QED BY <1>1, EndWithErrorKeeps, FailKeepsType DEF PollFails, Connections

LEMMA ReconnectKeeps == ASSUME TypeOK, OrderInv, ConfirmedInv, NoneLost, Reconnect
    PROVE  IInv'
<1>1. TypeOK'
    BY DEF TypeOK, Reconnect, serverVars, sendVars
<1>2. OrderInv' /\ ConfirmedInv' /\ NoneLost'
    <2>1. asked = FALSE
        BY DEF OrderInv, Polling, Reconnect, TypeOK
    <2> QED BY <2>1, SameUpdates DEF Reconnect, serverVars
<1> QED BY <1>1, <1>2 DEF IInv

LEMMA SendingKeeps == ASSUME TypeOK, OrderInv, ConfirmedInv, NoneLost, HandleOutgoing \/ SendReturns
    PROVE  IInv'
<1>1. TypeOK'
    <2>1. CASE HandleOutgoing
        <3>1. done' \in [failures : 0..MaxFailures, sends : 0..MaxSends]
            <4>1. /\ done \in [failures : 0..MaxFailures, sends : 0..MaxSends]
                  /\ done' = [done EXCEPT !.sends = @ + 1]
                  /\ done.sends < MaxSends
                BY <2>1 DEF HandleOutgoing, TypeOK
            <4> QED BY <4>1, BoundsAssumption
        <3> QED BY <3>1, <2>1 DEF TypeOK, HandleOutgoing, serverVars
    <2>2. CASE SendReturns
        BY <2>2, FailKeepsType DEF TypeOK, SendReturns, serverVars, Connections
    <2> QED BY <2>1, <2>2
<1>2. OrderInv' /\ ConfirmedInv' /\ NoneLost'
    BY SameUpdates DEF HandleOutgoing, SendReturns, serverVars
<1> QED BY <1>1, <1>2 DEF IInv

-----------------------------------------------------------------------------
\* The offset confirms what is settled, and no more.
LEMMA PollKeeps ==
    ASSUME TypeOK, OrderInv, ConfirmedInv, NoneLost, Poll
    PROVE  IInv'
<1>1. /\ Polling /\ asked' = TRUE /\ allowed' \in {"all", "messages"}
      /\ Confirm(highest + 1) /\ Increasing(pending)
      /\ UNCHANGED <<build, worker, highest, batch, updates, messages, sending, kinds,
                     discarded, toBot, done>>
    BY DEF Poll, sendVars, OrderInv
<1>2. /\ pending' \in Seq(1..Len(kinds)) /\ Increasing(pending')
      /\ \A i \in 1..Len(pending') :
            /\ pending'[i] >= highest + 1
            /\ \E j \in 1..Len(pending) : pending'[i] = pending[j]
      /\ \A j \in 1..Len(pending) :
            pending[j] >= highest + 1 => pending[j] \in ToSet(pending')
    BY <1>1, TypeFacts, ConfirmKeepsRest
<1>3. TypeOK'
    <2>1. pending' \in Seq(DOMAIN kinds)
        BY <1>2, TypeFacts
    <2> QED BY <1>1, <2>1 DEF TypeOK, Connections
<1>4. OrderInv'
    <2>1. \A i \in 1..Len(pending') : pending'[i] > highest
        <3> SUFFICES ASSUME NEW i \in 1..Len(pending') PROVE pending'[i] > highest
            OBVIOUS
        <3>1. pending'[i] \in Nat /\ highest \in Nat
            BY <1>2, TypeFacts, ElementOfSeq
        <3> QED BY <3>1, <1>2
    <2>2. worker \in {"long", "handling"} =>
            \A i \in 1..Len(pending'), j \in 1..Len(toBot) :
                pending'[i] > highest => toBot[j] < pending'[i]
        BY <1>2 DEF OrderInv
    <2> QED BY <1>1, <1>2, <2>1, <2>2 DEF OrderInv, Polling, Increasing, Before
<1>5. ConfirmedInv'
    BY <1>1 DEF ConfirmedInv, Settled
<1>6. NoneLost'
    <2> SUFFICES ASSUME NEW id \in DOMAIN kinds
                 PROVE  id \in ToSet(pending') \/ Settled(id) \/ kinds[id] = "edited"
        BY <1>1 DEF NoneLost, Settled
    <2>1. CASE id \in ToSet(pending)
        <3>1. PICK j \in 1..Len(pending) : id = pending[j]
            BY <2>1, Members, TypeFacts
        <3>2. CASE id >= highest + 1
            BY <3>1, <3>2, <1>2
        <3>3. CASE ~(id >= highest + 1)
            <4>1. id <= highest
                BY <3>3, TypeFacts
            <4> QED BY <4>1, <1>1 DEF ConfirmedInv, Polling
        <3> QED BY <3>2, <3>3
    <2>2. CASE id \notin ToSet(pending)
        BY <2>2 DEF NoneLost, Settled
    <2> QED BY <2>1, <2>2
<1> QED BY <1>3, <1>4, <1>5, <1>6 DEF IInv

\* What a reply brings up to its last update: what was not settled is in the reply.
LEMMA ReplySettles ==
    ASSUME TypeOK, OrderInv, NoneLost, Reply # <<>>,
           NEW id \in DOMAIN kinds, id <= Last(Reply)
    PROVE  id \in ToSet(Reply) \/ Settled(id) \/ kinds[id] = "edited"
<1>1. CASE id \in ToSet(pending)
    <2>1. PICK j \in 1..Len(pending) : id = pending[j]
        BY <1>1, Members, TypeFacts
    <2> QED BY <2>1, ReplyIsPrefix DEF OrderInv
<1>2. CASE id \notin ToSet(pending)
    BY <1>2 DEF NoneLost, Settled
<1> QED BY <1>1, <1>2

\* An empty short poll means that nothing is left on the server, so the long polls
\* start with an empty slate; what is not empty is discarded.
LEMMA DiscardBacklogKeeps ==
    ASSUME TypeOK, OrderInv, ConfirmedInv, NoneLost, DiscardBacklog
    PROVE  IInv'
<1>1. /\ worker = "short" /\ asked' = FALSE
      /\ discarded' = discarded \cup ToSet(Reply)
      /\ UNCHANGED <<build, updates, messages, sending, pending, allowed, kinds, done,
                     batch, toBot>>
      /\ \/ Reply = <<>> /\ worker' = "long" /\ highest' = highest
         \/ Reply # <<>> /\ highest' = Last(Reply) /\ worker' = "short"
    BY DEF DiscardBacklog, Received, sendVars, serverVars
<1>2. Increasing(pending)
    BY DEF OrderInv
<1>3. ToSet(Reply) \subseteq DOMAIN kinds
    <2>1. Reply \in Seq(DOMAIN kinds)
        BY <1>2, ReplyIsPrefix, TypeFacts
    <2> QED BY <2>1, Members, ElementOfSeq
<1>4. highest' \in 0..Len(kinds)
    <2>1. CASE highest' = highest
        BY <2>1 DEF TypeOK
    <2>2. CASE Reply # <<>> /\ highest' = Last(Reply)
        BY <2>2, <1>2, ReplyIsPrefix, TypeFacts
    <2> QED BY <1>1, <2>1, <2>2
<1>5. TypeOK'
    BY <1>1, <1>3, <1>4 DEF TypeOK, Connections
<1>6. OrderInv'
    <2>1. CASE worker' = "long"
        <3>1. pending = <<>> /\ Len(pending) = 0
            BY <2>1, <1>1, <1>2, ReplyIsPrefix, EmptySeq
        <3> QED BY <3>1, <2>1, <1>1 DEF OrderInv, Increasing
    <2>2. CASE worker' = "short"
        BY <2>2, <1>1 DEF OrderInv, Increasing
    <2> QED BY <1>1, <2>1, <2>2
<1>7. ConfirmedInv'
    <2> SUFFICES ASSUME NEW id \in DOMAIN kinds, id <= highest'
                 PROVE  Settled(id)' \/ kinds[id] = "edited"
        BY <1>1 DEF ConfirmedInv
    <2>1. CASE highest' = highest
        BY <2>1, <1>1 DEF ConfirmedInv, Settled
    <2>2. CASE Reply # <<>> /\ highest' = Last(Reply)
        BY <2>2, <1>1, ReplySettles DEF Settled
    <2> QED BY <1>1, <2>1, <2>2
<1>8. NoneLost'
    BY <1>1 DEF NoneLost
<1> QED BY <1>5, <1>6, <1>7, <1>8 DEF IInv

\* Everything in the reply of a long poll is later than what was reported.
LEMMA TakeUpdatesKeeps ==
    ASSUME TypeOK, OrderInv, ConfirmedInv, NoneLost, TakeUpdates
    PROVE  IInv'
<1>1. /\ worker = "long" /\ asked /\ asked' = FALSE /\ Readable
      /\ UNCHANGED <<build, updates, messages, sending, pending, allowed, kinds, done,
                     discarded, toBot>>
      /\ \/ UNCHANGED <<worker, highest, batch>>
         \/ /\ Reply # <<>> /\ highest' = Last(Reply)
            /\ batch' = Reply /\ worker' = "handling"
    BY DEF TakeUpdates, Received, sendVars, serverVars
<1>2. Increasing(pending) /\ batch = <<>>
    BY <1>1 DEF OrderInv, ConfirmedInv
<1>3. CASE UNCHANGED <<worker, highest, batch>>
    <2>1. TypeOK'
        BY <1>1, <1>3 DEF TypeOK, Connections
    <2>2. OrderInv'
        BY <1>1, <1>3 DEF OrderInv, Increasing, Before
    <2>3. ConfirmedInv' /\ NoneLost'
        BY <1>1, <1>3 DEF ConfirmedInv, Settled, NoneLost
    <2> QED BY <2>1, <2>2, <2>3 DEF IInv
<1>4. CASE Reply # <<>> /\ highest' = Last(Reply) /\ batch' = Reply /\ worker' = "handling"
    <2>1. /\ Reply \in Seq(1..Len(kinds)) /\ Increasing(Reply)
          /\ Last(Reply) \in 1..Len(kinds)
          /\ \A i \in 1..Len(Reply) : Reply[i] <= Last(Reply)
          /\ Len(Reply) \in 0..Len(pending)
          /\ \A i \in 1..Len(Reply) : Reply[i] = pending[i]
        BY <1>2, <1>4, ReplyIsPrefix
    <2>2. TypeOK'
        <3>1. Reply \in Seq(DOMAIN kinds) /\ Last(Reply) \in 0..Len(kinds)
            BY <2>1, TypeFacts
        <3> QED BY <1>1, <1>4, <3>1 DEF TypeOK, Connections
    <2>3. OrderInv'
        <3>1. Before(toBot, Reply)
            <4>1. \A i \in 1..Len(Reply) : i \in 1..Len(pending)
                BY <2>1, TypeFacts
            <4> QED BY <4>1, <2>1, <1>1 DEF OrderInv, Before
        <3>2. \A i \in 1..Len(pending), j \in 1..Len(toBot) :
                pending[i] > Last(Reply) => toBot[j] < pending[i]
            BY <1>1 DEF OrderInv
        <3> QED BY <3>1, <3>2, <2>1, <1>1, <1>4 DEF OrderInv, Increasing, Before
    <2>4. ConfirmedInv'
        <3>1. \A i \in 1..Len(Reply) : kinds[Reply[i]] # "other"
            BY <1>1 DEF Readable
        <3>2. ASSUME NEW id \in DOMAIN kinds, id <= Last(Reply)
              PROVE  Settled(id)' \/ kinds[id] = "edited"
            BY <3>2, <1>1, <1>2, <1>4, ReplySettles DEF Settled, ToSet
        <3> QED BY <3>1, <3>2, <1>1, <1>4 DEF ConfirmedInv
    <2>5. NoneLost'
        BY <1>1, <1>2, <1>4 DEF NoneLost, ToSet
    <2> QED BY <2>2, <2>3, <2>4, <2>5 DEF IInv
<1> QED BY <1>1, <1>3, <1>4

\* The first update of the batch is reported, dropped when it was edited, or left
\* there with the program.
LEMMA HandleUpdateKeeps ==
    ASSUME TypeOK, OrderInv, ConfirmedInv, NoneLost, HandleUpdate
    PROVE  IInv'
<1>1. /\ worker = "handling" /\ batch # <<>>
      /\ UNCHANGED <<build, asked, highest, updates, messages, sending, pending,
                     allowed, kinds, discarded, done>>
    BY DEF HandleUpdate, sendVars, serverVars, TypeOK
<1>2. asked = FALSE
    BY <1>1 DEF OrderInv, Polling, TypeOK
<1>3. CASE worker' = "crashed" /\ UNCHANGED <<batch, toBot>>
    <2>1. TypeOK'
        BY <1>1, <1>3 DEF TypeOK, Connections
    <2>2. OrderInv'
        BY <1>1, <1>2, <1>3 DEF OrderInv, Increasing
    <2>3. ConfirmedInv' /\ NoneLost'
        BY <1>1, <1>3 DEF ConfirmedInv, NoneLost
    <2> QED BY <2>1, <2>2, <2>3 DEF IInv
<1>4. CASE /\ kinds[Head(batch)] # "fatal"
           /\ Report(Head(batch)) /\ batch' = Tail(batch)
           /\ worker' = IF Tail(batch) = <<>> THEN "long" ELSE worker
    <2> DEFINE id == Head(batch)
    <2>1. /\ batch \in Seq(1..Len(kinds)) /\ toBot \in Seq(1..Len(kinds))
          /\ Len(batch) \in Nat \ {0} /\ Len(toBot) \in Nat
          /\ id = batch[1] /\ id \in 1..Len(kinds)
          /\ batch' \in Seq(1..Len(kinds)) /\ Len(batch') = Len(batch) - 1
          /\ \A i \in 1..Len(batch') : batch'[i] = batch[i + 1]
        BY <1>1, <1>4, TypeFacts, HeadTailProperties, EmptySeq
    <2>2. \/ toBot' = toBot
          \/ /\ toBot' = Append(toBot, id) /\ toBot' \in Seq(1..Len(kinds))
             /\ Len(toBot') = Len(toBot) + 1
             /\ \A i \in 1..Len(toBot) : toBot'[i] = toBot[i]
             /\ toBot'[Len(toBot) + 1] = id
        <3>1. toBot' = toBot \/ toBot' = Append(toBot, id)
            BY <1>4 DEF Report
        <3> HIDE DEF id
        <3>2. /\ Append(toBot, id) \in Seq(1..Len(kinds))
              /\ Len(Append(toBot, id)) = Len(toBot) + 1
              /\ \A i \in 1..Len(toBot) : Append(toBot, id)[i] = toBot[i]
              /\ Append(toBot, id)[Len(toBot) + 1] = id
            BY <2>1, AppendProperties
        <3> QED BY <3>1, <3>2
    <2>3. \A i \in 1..Len(toBot') :
            (i \in 1..Len(toBot) /\ toBot'[i] = toBot[i]) \/ (i = Len(toBot) + 1 /\ toBot'[i] = id)
        <3>1. Len(toBot) \in Nat
            BY <2>1
        <3> HIDE DEF id
        <3> QED BY <3>1, <2>2
    <2>4. \A i \in 1..Len(batch') : i + 1 \in 1..Len(batch) /\ 1 < i + 1
        BY <2>1
    <2>5. 1 \in 1..Len(batch)
        BY <2>1
    <2> HIDE DEF id
    <2>6. TypeOK'
        <3>1. toBot' \in Seq(1..Len(kinds))
            BY <2>1, <2>2
        <3>2. {batch', pending, toBot'} \subseteq Seq(DOMAIN kinds)
            BY <2>1, <3>1, TypeFacts
        <3>3. worker' \in {"long", "handling"} /\ (worker' = "handling" => batch' # <<>>)
            BY <1>1, <1>4
        <3> QED BY <1>1, <3>2, <3>3 DEF TypeOK, Connections
    <2>7. OrderInv'
        <3>1. Increasing(batch')
            <4>1. \A i, j \in 1..Len(batch') : i < j => i + 1 < j + 1
                BY <2>1
            <4> QED BY <4>1, <2>1, <2>4 DEF OrderInv, Increasing
        <3>2. \A i \in 1..Len(toBot) : toBot[i] < id
            BY <1>1, <2>1, <2>5 DEF OrderInv, Before
        <3>3. Increasing(toBot')
            <4> SUFFICES ASSUME NEW i \in 1..Len(toBot'), NEW j \in 1..Len(toBot'), i < j
                         PROVE  toBot'[i] < toBot'[j]
                BY DEF Increasing
            <4>1. i \in 1..Len(toBot) /\ toBot'[i] = toBot[i]
                BY <2>1, <2>2, <2>3
            <4> QED BY <4>1, <3>2, <2>3 DEF OrderInv, Increasing
        <3>4. Before(toBot', batch')
            <4>1. \A i \in 1..Len(batch') : id < batch'[i]
                BY <2>1, <2>4, <2>5 DEF OrderInv, Increasing
            <4>2. \A i \in 1..Len(batch'), j \in 1..Len(toBot) : toBot[j] < batch'[i]
                BY <1>1, <2>1, <2>4 DEF OrderInv, Before
            <4> QED BY <4>1, <4>2, <2>3 DEF Before
        <3>5. \A i \in 1..Len(batch') : batch'[i] <= highest
            BY <1>1, <2>1, <2>4 DEF OrderInv
        <3>6. \A i \in 1..Len(pending), j \in 1..Len(toBot') :
                pending[i] > highest => toBot'[j] < pending[i]
            <4> SUFFICES ASSUME NEW i \in 1..Len(pending), pending[i] > highest,
                                NEW j \in 1..Len(toBot')
                         PROVE  toBot'[j] < pending[i]
                OBVIOUS
            <4>1. id <= highest
                BY <1>1, <2>1, <2>5 DEF OrderInv
            <4>2. id < pending[i]
                <5>1. pending[i] \in Nat /\ highest \in Nat /\ id \in Nat
                    <6>1. pending[i] \in 1..Len(kinds) /\ highest \in Nat
                        BY TypeFacts
                    <6> QED BY <6>1, <2>1
                <5> QED BY <4>1, <5>1
            <4>3. j \in 1..Len(toBot) => toBot[j] < pending[i]
                BY <1>1 DEF OrderInv
            <4> QED BY <4>2, <4>3, <2>3
        <3>7. Increasing(pending)
            BY DEF OrderInv
        <3> QED BY <1>1, <1>2, <3>1, <3>3, <3>4, <3>5, <3>6, <3>7 DEF OrderInv, Increasing
    <2>8. kinds[id] = "edited" \/ toBot' = Append(toBot, id)
        <3>1. kinds[id] \in {"message", "unsigned", "fatal", "edited", "other"}
            BY <2>1, TypeFacts, ElementOfSeq, KindsAssumption
        <3>2. kinds[id] # "other" /\ kinds[id] # "fatal"
            BY <1>4, <2>1, <2>5 DEF ConfirmedInv, id
        <3> QED BY <3>1, <3>2, <1>4 DEF Report, id
    <2>9. ASSUME NEW n \in DOMAIN kinds, Settled(n)
          PROVE  Settled(n)' \/ kinds[n] = "edited"
        <3>1. CASE n \in discarded
            BY <3>1, <1>1 DEF Settled
        <3>2. CASE n \in ToSet(toBot)
            <4>1. PICK i \in 1..Len(toBot) : n = toBot[i]
                BY <3>2, <2>1, Members
            <4>2. i \in 1..Len(toBot') /\ toBot'[i] = n
                BY <4>1, <2>1, <2>2
            <4>3. n \in ToSet(toBot')
                BY <4>2, <2>1, <2>2, Members
            <4> QED BY <4>3 DEF Settled
        <3>3. CASE n \in ToSet(batch)
            <4>1. PICK i \in 1..Len(batch) : n = batch[i]
                BY <3>3, <2>1, Members
            <4>2. CASE i = 1
                <5>1. CASE toBot' = Append(toBot, id)
                    <6>1. Len(toBot) + 1 \in 1..Len(toBot') /\ toBot'[Len(toBot) + 1] = id
                          /\ toBot' \in Seq(1..Len(kinds))
                        BY <5>1, <2>1, AppendProperties
                    <6>2. id \in ToSet(toBot')
                        BY <6>1, Members
                    <6> QED BY <6>2, <4>1, <4>2, <2>1 DEF Settled
                <5> QED BY <5>1, <4>1, <4>2, <2>1, <2>8
            <4>3. CASE i # 1
                <5>1. i - 1 \in 1..Len(batch') /\ (i - 1) + 1 = i
                    BY <4>1, <4>3, <2>1
                <5>2. batch'[i - 1] = n
                    BY <5>1, <4>1, <2>1
                <5>3. n \in ToSet(batch')
                    BY <5>1, <5>2, <2>1, Members
                <5> QED BY <5>3 DEF Settled
            <4> QED BY <4>2, <4>3
        <3> QED BY <3>1, <3>2, <3>3, <2>9 DEF Settled
    <2>10. ConfirmedInv'
        <3>1. \A i \in 1..Len(batch') : kinds[batch'[i]] # "other"
            BY <2>1, <2>4 DEF ConfirmedInv
        <3>2. worker' # "handling" => batch' = <<>>
            BY <1>1, <1>4
        <3>3. ASSUME NEW n \in DOMAIN kinds, n <= highest
              PROVE  Settled(n)' \/ kinds[n] = "edited"
            BY <1>1, <2>9, <3>3 DEF ConfirmedInv
        <3> QED BY <3>1, <3>2, <3>3, <1>1 DEF ConfirmedInv
    <2>11. NoneLost'
        <3> SUFFICES ASSUME NEW n \in DOMAIN kinds
                     PROVE  n \in ToSet(pending) \/ Settled(n)' \/ kinds[n] = "edited"
            BY <1>1 DEF NoneLost, Settled
        <3>1. n \in ToSet(pending) \/ Settled(n) \/ kinds[n] = "edited"
            BY DEF NoneLost, Settled
        <3> QED BY <3>1, <2>9
    <2> QED BY <2>6, <2>7, <2>10, <2>11 DEF IInv
<1> QED BY <1>3, <1>4 DEF HandleUpdate

\* What happens is later than everything the client has seen.
LEMMA SomethingHappensKeeps ==
    ASSUME TypeOK, OrderInv, ConfirmedInv, NoneLost, SomethingHappens
    PROVE  IInv'
<1>1. /\ Len(kinds) < MaxUpdates
      /\ UNCHANGED <<build, worker, asked, highest, batch, updates, messages, sending,
                     allowed, discarded, toBot, done>>
      /\ \E kind \in Kinds : kinds' = Append(kinds, kind)
      /\ pending' = Append(pending, Len(kinds'))
    BY DEF SomethingHappens, sendVars
<1> DEFINE new == Len(kinds) + 1
<1>2. /\ kinds' \in Seq(Kinds) /\ Len(kinds') = new /\ DOMAIN kinds' = 1..new
      /\ \A id \in 1..Len(kinds) : kinds'[id] = kinds[id]
    <2>1. PICK kind \in Kinds : kinds' = Append(kinds, kind)
        BY <1>1
    <2>2. /\ kinds' \in Seq(Kinds) /\ Len(kinds') = new
          /\ \A id \in 1..Len(kinds) : kinds'[id] = kinds[id]
        BY <2>1, TypeFacts, AppendProperties
    <2> QED BY <2>2, LenProperties
<1>3. new \in 1..new /\ 1..Len(kinds) \subseteq 1..new /\ new \in Nat
    BY TypeFacts
<1>4. /\ pending \in Seq(1..new) /\ batch \in Seq(1..new) /\ toBot \in Seq(1..new)
    BY <1>3, TypeFacts, SeqMonotonic
<1>5. /\ pending' \in Seq(1..new)
      /\ Len(pending') = Len(pending) + 1
      /\ \A i \in 1..Len(pending) : pending'[i] = pending[i]
      /\ pending'[Len(pending) + 1] = new
    BY <1>1, <1>2, <1>3, <1>4, AppendProperties
<1>6. \A i \in 1..Len(pending') :
        \/ i \in 1..Len(pending) /\ pending'[i] = pending[i]
        \/ i = Len(pending) + 1 /\ pending'[i] = new
    BY <1>5, TypeFacts
<1> HIDE DEF new
<1>7. TypeOK'
    <2>1. {batch, pending', toBot} \subseteq Seq(DOMAIN kinds')
        BY <1>2, <1>4, <1>5
    <2>2. highest \in 0..Len(kinds') /\ Len(kinds') <= MaxUpdates
        BY <1>1, <1>2, <1>3, TypeFacts, BoundsAssumption DEF TypeOK, new
    <2>3. discarded \subseteq DOMAIN kinds'
        BY <1>2, <1>3, TypeFacts DEF TypeOK
    <2> QED BY <1>1, <1>2, <2>1, <2>2, <2>3 DEF TypeOK, Connections
<1>8. OrderInv'
    <2>1. \A i \in 1..Len(pending) : pending[i] < new
        BY TypeFacts DEF new
    <2>2. \A i \in 1..Len(toBot) : toBot[i] < new
        BY TypeFacts DEF new
    <2>3. Increasing(pending')
        <3> SUFFICES ASSUME NEW i \in 1..Len(pending'), NEW j \in 1..Len(pending'), i < j
                     PROVE  pending'[i] < pending'[j]
            BY DEF Increasing
        <3>1. i \in 1..Len(pending) /\ pending'[i] = pending[i]
            BY <1>5, <1>6, TypeFacts
        <3> QED BY <3>1, <2>1, <1>6 DEF OrderInv, Increasing
    <2>4. asked => Polling /\ \A i \in 1..Len(pending') : pending'[i] > highest
        <3>1. new > highest
            <4>1. highest \in 0..Len(kinds) /\ Len(kinds) \in Nat
                BY TypeFacts DEF TypeOK
            <4> QED BY <4>1 DEF new
        <3> QED BY <3>1, <1>6 DEF OrderInv
    <2>5. worker \in {"long", "handling"} =>
            \A i \in 1..Len(pending'), j \in 1..Len(toBot) :
                pending'[i] > highest => toBot[j] < pending'[i]
        BY <2>2, <1>6 DEF OrderInv
    <2> QED BY <1>1, <2>3, <2>4, <2>5 DEF OrderInv, Increasing, Before, Polling
<1>9. ConfirmedInv'
    <2>1. \A i \in 1..Len(batch) : kinds'[batch[i]] # "other"
        BY <1>2, TypeFacts DEF ConfirmedInv
    <2>2. ASSUME NEW id \in DOMAIN kinds', id <= highest
          PROVE  id \in DOMAIN kinds /\ kinds'[id] = kinds[id]
        <3>1. highest \in 0..Len(kinds) /\ Len(kinds) \in Nat
            BY TypeFacts DEF TypeOK
        <3> QED BY <2>2, <3>1, <1>2, <1>3, TypeFacts
    <2> QED BY <1>1, <2>1, <2>2 DEF ConfirmedInv, Settled
<1>10. NoneLost'
    <2> SUFFICES ASSUME NEW id \in DOMAIN kinds'
                 PROVE  id \in ToSet(pending') \/ Settled(id) \/ kinds'[id] = "edited"
        BY <1>1 DEF NoneLost, Settled
    <2>1. CASE id = new
        <3>1. Len(pending) + 1 \in 1..Len(pending')
            BY <1>5, TypeFacts
        <3>2. new \in ToSet(pending')
            BY <3>1, <1>5, Members
        <3> QED BY <2>1, <3>2
    <2>2. CASE id # new
        <3>1. id \in DOMAIN kinds /\ kinds'[id] = kinds[id]
            BY <2>2, <1>2, TypeFacts DEF new
        <3>2. ToSet(pending) \subseteq ToSet(pending')
            <4>1. \A i \in 1..Len(pending) : i \in 1..Len(pending')
                BY <1>5, TypeFacts
            <4> QED BY <4>1, <1>4, <1>5, Members
        <3> QED BY <3>1, <3>2 DEF NoneLost, Settled
    <2> QED BY <2>1, <2>2
<1> QED BY <1>7, <1>8, <1>9, <1>10 DEF IInv

-----------------------------------------------------------------------------
LEMMA NextKeeps == IInv /\ [Next]_vars => IInv'
<1> SUFFICES ASSUME TypeOK, OrderInv, ConfirmedInv, NoneLost, [Next]_vars
             PROVE  IInv'
    BY DEF IInv
<1>1. CASE InitConnection
    BY <1>1, InitConnectionKeeps
<1>2. CASE InitUpdateConnection
    BY <1>2, InitUpdateConnectionKeeps
<1>3. CASE Poll
    BY <1>3, PollKeeps
<1>4. CASE PollOnLostConnection
    BY <1>4, PollOnLostConnectionKeeps
<1>5. CASE ReplyIsRefused
    BY <1>5, ReplyIsRefusedKeeps
<1>6. CASE DiscardBacklog
    BY <1>6, DiscardBacklogKeeps
<1>7. CASE TakeUpdates
    BY <1>7, TakeUpdatesKeeps
<1>8. CASE HandleUpdate
    BY <1>8, HandleUpdateKeeps
<1>9. CASE Reconnect
    BY <1>9, ReconnectKeeps
<1>10. CASE PollFails
    BY <1>10, PollFailsKeeps
<1>11. CASE HandleOutgoing \/ SendReturns
    BY <1>11, SendingKeeps
<1>12. CASE SomethingHappens
    BY <1>12, SomethingHappensKeeps
<1>13. CASE UNCHANGED vars
    <2>1. TypeOK'
        BY <1>13 DEF vars, TypeOK, Connections
    <2>2. OrderInv' /\ ConfirmedInv' /\ NoneLost'
        BY <1>13, SameUpdates DEF vars
    <2> QED BY <2>1, <2>2 DEF IInv
<1> QED
    BY <1>1, <1>2, <1>3, <1>4, <1>5, <1>6, <1>7, <1>8, <1>9, <1>10, <1>11, <1>12, <1>13
    DEF Next, Worker

LEMMA Invariant == Spec => []IInv
BY InitHolds, NextKeeps, PTL DEF Spec

\* Every variable of the client and of its server keeps its type.
THEOREM ClientTypes == Spec => []TypeOK
<1>1. IInv => TypeOK
    BY DEF IInv
<1> QED BY <1>1, Invariant, PTL

\* No update is reported twice or after a later one, through every error and every
\* new start from offset one (worker, worker_inner).
THEOREM UpdatesInOrder == Spec => []ReportedInOrder
<1>1. IInv => ReportedInOrder
    BY DEF IInv, OrderInv, Increasing, ReportedInOrder
<1> QED BY <1>1, Invariant, PTL

\* What the server has forgotten is with the bot, on its way there, discarded by a
\* short poll, or was an edited message (get_updates, handle_update).
THEOREM NoUpdateLost == Spec => []NoneLost
<1>1. IInv => NoneLost
    BY DEF IInv
<1> QED BY <1>1, Invariant, PTL

-----------------------------------------------------------------------------
\* A step that takes nothing new in keeps what is in hand and behind the offset.
LEMMA DiscardedStays ==
    ASSUME DiscardedInv, discarded' = discarded,
           worker' \in {"long", "handling"} =>
                worker = worker' /\ UNCHANGED <<batch, highest, pending>>
    PROVE  DiscardedInv'
BY DEF DiscardedInv

\* An offset leaves behind only what the server kept.
LEMMA PollKeepsDiscarded ==
    ASSUME TypeOK, OrderInv, DiscardedInv, Poll
    PROVE  DiscardedInv'
<1>1. /\ Polling /\ Confirm(highest + 1) /\ Increasing(pending)
      /\ UNCHANGED <<worker, highest, batch, discarded>>
    BY DEF Poll, OrderInv
<1>2. \A i \in 1..Len(pending') : \E j \in 1..Len(pending) : pending'[i] = pending[j]
    BY <1>1, TypeFacts, ConfirmKeepsRest
<1> QED BY <1>1, <1>2 DEF DiscardedInv, Polling

\* The long polls begin when the server has nothing left.
LEMMA DiscardBacklogKeepsDiscarded ==
    ASSUME TypeOK, OrderInv, DiscardBacklog
    PROVE  DiscardedInv'
<1>1. /\ pending' = pending
      /\ \/ Reply = <<>> /\ worker' = "long"
         \/ worker' = "short"
    BY DEF DiscardBacklog, Received, serverVars
<1>2. CASE Reply = <<>> /\ worker' = "long"
    <2>1. Len(pending) = 0
        BY <1>2, ReplyIsPrefix, EmptySeq DEF OrderInv
    <2> QED BY <1>1, <1>2, <2>1 DEF DiscardedInv
<1>3. CASE worker' = "short"
    BY <1>3 DEF DiscardedInv
<1> QED BY <1>1, <1>2, <1>3

\* The reply to a long poll is behind its offset.
LEMMA TakeUpdatesKeepsDiscarded ==
    ASSUME TypeOK, OrderInv, DiscardedInv, TakeUpdates
    PROVE  DiscardedInv'
<1>1. /\ worker = "long" /\ asked
      /\ UNCHANGED <<pending, discarded>>
      /\ \/ UNCHANGED <<worker, highest, batch>>
         \/ Reply # <<>> /\ highest' = Last(Reply) /\ batch' = Reply /\ worker' = "handling"
    BY DEF TakeUpdates, Received, serverVars
<1>2. \A i \in 1..Len(pending) : pending[i] > highest /\ pending[i] \notin discarded
    BY <1>1 DEF OrderInv, DiscardedInv
<1>3. Len(Reply) \in 0..Len(pending) /\ \A i \in 1..Len(Reply) : Reply[i] = pending[i]
    BY ReplyIsPrefix DEF OrderInv
<1>4. \A i \in 1..Len(Reply) : Reply[i] \notin discarded
    BY <1>2, <1>3, TypeFacts
<1> QED BY <1>1, <1>2, <1>4 DEF DiscardedInv

LEMMA HandleUpdateKeepsDiscarded ==
    ASSUME TypeOK, DiscardedInv, HandleUpdate
    PROVE  DiscardedInv'
<1>1. /\ worker = "handling" /\ batch # <<>>
      /\ UNCHANGED <<highest, pending, discarded>>
      /\ batch' = Tail(batch) \/ worker' = "crashed"
    BY DEF HandleUpdate, serverVars, TypeOK
<1>2. CASE worker' = "crashed"
    BY <1>2 DEF DiscardedInv
<1>3. CASE batch' = Tail(batch)
    <2>1. /\ Len(batch') = Len(batch) - 1 /\ Len(batch) \in Nat
          /\ \A i \in 1..Len(batch') : batch'[i] = batch[i + 1]
        BY <1>1, <1>3, TypeFacts, HeadTailProperties
    <2>2. \A i \in 1..Len(batch') : batch'[i] \notin discarded
        BY <1>1, <2>1 DEF DiscardedInv
    <2> QED BY <1>1, <2>2 DEF DiscardedInv
<1> QED BY <1>1, <1>2, <1>3

\* What happens is none of the updates there were.
LEMMA SomethingHappensKeepsDiscarded ==
    ASSUME TypeOK, DiscardedInv, SomethingHappens
    PROVE  DiscardedInv'
<1>1. /\ UNCHANGED <<worker, highest, batch, discarded>>
      /\ Len(kinds') = Len(kinds) + 1
      /\ pending' = Append(pending, Len(kinds'))
    <2>1. PICK kind \in Kinds : kinds' = Append(kinds, kind)
        BY DEF SomethingHappens
    <2>2. Len(kinds') = Len(kinds) + 1
        BY <2>1, TypeFacts, AppendProperties
    <2> QED BY <2>2 DEF SomethingHappens
<1>2. Len(kinds) + 1 \notin discarded
    BY TypeFacts DEF TypeOK
<1>3. \A i \in 1..Len(pending') :
        \/ i \in 1..Len(pending) /\ pending'[i] = pending[i]
        \/ pending'[i] = Len(kinds) + 1
    <2>1. pending \in Seq(Nat) /\ Len(kinds) + 1 \in Nat /\ Len(pending) \in Nat
        <3>1. 1..Len(kinds) \subseteq Nat
            BY TypeFacts
        <3> QED BY <3>1, TypeFacts, SeqMonotonic
    <2> QED BY <1>1, <2>1, AppendProperties
<1> QED BY <1>1, <1>2, <1>3 DEF DiscardedInv

LEMMA NextKeepsDiscarded == IInv /\ DiscardedInv /\ [Next]_vars => DiscardedInv'
<1> SUFFICES ASSUME TypeOK, OrderInv, DiscardedInv, [Next]_vars
             PROVE  DiscardedInv'
    BY DEF IInv
<1>1. CASE InitConnection
    BY <1>1, DiscardedStays DEF InitConnection
<1>2. CASE InitUpdateConnection
    BY <1>2, DiscardedStays DEF InitUpdateConnection
<1>3. CASE Poll
    BY <1>3, PollKeepsDiscarded
<1>4. CASE EndWithError
    BY <1>4, DiscardedStays DEF EndWithError
<1>5. CASE DiscardBacklog
    BY <1>5, DiscardBacklogKeepsDiscarded
<1>6. CASE TakeUpdates
    BY <1>6, TakeUpdatesKeepsDiscarded
<1>7. CASE HandleUpdate
    BY <1>7, HandleUpdateKeepsDiscarded
<1>8. CASE Reconnect
    BY <1>8, DiscardedStays DEF Reconnect
<1>9. CASE HandleOutgoing \/ SendReturns
    BY <1>9, DiscardedStays DEF HandleOutgoing, SendReturns, serverVars
<1>10. CASE SomethingHappens
    BY <1>10, SomethingHappensKeepsDiscarded
<1>11. CASE UNCHANGED vars
    BY <1>11, DiscardedStays DEF vars
<1> QED
    BY <1>1, <1>2, <1>3, <1>4, <1>5, <1>6, <1>7, <1>8, <1>9, <1>10, <1>11
    DEF Next, Worker, PollOnLostConnection, ReplyIsRefused, PollFails

\* What is added to the reports comes from the batch.
LEMMA ReportsNothingDiscarded ==
    ASSUME TypeOK, DiscardedInv, [Next]_vars,
           NEW id \in discarded, id \in ToSet(toBot')
    PROVE  id \in ToSet(toBot)
<1>1. CASE toBot' = toBot
    BY <1>1
<1>2. CASE HandleUpdate /\ toBot' = Append(toBot, Head(batch))
    <2>1. /\ toBot \in Seq(1..Len(kinds)) /\ Len(toBot) \in Nat
          /\ Len(batch) \in Nat \ {0} /\ Head(batch) = batch[1]
          /\ Head(batch) \in 1..Len(kinds) /\ worker = "handling"
        BY <1>2, TypeFacts, HeadTailProperties, EmptySeq DEF HandleUpdate, TypeOK
    <2>2. Head(batch) \notin discarded
        BY <2>1 DEF DiscardedInv
    <2>3. PICK i \in 1..Len(toBot') : id = toBot'[i]
        <3>1. toBot' \in Seq(1..Len(kinds))
            BY <1>2, <2>1, AppendProperties
        <3>2. ToSet(toBot') = {toBot'[i] : i \in 1..Len(toBot')}
            BY <3>1, Members
        <3> QED BY <3>2
    <2>4. i \in 1..Len(toBot) /\ toBot'[i] = toBot[i]
        BY <1>2, <2>1, <2>2, <2>3, AppendProperties
    <2> QED BY <2>1, <2>3, <2>4, Members
<1>3. toBot' = toBot \/ (HandleUpdate /\ toBot' = Append(toBot, Head(batch)))
    BY DEF vars, Next, Worker, InitConnection, InitUpdateConnection, Poll,
           PollOnLostConnection, ReplyIsRefused, EndWithError, DiscardBacklog, TakeUpdates,
           HandleUpdate, Report, Reconnect, PollFails, HandleOutgoing, SendReturns,
           SomethingHappens
<1> QED BY <1>1, <1>2, <1>3

\* No update that a short poll threw away is reported later, through every error and
\* every new start (worker_inner).
THEOREM NoDiscardedReported == Spec => DiscardedForGood
<1>1. Init => DiscardedInv
    BY DEF Init, DiscardedInv
<1>2. IInv /\ DiscardedInv /\ [Next]_vars
        => [\A id \in discarded : id \in ToSet(toBot') => id \in ToSet(toBot)]_vars
    BY ReportsNothingDiscarded DEF IInv
<1> QED BY <1>1, <1>2, Invariant, NextKeepsDiscarded, PTL DEF Spec, DiscardedForGood

=============================================================================
