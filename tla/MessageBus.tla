----------------------------- MODULE MessageBus -----------------------------
(***************************************************************************)
(* What the bot promises about its message queue, whatever the capacity of *)
(* the channel, the number of senders and the way they are blocked:        *)
(*                                                                         *)
(*   - a message gets the next serial number when it is queued             *)
(*     (bot::queue_message);                                               *)
(*   - messages are handled in the order of their serials, each at most    *)
(*     once (bot::run);                                                    *)
(*   - a message is lost only when it is queued after an exit message      *)
(*     closed the queue.                                                   *)
(*                                                                         *)
(* A message is represented by its serial number.                          *)
(***************************************************************************)
EXTENDS Naturals, Sequences

VARIABLES
    queue,    \* serials of the messages queued and not yet received
    next,     \* the serial the next message gets
    last,     \* the serial of the message received last, 0 when there is none
    open      \* FALSE once an exit message has been handled

vars == <<queue, next, last, open>>

Init ==
    /\ queue = <<>>
    /\ next = 1
    /\ last = 0
    /\ open = TRUE

\* queue_message: the serial is taken whether or not the message gets through.
Queue ==
    /\ open
    /\ queue' = Append(queue, next)
    /\ next' = next + 1
    /\ UNCHANGED <<last, open>>

Lose ==
    /\ ~open
    /\ next' = next + 1
    /\ UNCHANGED <<queue, last, open>>

\* run: the oldest message leaves the queue to be handled.
Take ==
    /\ queue # <<>>
    /\ last' = Head(queue)
    /\ queue' = Tail(queue)
    /\ UNCHANGED <<next, open>>

\* payloads::exit handled: nothing is accepted any more, what is queued stays.
Close ==
    /\ open
    /\ open' = FALSE
    /\ UNCHANGED <<queue, next, last>>

Next == Queue \/ Lose \/ Take \/ Close

Spec == Init /\ [][Next]_vars

-----------------------------------------------------------------------------
TypeOK ==
    /\ queue \in Seq(Nat)
    /\ next \in Nat
    /\ last \in Nat
    /\ open \in BOOLEAN

\* The serials in the queue are increasing, newer than the last one received
\* and older than the next one given: no message is handled twice or overtaken.
Ordered ==
    /\ last < next
    /\ \A i \in 1..Len(queue) : last < queue[i] /\ queue[i] < next
    /\ \A i, j \in 1..Len(queue) : i < j => queue[i] < queue[j]

\* While the queue is open it holds every serial given since the last one
\* received, without a gap: no message is lost.
NoneLost ==
    open => /\ Len(queue) = next - 1 - last
            /\ \A i \in 1..Len(queue) : queue[i] = last + i

=============================================================================
