--------------------------- MODULE MessageChannel ---------------------------
(***************************************************************************)
(* The channel of messages between the coroutines of the bot:              *)
(* boost::asio::experimental::concurrent_channel with one receiver, as     *)
(* bot.cpp uses it (bot::m_message_channel).  It is a library, so these    *)
(* are constant operators on a channel value and not a state machine.      *)
(*                                                                         *)
(*   buffer   messages in the channel, at most Capacity                    *)
(*   senders  suspended async_send operations, oldest first: the message   *)
(*            and the coroutine that waits                                 *)
(*   waiting  TRUE while the receiver is suspended in async_receive        *)
(*   handed   the message that completed that async_receive, while the     *)
(*            receiver has not been resumed: it is in no slot of the       *)
(*            buffer, so Capacity + 1 messages can be ahead of a sender    *)
(*   open     is_open()                                                    *)
(***************************************************************************)
EXTENDS Naturals, Sequences

CONSTANT Capacity      \* the number of slots of the buffer (32 in bot.hpp)

ASSUME CapacityAssumption == Capacity \in Nat \ {0}

\* The channels for messages in M and coroutines in C.
Channel(M, C) ==
    [buffer  : Seq(M),
     senders : Seq([msg : M, by : C]),
     waiting : BOOLEAN,
     handed  : Seq(M),
     open    : BOOLEAN]

NewChannel ==
    [buffer  |-> <<>>,
     senders |-> <<>>,
     waiting |-> FALSE,
     handed  |-> <<>>,
     open    |-> TRUE]

\* `coroutine` is suspended in async_send.
Sending(ch, coroutine) ==
    \E i \in 1..Len(ch.senders) : ch.senders[i].by = coroutine

-----------------------------------------------------------------------------
\* A message that finds no room is dropped (try_send with no async_send after it).
SendOrDrop(ch, m, coroutine) ==
    IF ~ch.open THEN ch
    ELSE IF ch.waiting THEN [ch EXCEPT !.waiting = FALSE, !.handed = <<m>>]
    ELSE IF Len(ch.buffer) < Capacity
         THEN [ch EXCEPT !.buffer = Append(@, m)]
         ELSE ch

-----------------------------------------------------------------------------
\* try_send and, when that fails, async_send: what queue_message does with a
\* message.  On a closed channel both fail and the message is gone.
Send(ch, m, coroutine) ==
    IF ~ch.open THEN ch
    ELSE IF ch.waiting THEN [ch EXCEPT !.waiting = FALSE, !.handed = <<m>>]
    ELSE IF Len(ch.buffer) < Capacity
         THEN [ch EXCEPT !.buffer = Append(@, m)]
         ELSE [ch EXCEPT !.senders = Append(@, [msg |-> m, by |-> coroutine])]

\* async_receive with a message in the buffer: the oldest suspended sender
\* completes into the slot that is freed.
Receive(ch) ==
    IF ch.senders = <<>>
    THEN [ch EXCEPT !.buffer = Tail(@)]
    ELSE [ch EXCEPT !.buffer = Append(Tail(@), Head(ch.senders).msg),
                    !.senders = Tail(@)]

\* async_receive with nothing to receive.
AwaitMessage(ch) == [ch EXCEPT !.waiting = TRUE]

\* The suspended receiver is resumed with the message handed to it.
Resume(ch) == [ch EXCEPT !.handed = <<>>]

\* close(): what was accepted before, suspended senders included, is still
\* received.  The bot closes the channel from the coroutine that receives, so
\* no receiver is suspended at that point.
Close(ch) == [ch EXCEPT !.open = FALSE]

\* Everything accepted and not yet received, oldest first.
Pending(ch) ==
    ch.handed \o ch.buffer \o [i \in 1..Len(ch.senders) |-> ch.senders[i].msg]

=============================================================================
