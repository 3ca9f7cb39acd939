------------------------------- MODULE TcpThing -------------------------------
(***************************************************************************)
(* things::tcp_thing: every outgoing message the bot hands to it goes to   *)
(* every connected client, as a header with the size of the content and    *)
(* then the content.  A client has a bounded queue, which handle fills     *)
(* without waiting, and a coroutine that empties it into the socket.  The  *)
(* coroutine does not look at how much a send wrote; an error is thrown    *)
(* and ends it, while its client stays in the list with its queue.         *)
(*                                                                         *)
(* A byte on the wire is the number of its message and its place in the    *)
(* frame.  Which end of a connection closes is up to its surroundings.     *)
(***************************************************************************)
EXTENDS Naturals, Sequences, FiniteSets, SequencesExt

CONSTANTS
    Connections,    \* the connections there can be
    Capacity,       \* of the queue of a client, 16
    HeaderSize,     \* bytes of a header, 4
    Contents,       \* the sizes of the messages the bot hands over
    WireSize,       \* bytes that fit between the two ends of a connection
    MaxStarts       \* how often the bot starts again

ASSUME CapacityAssumption == Capacity \in Nat
ASSUME SizesAssumption ==
    HeaderSize \in Nat \ {0} /\ WireSize \in Nat \ {0}
ASSUME TrafficAssumption == Contents \in Seq(Nat) /\ MaxStarts \in Nat

VARIABLES
    up,         \* the bot runs and the acceptor listens
    starts,     \* how often it was started
    handed,     \* how many messages were handed over so far
    stage,      \* where client_worker of a connection is
    hand,       \* the message it has in hand
    queue,      \* m_chan of a connection
    wire,       \* what was written to the socket and is not read
    gone,       \* connections whose other end was closed
    accepted,   \* what try_send took for a connection
    cut         \* connections on which a send or a receive moved less than asked

thingVars == <<up, starts, handed, stage, hand, queue, wire, gone, accepted, cut>>

\* A failed client_worker has ended with an exception that nobody sees.
Stages == {"none", "backlog", "receive", "header", "content", "failed", "closed"}

\* The clients in m_clients: none is ever taken out.
Clients == {c \in Connections : stage[c] \in {"receive", "header", "content", "failed"}}

ThingInit ==
    /\ up \in BOOLEAN /\ starts = 0
    /\ handed = 0
    /\ stage = [c \in Connections |-> "none"]
    /\ hand = [c \in Connections |-> 0]
    /\ queue = [c \in Connections |-> <<>>]
    /\ wire = [c \in Connections |-> <<>>]
    /\ gone = {} /\ cut = {}
    /\ accepted = [c \in Connections |-> <<>>]

-----------------------------------------------------------------------------
Header(m) == [k \in 1..HeaderSize |-> <<m, k>>]

Content(m) == [k \in 1..Contents[m] |-> <<m, HeaderSize + k>>]

\* The operating system takes a new connection before the acceptor sees it.
Arrives(c) == stage[c] = "none" /\ stage' = [stage EXCEPT ![c] = "backlog"]

\* worker: the client is registered by a coroutine of its own.  (When async_accept
\* fails the worker warns and calls it again, and nothing changes.)
Accept(c) ==
    /\ up /\ stage[c] = "backlog"
    /\ stage' = [stage EXCEPT ![c] = "receive"]
    /\ UNCHANGED <<up, starts, handed, hand, queue, wire, gone, accepted, cut>>

\* remote_endpoint throws when the other end is gone: the socket is closed with the
\* coroutine, before the client is registered.
AcceptTooLate(c) ==
    /\ up /\ stage[c] = "backlog"
    /\ c \in gone
    /\ stage' = [stage EXCEPT ![c] = "closed"]
    /\ UNCHANGED <<up, starts, handed, hand, queue, wire, gone, accepted, cut>>

-----------------------------------------------------------------------------
\* handle

\* An empty queue is taken for a coroutine that waits.
WaitsWhenEmpty(c) == queue[c] = <<>>

\* A client whose coroutine waits gets the message from try_send.
Waits(c) == stage[c] = "receive"

\* The size of the queue is not looked at.
HasRoomAlways(c) == TRUE

HasRoom(c) == Waits(c) \/ Len(queue[c]) < Capacity

\* try_send to every client; for one without room the message is dropped.
Handle ==
    LET m     == handed + 1
        takes == {c \in Clients : HasRoom(c)}
    IN  /\ up /\ m \in DOMAIN Contents
        /\ handed' = m
        /\ stage' = [c \in Connections |-> IF c \in takes /\ Waits(c) THEN "header" ELSE stage[c]]
        /\ hand' = [c \in Connections |-> IF c \in takes /\ Waits(c) THEN m ELSE hand[c]]
        /\ queue' = [c \in Connections |->
                        IF c \in takes /\ ~Waits(c) THEN Append(queue[c], m) ELSE queue[c]]
        /\ accepted' = [c \in Connections |->
                           IF c \in takes THEN Append(accepted[c], m) ELSE accepted[c]]
        /\ UNCHANGED <<up, starts, wire, gone, cut>>

-----------------------------------------------------------------------------
\* client_worker

\* async_send writes what there is room for; how much that was is not looked at.  To an
\* end that has closed it writes in vain, as long as the system has not heard of it.
Send(c, bytes) ==
    IF c \in gone \/ bytes = <<>> THEN UNCHANGED <<wire, cut>>
    ELSE LET room == WireSize - Len(wire[c])
         IN  /\ room > 0
             /\ wire' = [wire EXCEPT ![c] = @ \o (IF Len(bytes) <= room THEN bytes
                                                  ELSE SubSeq(bytes, 1, room))]
             /\ cut' = IF Len(bytes) <= room THEN cut ELSE cut \cup {c}

SendHeader(c) ==
    /\ stage[c] = "header"
    /\ Send(c, Header(hand[c]))
    /\ stage' = [stage EXCEPT ![c] = "content"]
    /\ UNCHANGED <<up, starts, handed, hand, queue, gone, accepted>>

\* The next message is waited for, whatever is in the queue.
AwaitNextMessage(c) ==
    /\ stage' = [stage EXCEPT ![c] = "receive"]
    /\ hand' = [hand EXCEPT ![c] = 0]
    /\ UNCHANGED queue

\* async_receive of the queue.
ReceiveMessage(c) ==
    IF queue[c] = <<>> THEN AwaitNextMessage(c)
    ELSE /\ stage' = [stage EXCEPT ![c] = "header"]
         /\ hand' = [hand EXCEPT ![c] = Head(queue[c])]
         /\ queue' = [queue EXCEPT ![c] = Tail(@)]

SendContent(c) ==
    /\ stage[c] = "content"
    /\ Send(c, Content(hand[c]))
    /\ ReceiveMessage(c)
    /\ UNCHANGED <<up, starts, handed, gone, accepted>>

\* The system has heard: async_send throws.  Sending nothing cannot fail.
SendFails(c) ==
    /\ c \in gone
    /\ stage[c] = "header" \/ (stage[c] = "content" /\ Content(hand[c]) # <<>>)
    /\ stage' = [stage EXCEPT ![c] = "failed"]
    /\ hand' = [hand EXCEPT ![c] = 0]
    /\ UNCHANGED <<up, starts, handed, queue, wire, gone, accepted, cut>>

-----------------------------------------------------------------------------
\* The bot ends, by itself or not, and is started again with no clients.
BotEnds ==
    /\ up /\ up' = FALSE
    /\ stage' = [c \in Connections |-> IF stage[c] = "none" THEN "none" ELSE "closed"]
    /\ hand' = [c \in Connections |-> 0]
    /\ queue' = [c \in Connections |-> <<>>]
    /\ UNCHANGED <<starts, handed, wire, gone, accepted, cut>>

BotStarts ==
    /\ ~up /\ up' = TRUE
    /\ starts < MaxStarts /\ starts' = starts + 1
    /\ UNCHANGED <<handed, stage, hand, queue, wire, gone, accepted, cut>>

\* The coroutines of the thing.
Worker(c) ==
    \/ Accept(c) \/ AcceptTooLate(c)
    \/ SendHeader(c) \/ SendContent(c) \/ SendFails(c)

ThingNext ==
    \/ \E c \in Connections : Worker(c)
    \/ Handle
    \/ BotEnds \/ BotStarts

ThingTypeOK ==
    /\ up \in BOOLEAN /\ starts \in 0..MaxStarts
    /\ handed \in 0..Len(Contents)
    /\ stage \in [Connections -> Stages]
    /\ hand \in [Connections -> 0..handed]
    /\ queue \in [Connections -> Seq(1..handed)]
    /\ wire \in [Connections -> Seq((1..handed) \X Nat)]
    /\ accepted \in [Connections -> Seq(1..handed)]
    /\ \A c \in Connections : Len(queue[c]) <= Capacity /\ Len(wire[c]) <= WireSize
    /\ gone \subseteq Connections /\ cut \subseteq Connections

=============================================================================
