----------------------------- MODULE TerminalSink -----------------------------
(***************************************************************************)
(* terminal_sink: a program of its own that connects to the tcp_thing of   *)
(* the bot and shows what it sends, line by line; together with the thing. *)
(*                                                                         *)
(* Its socket is closed only by an interrupt.  One that was connected is   *)
(* not connected again, and connecting opens one that is closed.           *)
(***************************************************************************)
EXTENDS TcpThing

VARIABLES
    where,      \* where tcp_worker is; "waiting" and "ending" are its two timers
    sock,       \* m_sock
    isOpen,     \* m_ch.is_open()
    conn,       \* the latest connection, 0 before the first
    size,       \* the size in the header, while the content is waited for
    lines       \* the contents shown in m_lines since the latest connection

sinkVars == <<where, sock, isOpen, conn, size, lines>>

vars == <<thingVars, sinkVars>>

Places ==
    {"connecting", "waiting", "header", "content", "ending", "exited", "killed"}

Init ==
    /\ ThingInit
    /\ where = "connecting" /\ sock = "open"
    /\ isOpen = TRUE
    /\ conn = 0 /\ size = 0 /\ lines = <<>>

-----------------------------------------------------------------------------
\* tcp_worker

\* async_connect opens a closed socket.
StartConnect ==
    /\ where' = "connecting"
    /\ sock' = IF sock = "closed" THEN "open" ELSE sock

Connected ==
    /\ where = "connecting" /\ sock = "open"
    /\ up
    /\ conn' = conn + 1 /\ conn' \in Connections
    /\ Arrives(conn')
    /\ where' = "header" /\ sock' = "connected"
    /\ lines' = <<>>
    /\ UNCHANGED <<up, starts, handed, hand, queue, wire, gone, accepted, cut, isOpen, size>>

\* The channel is not looked at.
ConnectFailsAlways ==
    /\ where = "connecting"
    /\ sock # "open" \/ ~up
    /\ where' = "waiting"
    /\ UNCHANGED <<thingVars, sock, isOpen, conn, size, lines>>

\* A failure is taken for the end.
ConnectFailsForGood ==
    /\ where = "connecting"
    /\ sock # "open" \/ ~up
    /\ where' = "ending"
    /\ UNCHANGED <<thingVars, sock, isOpen, conn, size, lines>>

\* Nobody listens, the socket is connected already, or an interrupt has closed it.
ConnectFails ==
    /\ where = "connecting"
    /\ sock # "open" \/ ~up
    /\ where' = IF isOpen THEN "waiting" ELSE "exited"
    /\ UNCHANGED <<thingVars, sock, isOpen, conn, size, lines>>

WaitEnds ==
    /\ where = "waiting"
    /\ StartConnect
    /\ UNCHANGED <<thingVars, isOpen, conn, size, lines>>

\* async_receive of wanted bytes returns what has arrived of them, one at least.
Arrived(wanted) ==
    {SubSeq(wire[conn], 1, n) : n \in {k \in 1..wanted : k <= Len(wire[conn])}}

Receive(bytes, wanted) ==
    /\ sock = "connected"
    /\ wire' = [wire EXCEPT ![conn] = SubSeq(@, Len(bytes) + 1, Len(@))]
    /\ cut' = IF Len(bytes) < wanted THEN cut \cup {conn} ELSE cut

\* The size in the bytes taken for a header, which are the header of a message or
\* any part of the stream.
SizeIn(bytes, s) ==
    \A m \in 1..handed : bytes = Header(m) => s = Contents[m]

ReadHeader ==
    /\ where = "header"
    /\ \E bytes \in Arrived(HeaderSize) :
        /\ Receive(bytes, HeaderSize)
        /\ size' \in Range(Contents) /\ SizeIn(bytes, size')
    /\ where' = "content"
    /\ UNCHANGED <<up, starts, handed, stage, hand, queue, gone, accepted,
                   sock, isOpen, conn, lines>>

\* A receive of no bytes returns at once.
ReadNothing ==
    /\ where = "content" /\ size = 0
    /\ lines' = Append(lines, <<>>)
    /\ where' = "header"
    /\ UNCHANGED <<thingVars, sock, isOpen, conn, size>>

ReadContent ==
    /\ where = "content" /\ size > 0
    /\ \E bytes \in Arrived(size) :
        /\ Receive(bytes, size)
        /\ lines' = Append(lines, bytes)
    /\ where' = "header" /\ size' = 0
    /\ UNCHANGED <<up, starts, handed, stage, hand, queue, gone, accepted,
                   sock, isOpen, conn>>

\* What was not read of the latest connection is lost with it.
DropUnread == wire' = [c \in Connections |-> IF c = conn THEN <<>> ELSE wire[c]]

\* The other end has closed, with or without what is on the wire, or an interrupt has
\* closed this one.  Without an interrupt it connects again, with the same socket.
ReadFails ==
    /\ where = "header" \/ (where = "content" /\ size > 0)
    /\ sock = "closed" \/ stage[conn] = "closed"
    /\ IF isOpen THEN StartConnect ELSE where' = "ending" /\ UNCHANGED sock
    /\ size' = 0
    /\ DropUnread
    /\ UNCHANGED <<up, starts, handed, stage, hand, queue, gone, accepted, cut,
                   isOpen, conn, lines>>

Exit ==
    /\ where = "ending"
    /\ where' = "exited"
    /\ UNCHANGED <<thingVars, sock, isOpen, conn, size, lines>>

-----------------------------------------------------------------------------
CloseSocket ==
    /\ sock' = "closed"
    /\ gone' = IF sock = "connected" THEN gone \cup {conn} ELSE gone
    /\ DropUnread

\* signal_handler_task: the first interrupt closes channel and socket.
Interrupt ==
    /\ isOpen /\ isOpen' = FALSE
    /\ CloseSocket
    /\ UNCHANGED <<up, starts, handed, stage, hand, queue, accepted, cut,
                   where, conn, size, lines>>

\* After it nobody handles the signal, and a second one ends the program.
InterruptAgain ==
    /\ ~isOpen /\ where \notin {"exited", "killed"}
    /\ where' = "killed"
    /\ CloseSocket
    /\ UNCHANGED <<up, starts, handed, stage, hand, queue, accepted, cut,
                   isOpen, conn, size, lines>>

-----------------------------------------------------------------------------
TcpWorker ==
    \/ Connected \/ ConnectFails \/ WaitEnds
    \/ ReadHeader \/ ReadNothing \/ ReadContent \/ ReadFails \/ Exit

Next ==
    \/ ThingNext /\ UNCHANGED sinkVars
    \/ TcpWorker \/ Interrupt \/ InterruptAgain

Spec == Init /\ [][Next]_vars

\* Coroutines that can go on do; the bot and the user are not bound.
Fairness ==
    /\ \A c \in Connections : WF_vars(Worker(c) /\ UNCHANGED sinkVars)
    /\ WF_vars(TcpWorker)

FairSpec == Spec /\ Fairness

-----------------------------------------------------------------------------
TypeOK ==
    /\ ThingTypeOK
    /\ where \in Places
    /\ sock \in {"closed", "open", "connected"}
    /\ isOpen \in BOOLEAN
    /\ conn \in Connections \cup {0}
    /\ size \in Range(Contents) \cup {0}
    /\ lines \in Seq(Seq((1..handed) \X Nat))

\* Nothing is under way on connection c.
Quiet(c) ==
    sock = "connected" /\ stage[c] = "receive" /\ wire[c] = <<>> /\ where = "header"

\* As long as every send and every receive moved all it was asked to, the terminal
\* shows what the queue of its client took, whole, in order and once, and all of it
\* when nothing is under way (client_worker, tcp_worker): the frames of header and
\* content stay aligned although they are written and read in two calls each.
ShownInOrder ==
    conn # 0 /\ conn \notin cut =>
        LET taken == accepted[conn]
        IN  /\ IsPrefix(lines, [k \in DOMAIN taken |-> Content(taken[k])])
            /\ Quiet(conn) => Len(lines) = Len(taken)

\* The connection in use goes on, and unharmed.
Intact(c) == conn = c /\ sock = "connected" /\ stage[c] # "closed" /\ c \notin cut

\* What the queue of a client took is shown, however many messages come together,
\* unless the connection ends or a send or receive is cut short.
AcceptedIsShown ==
    \A c \in Connections : \A k \in DOMAIN Contents :
        (Intact(c) /\ k <= Len(accepted[c])) ~> (Len(lines) >= k \/ ~Intact(c))

\* A sink that was started before the bot connects to it, as long as the bot stays up
\* and nobody interrupts the sink (the timer of tcp_worker).
Connects == conn = 0 ~> conn # 0 \/ ~up \/ ~isOpen

\* An interrupt ends the sink, also in the middle of connecting or reading, unless it
\* comes while the sink waits to connect again: then the closed socket is opened
\* once more, and the sink goes on (tcp_worker, signal_handler_task).
InterruptEnds ==
    (~isOpen /\ sock = "closed" /\ where # "waiting") ~> where \in {"exited", "killed"}

=============================================================================
