------------------------------ MODULE IrcClient ------------------------------
(***************************************************************************)
(* irc::irc_client: the connection to an IRC server, the registration of a *)
(* nick, and the traffic between the server and the bot.                   *)
(*                                                                         *)
(* The client is a set of coroutines on one thread: the worker             *)
(* (run_inner), one message_handler for every message that was read, and   *)
(* handle() for a message of the bot.  They suspend only in async_send,    *)
(* and the sends of one socket complete in the order they were started, so *)
(* the suspended coroutines form a queue (sends).  A coroutine is what it  *)
(* still has to do; everything up to its next send is one action.  A       *)
(* message is sent with one async_send for every line of its encoding      *)
(* (IrcMessage says which lines); here it is one send.                     *)
(*                                                                         *)
(* The server is modelled as far as the client depends on it: it refuses   *)
(* nicks that are in use, welcomes a client with nick and user, pings, and *)
(* may close the connection, or keep it open and read no more.             *)
(***************************************************************************)
EXTENDS Integers, Sequences

CONSTANTS
    NickCount,      \* m_config.m_nicks.size(): the nicks are 0..NickCount - 1
    InUse,          \* the nicks the server refuses
    ChannelCount,   \* m_config.m_channels.size()
    HasPassword,    \* m_config.m_password has a value
    MaxPings,       \* the server pings at most so often,
    MaxChats,       \*   relays at most so many messages of other users,
    MaxStalls,      \*   stops reading
    MaxCloses,      \*   and closes the connection at most so often
    MaxOutgoing,    \* the bot hands out at most so many messages
    MaxExits        \*   and exits

\* A client without a nick is not set up (setup_single_irc).
ASSUME CountsAssumption ==
    /\ NickCount \in Nat \ {0}
    /\ {ChannelCount, MaxPings, MaxChats, MaxStalls, MaxCloses, MaxOutgoing,
         MaxExits} \subseteq Nat
    /\ HasPassword \in BOOLEAN

Nicks == 0..(NickCount - 1)
ASSUME InUseAssumption == InUse \subseteq Nicks

Garbage == -1           \* what is sent for a nick outside m_nicks
NoNick  == -2           \* the server knows no nick of the client

\* What the client sends.
Pass        == [command |-> "PASS"]
NickIs(n)   == [command |-> "NICK", nick |-> n]
User        == [command |-> "USER"]
Join(k)     == [command |-> "JOIN", channel |-> k]
Pong        == [command |-> "PONG"]
PrivmsgOut  == [command |-> "PRIVMSG"]

\* What the client receives.
Welcome      == [command |-> "001"]
NickInUse    == [command |-> "433"]
Ping         == [command |-> "PING"]
Privmsg(i)   == [command |-> "PRIVMSG", number |-> i]
NoCommand    == [command |-> "none"]

\* The states (state_t).  n: m_nick_try, or the index of m_nick.
State(name, n) == [name |-> name, n |-> n]
Connected(n)   == State("connected", n)
Registered(n)  == State("registered", n)
Disconnected   == State("disconnected", 0)
Disconnecting  == State("disconnecting", 0)
FailedRegistration == State("failure_registration", 0)

\* A suspended coroutine: the message it sends, and whether it is run_inner that
\* called state_change.
Suspended(message, inWorker) == [message |-> message, inWorker |-> inWorker]

VARIABLES
    state,      \* m_state
    worker,     \* where run_inner is
    socket,     \* m_socket: never connected, connected, or left by the server
    sends,      \* the suspended coroutines, in the order their sends complete
    latest,     \* the message run_inner parsed last
    handling,   \* handle() waits for a send
    crashed,    \* an access outside m_nicks ended the program
    toServer,   \* sent and not yet read by the server
    toClient,   \* sent by the server and not yet read
    server,     \* what the server knows of the client
    toBot,      \* the messages given to bot::queue_message
    done        \* how often the server and the bot acted, and the exit

vars == <<state, worker, socket, sends, latest, handling, crashed, toServer,
          toClient, server, toBot, done>>

wireVars == <<toServer, toClient, server>>

NewServer == [nick |-> NoNick, user |-> FALSE, welcomed |-> FALSE, joined |-> {}, pongs |-> 0]

Init ==
    /\ state = Disconnected
    /\ worker = "resolving"
    /\ socket = "new"
    /\ sends = <<>>
    /\ latest = NoCommand
    /\ handling = FALSE
    /\ crashed = FALSE
    /\ toServer = <<>> /\ toClient = <<>>
    /\ server = NewServer
    /\ toBot = <<>>
    /\ done = [pings |-> 0, chats |-> 0, stalls |-> 0, closes |-> 0, outgoing |-> 0,
                exits |-> 0]

\* The server keeps the connection open and reads no more: what the kernel has no
\* room for is never sent, and there is no timeout.
Stalled == socket = "connected" /\ done.stalls > 0

-----------------------------------------------------------------------------
\* Sending.  The operators below say what a coroutine does up to its next send,
\* `rest` being the coroutines that are suspended already.

\* send_message: async_send, whose result is not looked at.
Send(rest, message, inWorker) == sends' = Append(rest, Suspended(message, inWorker))

Ends(rest) == sends' = rest

Crash(rest) == crashed' = TRUE /\ Ends(rest)

-----------------------------------------------------------------------------
\* state_change

SendNick(rest, n, inWorker) ==
    Send(rest, NickIs(n), inWorker) /\ UNCHANGED crashed

\* m_config.m_nicks[n] outside the vector: the program ends or sends something.
SendNickOutOfRange(rest, inWorker) ==
    Crash(rest) \/ SendNick(rest, Garbage, inWorker)

\* state_change(connected{n}).  Without a password the attempts after the last
\* nick follow one another without a suspension and without an end.
EnterConnected(rest, n, inWorker) ==
    /\ state' = Connected(n)
    /\ IF HasPassword
       THEN Send(rest, Pass, inWorker) /\ UNCHANGED crashed
       ELSE IF n \in Nicks THEN SendNick(rest, n, inWorker) ELSE Crash(rest)

\* The same nick is tried again.
EnterFailureSameNick(rest, inWorker) ==
    EnterConnected(rest, state.n, inWorker)

\* The next nick but one is tried.
EnterFailureSkipping(rest, inWorker) ==
    \/ /\ state.n + 2 \in Nicks \/ state.n <= NickCount
       /\ EnterConnected(rest, state.n + 2, inWorker)
    \/ /\ state.n + 2 \notin Nicks
       /\ Crash(rest) /\ UNCHANGED state

\* state_change(failure_registration{}) in state connected: the next nick is
\* logged and tried, whether or not there is one.  Bound: two past the end.
EnterFailure(rest, inWorker) ==
    \/ /\ state.n + 1 \in Nicks \/ state.n <= NickCount
       /\ EnterConnected(rest, state.n + 1, inWorker)
    \/ /\ state.n + 1 \notin Nicks
       /\ Crash(rest) /\ UNCHANGED state

\* One channel too many.
JoinFromPastEnd(rest, k) ==
    IF k <= ChannelCount + 1 THEN Send(rest, Join(k), FALSE) ELSE Ends(rest)

\* JOIN for the k-th channel, or the end.
JoinFrom(rest, k) ==
    IF k <= ChannelCount
    THEN Send(rest, Join(k), FALSE)
    ELSE Ends(rest)

\* The nick is not taken from the state that is left.
EnterRegisteredFirst(rest) ==
    /\ state' = Registered(0)
    /\ JoinFrom(rest, 1)
    /\ UNCHANGED crashed

\* state_change(registered{}) in state connected.
EnterRegistered(rest) ==
    /\ state' = Registered(state.n)
    /\ JoinFrom(rest, 1)
    /\ UNCHANGED crashed

\* The part of state_change(connected{}) after PASS.  m_nick_try is read from
\* m_state: when another coroutine changed the state meanwhile, it is whatever
\* is there.
AfterPass(rest, inWorker) ==
    IF state.name = "connected"
    THEN IF state.n \in Nicks
         THEN SendNick(rest, state.n, inWorker) /\ UNCHANGED state
         ELSE EnterFailure(rest, inWorker)
    ELSE \/ \E n \in Nicks : SendNick(rest, n, inWorker) /\ UNCHANGED state
         \/ state' = FailedRegistration /\ SendNickOutOfRange(rest, inWorker)

-----------------------------------------------------------------------------
\* message_handler, after a PING was answered: the visitor of m_state.

\* A PRIVMSG with other than one parameter is dropped, and a text make_argv cannot
\* read ends the program (Argv, AlwaysReturns); nobody writes either here.

\* A message that arrives while handle() waits is dropped.
VisitWhenIdle(rest, message) ==
    CASE state.name = "connected" /\ message = Welcome ->
            EnterRegistered(rest) /\ UNCHANGED toBot
      [] state.name = "connected" /\ message = NickInUse ->
            EnterFailure(rest, FALSE) /\ UNCHANGED toBot
      [] state.name = "registered" /\ message.command = "PRIVMSG" /\ ~handling ->
            /\ toBot' = Append(toBot, message.number)
            /\ Ends(rest) /\ UNCHANGED <<state, crashed>>
      [] OTHER -> Ends(rest) /\ UNCHANGED <<state, toBot, crashed>>

Visit(rest, message) ==
    CASE state.name = "connected" /\ message = Welcome ->
            EnterRegistered(rest) /\ UNCHANGED toBot
      [] state.name = "connected" /\ message = NickInUse ->
            EnterFailure(rest, FALSE) /\ UNCHANGED toBot
      [] state.name = "registered" /\ message.command = "PRIVMSG" ->
            /\ toBot' = Append(toBot, message.number)
            /\ Ends(rest) /\ UNCHANGED <<state, crashed>>
      [] OTHER -> Ends(rest) /\ UNCHANGED <<state, toBot, crashed>>

\* PONG is sent only once the client is registered.
HandlePingWhenRegistered(message) ==
    IF message = Ping /\ state.name = "registered"
    THEN /\ Send(sends, Pong, FALSE)
         /\ UNCHANGED <<state, toBot, crashed>>
    ELSE Visit(sends, message)

HandleMessage(message) ==
    IF message = Ping
    THEN /\ Send(sends, Pong, FALSE)
         /\ UNCHANGED <<state, toBot, crashed>>
    ELSE Visit(sends, message)

\* After the PONG the handler looks at its message again, which run_inner's loop
\* has left behind: it finds nothing to act on, or the message parsed last.
AfterPong(rest) ==
    \E message \in {NoCommand, latest} : Visit(rest, message)

-----------------------------------------------------------------------------
\* run_inner

\* async_connect, then state_change(connected{}), whatever came of it.
StartRegistration ==
    /\ EnterConnected(sends, 0, TRUE)
    /\ worker' = "registering"
    /\ UNCHANGED <<latest, handling, wireVars, toBot, done>>

Connect ==
    /\ worker = "resolving"
    /\ socket = "new" /\ socket' = "connected"
    /\ StartRegistration

\* The server does not answer, or the socket was connected before: it is never
\* closed, and a socket that has been connected cannot be connected again.
FailToConnect ==
    /\ worker = "resolving"
    /\ UNCHANGED socket
    /\ StartRegistration

FailToResolve ==
    /\ worker = "resolving"
    /\ worker' = "sleeping"
    /\ UNCHANGED <<state, socket, sends, latest, handling, crashed, wireVars, toBot, done>>

ReadMessage ==
    /\ worker = "reading"
    /\ toClient # <<>>
    /\ latest' = Head(toClient)
    /\ toClient' = Tail(toClient)
    /\ HandleMessage(Head(toClient))
    /\ UNCHANGED <<worker, socket, handling, toServer, server, done>>

\* End of file, or not connected.
FailToRead ==
    /\ worker = "reading"
    /\ socket # "connected"
    /\ toClient = <<>>
    /\ worker' = "sleeping"
    /\ UNCHANGED <<state, socket, sends, latest, handling, crashed, wireVars, toBot, done>>

\* irc_client::worker: five seconds later.  By then the sends on a socket that is
\* not connected have failed and their coroutines were resumed.
Retry ==
    /\ worker = "sleeping"
    /\ sends = <<>>
    /\ worker' = "resolving"
    /\ UNCHANGED <<state, socket, sends, latest, handling, crashed, wireVars, toBot, done>>

-----------------------------------------------------------------------------
\* The send at the head of the queue completes and its coroutine goes on.  The
\* completion is queued when the bytes are handed to the kernel, ahead of whatever
\* the server may answer to them.

AfterNick(rest, coroutine) ==
    /\ Send(rest, User, coroutine.inWorker)
    /\ UNCHANGED worker

\* state_change returns to run_inner or ends the handler.
AfterUser(rest, coroutine) ==
    /\ Ends(rest)
    /\ worker' = IF coroutine.inWorker THEN "reading" ELSE worker

Resume(rest, coroutine) ==
    CASE coroutine.message.command = "PASS" ->
            AfterPass(rest, coroutine.inWorker) /\ UNCHANGED <<worker, handling, toBot>>
      [] coroutine.message.command = "NICK" ->
            AfterNick(rest, coroutine) /\ UNCHANGED <<state, crashed, handling, toBot>>
      [] coroutine.message.command = "USER" ->
            AfterUser(rest, coroutine) /\ UNCHANGED <<state, crashed, handling, toBot>>
      [] coroutine.message.command = "JOIN" ->
            /\ JoinFrom(rest, coroutine.message.channel + 1)
            /\ UNCHANGED <<state, crashed, worker, handling, toBot>>
      [] coroutine.message.command = "PONG" ->
            AfterPong(rest) /\ UNCHANGED <<worker, handling>>
      [] coroutine.message.command = "PRIVMSG" ->
            /\ handling' = FALSE
            /\ Ends(rest) /\ UNCHANGED <<state, crashed, worker, toBot>>

SendCompletes ==
    /\ sends # <<>>
    /\ Resume(Tail(sends), Head(sends))
    /\ toServer' = IF socket = "connected"
                   THEN Append(toServer, Head(sends).message) ELSE toServer
    /\ UNCHANGED <<socket, latest, toClient, server, done>>

-----------------------------------------------------------------------------
\* What the bot hands to the client (handle).

\* An outgoing_message for one of the client's chats, in whatever state it is.
HandleOutgoing ==
    /\ ~handling
    /\ done.outgoing < MaxOutgoing
    /\ done' = [done EXCEPT !.outgoing = @ + 1]
    /\ Send(sends, PrivmsgOut, FALSE)
    /\ handling' = TRUE
    /\ UNCHANGED <<state, worker, socket, latest, crashed, wireVars, toBot>>

\* The exit changes the state and nothing else.
HandleExit ==
    /\ done.exits < MaxExits
    /\ done' = [done EXCEPT !.exits = @ + 1]
    /\ state' = Disconnecting
    /\ UNCHANGED <<worker, socket, sends, latest, handling, crashed, wireVars, toBot>>

-----------------------------------------------------------------------------
\* The server.

Answer(message) == toClient' = Append(toClient, message)

\* A client with nick and user is welcomed, once.
Know(known) ==
    IF known.nick # NoNick /\ known.user /\ ~known.welcomed
    THEN server' = [known EXCEPT !.welcomed = TRUE] /\ Answer(Welcome)
    ELSE server' = known /\ UNCHANGED toClient

ServerTakesNick(n) ==
    IF n \in InUse
    THEN Answer(NickInUse) /\ UNCHANGED server
    ELSE IF n \in Nicks
    THEN Know([server EXCEPT !.nick = n])
    ELSE UNCHANGED <<server, toClient>>

ServerReads ==
    /\ ~Stalled
    /\ toServer # <<>>
    /\ toServer' = Tail(toServer)
    /\ LET message == Head(toServer) IN
        CASE message.command = "NICK" -> ServerTakesNick(message.nick)
          [] message.command = "USER" -> Know([server EXCEPT !.user = TRUE])
          [] message.command = "PONG" ->
                server' = [server EXCEPT !.pongs = @ + 1] /\ UNCHANGED toClient
          [] message.command = "JOIN" /\ server.welcomed ->
                /\ server' = [server EXCEPT !.joined = @ \cup {message.channel}]
                /\ UNCHANGED toClient
          [] OTHER -> UNCHANGED <<server, toClient>>
    /\ UNCHANGED <<state, worker, socket, sends, latest, handling, crashed, toBot, done>>

ServerPings ==
    /\ socket = "connected"
    /\ done.pings < MaxPings
    /\ done' = [done EXCEPT !.pings = @ + 1]
    /\ Answer(Ping)
    /\ UNCHANGED <<state, worker, socket, sends, latest, handling, crashed, toServer,
                   server, toBot>>

\* Somebody writes in a channel that was joined.
ServerRelays ==
    /\ server.joined # {}
    /\ done.chats < MaxChats
    /\ done' = [done EXCEPT !.chats = @ + 1]
    /\ Answer(Privmsg(done.chats + 1))
    /\ UNCHANGED <<state, worker, socket, sends, latest, handling, crashed, toServer,
                   server, toBot>>

\* From here on.  Its own messages still arrive.
ServerStalls ==
    /\ socket = "connected"
    /\ done.stalls < MaxStalls
    /\ done' = [done EXCEPT !.stalls = @ + 1]
    /\ UNCHANGED <<state, worker, socket, sends, latest, handling, crashed, wireVars,
                   toBot>>

ServerCloses ==
    /\ socket = "connected"
    /\ done.closes < MaxCloses
    /\ done' = [done EXCEPT !.closes = @ + 1]
    /\ socket' = "left"
    /\ toServer' = <<>>
    /\ server' = NewServer
    /\ UNCHANGED <<state, worker, sends, latest, handling, crashed, toClient, toBot>>

-----------------------------------------------------------------------------
Client ==
    \/ Connect \/ FailToConnect \/ FailToResolve \/ ReadMessage \/ FailToRead \/ Retry
    \/ SendCompletes
    \/ HandleOutgoing \/ HandleExit

Server == ServerReads \/ ServerPings \/ ServerRelays \/ ServerStalls \/ ServerCloses

Next == ~crashed /\ (Client \/ Server)

Spec == Init /\ [][Next]_vars

\* The scheduler resumes every coroutine that is ready.  A send completes while the
\* server reads, and fails once the connection is gone; to a server that is stalled
\* it may complete or not.  A server that is not stalled reads what is sent, and can
\* be reached again and again by a client that keeps trying.
Fairness ==
    /\ WF_vars(~crashed /\ ~Stalled /\ SendCompletes)
    /\ WF_vars(~crashed /\ ReadMessage)
    /\ WF_vars(~crashed /\ FailToRead)
    /\ WF_vars(~crashed /\ Retry)
    /\ WF_vars(~crashed /\ (Connect \/ FailToConnect \/ FailToResolve))
    /\ WF_vars(~crashed /\ ServerReads)
    /\ SF_vars(~crashed /\ Connect)

FairSpec == Spec /\ Fairness

-----------------------------------------------------------------------------
Outgoing ==
    {Pass, User, Pong, PrivmsgOut} \cup {NickIs(n) : n \in Nicks \cup {Garbage}}
        \cup {Join(k) : k \in 1..ChannelCount}

Incoming == {Welcome, NickInUse, Ping} \cup {Privmsg(i) : i \in 1..MaxChats}

TypeOK ==
    /\ state \in [name : {"disconnected", "disconnecting", "connected", "registered",
                          "failure_registration"},
                  n : 0..(NickCount + 1)]
    /\ worker \in {"resolving", "registering", "reading", "sleeping"}
    /\ socket \in {"new", "connected", "left"}
    /\ sends \in Seq([message : Outgoing, inWorker : BOOLEAN])
    /\ latest \in Incoming \cup {NoCommand}
    /\ handling \in BOOLEAN /\ crashed \in BOOLEAN
    /\ toServer \in Seq(Outgoing) /\ toClient \in Seq(Incoming)
    /\ server \in [nick : Nicks \cup {NoNick}, user : BOOLEAN, welcomed : BOOLEAN,
                   joined : SUBSET (1..ChannelCount), pongs : Nat]
    /\ toBot \in Seq(1..MaxChats)
    /\ done \in [pings : 0..MaxPings, chats : 0..MaxChats, stalls : 0..MaxStalls,
                 closes : 0..MaxCloses, outgoing : 0..MaxOutgoing, exits : 0..MaxExits]

-----------------------------------------------------------------------------
Exited == done.exits > 0
NoNickUnderWay ==
    /\ \A i \in 1..Len(toServer) : toServer[i].command # "NICK"
    /\ \A i \in 1..Len(sends) : sends[i].message.command \notin {"PASS", "NICK"}

\* The handler of a PING can take a refusal for its own message and skip a nick.
\* That does no harm while no nick is refused after a skip: when the server sent no
\* PING, or only one nick is in use.  Two refusals under way at once could move the
\* client on after the server has welcomed it.
RefusalsApart == done.pings = 0 \/ \A m, n \in InUse : m = n

\* The nick a registered client takes for its own, by which it tells a private
\* message from one in a channel, is the one the server knows it by, however
\* many nicks were refused and however the refusals, the answers to PINGs and
\* the rest of an earlier attempt overlap (state_change, message_handler).
NickAgrees ==
    RefusalsApart /\ state.name = "registered" /\ socket = "connected" /\ NoNickUnderWay
        => server.nick = state.n

\* The client reads no nick outside its list (state_change), while the server
\* accepts one and, behind it, one more for every PING that may skip one.  An exit
\* in the middle of a registration aside.
EnoughFreeNicks ==
    \E n \in Nicks : \A k \in 0..done.pings : n + k \in Nicks \ InUse

StaysInRange ==
    RefusalsApart /\ EnoughFreeNicks /\ ~Exited => ~crashed /\ state.n \in Nicks

\* A client that can reach the server ends up registered and in all its
\* channels, or the server stalls or closes the connection, or the bot exits.
Registers ==
    <>( \/ state.name = "registered" /\ server.joined = 1..ChannelCount
       \/ Stalled \/ socket = "left" \/ Exited )

\* Every PING is answered while the connection lasts and the server reads, in
\* whatever state the client is and whatever else is being sent.
PingsAnswered ==
    \A k \in 1..MaxPings :
        done.pings >= k ~> (server.pongs >= k \/ Stalled \/ socket = "left" \/ crashed)

\* Every message in a channel the client has joined is reported to the bot, the
\* ones read before the connection ends, too, and also while sends wait for a
\* server that reads no more: each has a coroutine of its own, and run_inner reads on.
MessagesReported ==
    \A k \in 1..MaxChats :
        done.chats >= k ~> (\E i \in 1..Len(toBot) : toBot[i] = k) \/ Exited

\* "ran out of nicks to try, oh well!" (client.cpp:209), "not going to try
\* anymore to register" (client.cpp:243): when every nick was refused the client
\* leaves it at that.
GivesUp == ~crashed /\ (state.name = "connected" => state.n <= NickCount)

=============================================================================
