-------------------------- MODULE IrcClient_proofs --------------------------
(***************************************************************************)
(* IrcClient, for every number of nicks, whichever of them the server      *)
(* refuses, and every number of PINGs, stalls, closes and exits: its type  *)
(* invariant, that client and server agree on the nick, and that no nick   *)
(* outside the list is read.                                               *)
(***************************************************************************)
EXTENDS IrcClient, FiniteSets, SequenceTheorems, FunctionTheorems, FiniteSetTheorems, TLAPS

\* A coroutine of a registration: it has sent nothing but PASS, or it is about to
\* send NICK.  A registration goes on as a NICK under way and, when the server
\* refuses it, as NickInUse.
IsPass(c) == c.message.command = "PASS"
IsNick(c) == c.message.command = "NICK"
IsPong(c) == c.message.command = "PONG"
IsStart(c) == IsPass(c) \/ IsNick(c)

NickOf(c) == c.message.nick

NoNickAtServer == \A i \in 1..Len(toServer) : toServer[i].command # "NICK"
NoRefusal == \A i \in 1..Len(toClient) : toClient[i] # NickInUse
NoWelcome == \A i \in 1..Len(toClient) : toClient[i] # Welcome
NoPass == \A i \in 1..Len(sends) : ~IsPass(sends[i])

\* The server has taken no nick yet, as far as the client can learn.
Unknown == NoWelcome /\ server.nick = NoNick

\* Where the worker is, and what is left of a connection that ended.
WorkerInv ==
    /\ socket = "new" => toClient = <<>>
    /\ socket # "connected" => toServer = <<>> /\ server = NewServer
    /\ worker \in {"resolving", "sleeping"} => socket # "connected" /\ toClient = <<>>
    /\ worker = "resolving" \/ state.name = "disconnected" =>
            \A i \in 1..Len(sends) : sends[i].message = PrivmsgOut
    /\ state.name = "disconnected" => worker \in {"resolving", "sleeping"}
    /\ server.welcomed => server.nick # NoNick

\* A PING under way is a PING the server sent; a client that was welcomed is not in
\* state connected any more; only PASS is followed by PASS.
HandlerInv ==
    /\ \A i \in 1..Len(sends) : IsPong(sends[i]) => done.pings > 0
    /\ \A i \in 1..Len(toClient) : toClient[i] = Ping => done.pings > 0
    /\ state.name = "connected" /\ latest = Welcome =>
            \A i \in 1..Len(sends) : ~IsPong(sends[i])
    /\ ~HasPassword => NoPass

\* One registration is under way, in one place.
Single ==
    /\ \A i, j \in 1..Len(sends) : IsStart(sends[i]) /\ IsStart(sends[j]) => i = j
    /\ \A i, j \in 1..Len(toServer) :
            toServer[i].command = "NICK" /\ toServer[j].command = "NICK" => i = j
    /\ \A i, j \in 1..Len(toClient) :
            toClient[i] = NickInUse /\ toClient[j] = NickInUse => i = j
    /\ \A i \in 1..Len(sends) :
            IsStart(sends[i]) => NoNickAtServer /\ NoRefusal /\ Unknown
    /\ ~NoNickAtServer => NoRefusal /\ Unknown
    /\ ~NoRefusal => Unknown /\ state.n \in InUse

\* Several are, and none of them will be refused.
Clear ==
    /\ done.pings > 0
    /\ \A m \in InUse : m < state.n
    /\ NoRefusal

\* The nicks under way are good ones ...
GoodNicks ==
    /\ \A i \in 1..Len(sends) : IsNick(sends[i]) => NickOf(sends[i]) \in Nicks \ InUse
    /\ \A i \in 1..Len(toServer) :
            toServer[i].command = "NICK" => toServer[i].nick \in Nicks \ InUse

\* ... in increasing order, up to the one in the state ...
InOrder ==
    /\ \A i \in 1..Len(sends) : IsNick(sends[i]) => NickOf(sends[i]) <= state.n
    /\ \A i, j \in 1..Len(sends) :
            i < j /\ IsNick(sends[i]) /\ IsNick(sends[j])
                => NickOf(sends[i]) <= NickOf(sends[j])
    /\ \A i \in 1..Len(toServer) :
            toServer[i].command = "NICK" =>
                /\ server.nick <= toServer[i].nick
                /\ toServer[i].nick <= state.n
                /\ \A j \in 1..Len(sends) :
                        IsNick(sends[j]) => toServer[i].nick <= NickOf(sends[j])
                /\ \A j \in 1..Len(toServer) :
                        i < j /\ toServer[j].command = "NICK"
                            => toServer[i].nick <= toServer[j].nick
    /\ \A i \in 1..Len(sends) : IsNick(sends[i]) => server.nick <= NickOf(sends[i])
    /\ server.nick <= state.n

\* ... which is under way, or the one the server knows.
Arrives ==
    \/ \E i \in 1..Len(sends) : IsNick(sends[i]) /\ NickOf(sends[i]) = state.n
    \/ \E i \in 1..Len(toServer) :
            toServer[i].command = "NICK" /\ toServer[i].nick = state.n
    \/ server.nick = state.n

\* A PASS is ahead of every NICK, which there is only while a nick is left to try ...
PassFirst ==
    \A i \in 1..Len(sends) : IsPass(sends[i]) =>
        /\ \A j \in 1..Len(sends) : IsNick(sends[j]) => i < j /\ state.n \in Nicks
        /\ NoNickAtServer /\ NoRefusal /\ Unknown

\* ... and a PONG whose handler could skip a nick is ahead of every registration.
PongFirst ==
    \A i \in 1..Len(sends) : IsPong(sends[i]) /\ latest = NickInUse =>
        /\ \A j \in 1..Len(sends) : IsStart(sends[j]) => i < j
        /\ HasPassword => \A j \in 1..Len(sends) : ~IsNick(sends[j])
        /\ NoNickAtServer /\ NoRefusal /\ Unknown
        /\ \E m \in InUse : m < state.n

ConnectedInv ==
    state.name = "connected" /\ ~crashed =>
        /\ Single \/ (Clear /\ (socket = "connected" => GoodNicks))
        /\ PassFirst
        /\ PongFirst
        /\ socket = "connected" => InOrder /\ (Arrives \/ ~NoPass \/ ~NoRefusal)

RegisteredInv ==
    state.name = "registered" =>
        /\ NoPass
        /\ socket = "connected" => GoodNicks /\ InOrder /\ Arrives

NickInv == WorkerInv /\ HandlerInv /\ (RefusalsApart => ConnectedInv /\ RegisteredInv)

-----------------------------------------------------------------------------
\* The PINGs under way: each may skip a nick.
Occurrences(s, x) == {i \in 1..Len(s) : s[i] = x}

Count(s, x) == Cardinality(Occurrences(s, x))

PongHandler == Suspended(Pong, FALSE)

PingsUnderWay == Count(toClient, Ping) + Count(sends, PongHandler)

\* n and the nicks behind it, one for each PING, are free.
Free(n) == \A k \in 0..done.pings : n + k \in Nicks \ InUse

\* A client in state connected is past the free nick n by no more nicks than there
\* were PINGs, and the ones under way may still skip.
InRange(n) ==
    /\ ~crashed
    /\ state.name \in {"disconnected", "connected", "registered"}
    /\ state.n \in Nicks
    /\ state.name = "connected" =>
            state.n <= n \/ state.n + PingsUnderWay <= n + done.pings

RangeInv ==
    /\ PingsUnderWay <= done.pings
    /\ \A i \in 1..Len(sends) : IsPong(sends[i]) => sends[i] = PongHandler
    /\ RefusalsApart /\ ~Exited => \A n \in Nicks : Free(n) => InRange(n)

-----------------------------------------------------------------------------
\* Types.
Coroutine == [message : Outgoing, inWorker : BOOLEAN]

StateType ==
    [name : {"disconnected", "disconnecting", "connected", "registered",
             "failure_registration"},
     n : 0..(NickCount + 1)]

LEMMA OutgoingParts ==
    ASSUME NEW m \in Outgoing
    PROVE  /\ m.command = "NICK" => m.nick \in Nicks \cup {Garbage}
           /\ m.command = "JOIN" => m.channel \in 1..ChannelCount
           /\ m.command = "PONG" => m = Pong
           /\ m.command = "PRIVMSG" => m = PrivmsgOut
BY DEF Outgoing, Pass, User, Pong, PrivmsgOut, NickIs, Join

LEMMA IncomingParts ==
    ASSUME NEW m \in Incoming \cup {NoCommand}
    PROVE  /\ m.command = "PRIVMSG" => m.number \in 1..MaxChats
           /\ m \notin {Welcome, NickInUse, Ping, NoCommand} => m.command = "PRIVMSG"
<1>1. CASE m \in {Welcome, NickInUse, Ping, NoCommand}
    BY <1>1 DEF NoCommand, Welcome, NickInUse, Ping
<1>2. CASE \E i \in 1..MaxChats : m = Privmsg(i)
    BY <1>2 DEF Privmsg
<1> QED BY <1>1, <1>2 DEF Incoming

LEMMA AppendCoroutine ==
    ASSUME NEW rest \in Seq(Coroutine), NEW m \in Outgoing, NEW w \in BOOLEAN
    PROVE  Append(rest, Suspended(m, w)) \in Seq(Coroutine)
<1>1. Suspended(m, w) \in Coroutine
    BY DEF Suspended, Coroutine
<1> QED BY <1>1, AppendProperties

LEMMA MessageTypes ==
    /\ {Pass, User, Pong, PrivmsgOut} \subseteq Outgoing
    /\ \A n \in Nicks \cup {Garbage} : NickIs(n) \in Outgoing
    /\ \A k \in 1..ChannelCount : Join(k) \in Outgoing
    /\ {Welcome, NickInUse, Ping} \subseteq Incoming
    /\ \A i \in 1..MaxChats : Privmsg(i) \in Incoming
BY DEF Outgoing, Incoming

LEMMA StateTypes ==
    /\ \A n \in 0..(NickCount + 1) :
            Connected(n) \in StateType /\ Registered(n) \in StateType
    /\ {Disconnected, Disconnecting, FailedRegistration} \subseteq StateType
BY CountsAssumption DEF StateType, Connected, Registered, Disconnected, Disconnecting,
                        FailedRegistration, State

\* What the steps of a registration leave.
ClientTypes ==
    /\ sends' \in Seq(Coroutine)
    /\ state' \in StateType
    /\ crashed' \in BOOLEAN

LEMMA EnterConnectedType ==
    ASSUME NEW rest \in Seq(Coroutine), NEW n \in 0..(NickCount + 1), NEW w \in BOOLEAN,
           crashed \in BOOLEAN, EnterConnected(rest, n, w)
    PROVE  ClientTypes
<1>1. state' \in StateType
    BY StateTypes DEF EnterConnected
<1>2. CASE sends' = Append(rest, Suspended(Pass, w)) /\ crashed' = crashed
    BY <1>1, <1>2, AppendCoroutine, MessageTypes DEF ClientTypes
<1>3. CASE n \in Nicks /\ sends' = Append(rest, Suspended(NickIs(n), w)) /\ crashed' = crashed
    BY <1>1, <1>3, AppendCoroutine, MessageTypes DEF ClientTypes
<1>4. CASE Crash(rest)
    BY <1>1, <1>4 DEF ClientTypes, Crash, Ends
<1> QED BY <1>2, <1>3, <1>4 DEF EnterConnected, Send, SendNick

LEMMA EnterFailureType ==
    ASSUME NEW rest \in Seq(Coroutine), NEW w \in BOOLEAN, state \in StateType,
           crashed \in BOOLEAN, EnterFailure(rest, w)
    PROVE  ClientTypes
<1>1. state.n \in 0..(NickCount + 1) /\ NickCount \in Nat \ {0}
    BY CountsAssumption DEF StateType
<1>2. CASE (state.n + 1 \in Nicks \/ state.n <= NickCount)
           /\ EnterConnected(rest, state.n + 1, w)
    <2>1. state.n + 1 \in 0..(NickCount + 1)
        BY <1>1, <1>2 DEF Nicks
    <2> QED BY <1>2, <2>1, EnterConnectedType
<1>3. CASE Crash(rest) /\ UNCHANGED state
    BY <1>3 DEF Crash, Ends, ClientTypes
<1> QED BY <1>2, <1>3 DEF EnterFailure

LEMMA AfterPassType ==
    ASSUME NEW rest \in Seq(Coroutine), NEW w \in BOOLEAN, state \in StateType,
           crashed \in BOOLEAN, AfterPass(rest, w)
    PROVE  ClientTypes
<1>1. ASSUME NEW n \in Nicks \cup {Garbage}, SendNick(rest, n, w)
      PROVE  sends' \in Seq(Coroutine) /\ crashed' \in BOOLEAN
    BY <1>1, AppendCoroutine, MessageTypes DEF SendNick, Send
<1>2. CASE EnterFailure(rest, w)
    BY <1>2, EnterFailureType
<1>3. CASE \E n \in Nicks : SendNick(rest, n, w) /\ UNCHANGED state
    BY <1>1, <1>3 DEF ClientTypes
<1>4. CASE state' = FailedRegistration /\ SendNickOutOfRange(rest, w)
    <2>1. CASE Crash(rest)
        BY <1>4, <2>1, StateTypes DEF ClientTypes, Crash, Ends
    <2>2. CASE SendNick(rest, Garbage, w)
        BY <1>1, <1>4, <2>2, StateTypes DEF ClientTypes
    <2> QED BY <1>4, <2>1, <2>2 DEF SendNickOutOfRange
<1>5. CASE state.n \in Nicks /\ SendNick(rest, state.n, w) /\ UNCHANGED state
    BY <1>1, <1>5 DEF ClientTypes
<1> QED BY <1>2, <1>3, <1>4, <1>5 DEF AfterPass

LEMMA JoinFromType ==
    ASSUME NEW rest \in Seq(Coroutine), NEW k \in 1..(ChannelCount + 1), JoinFrom(rest, k)
    PROVE  sends' \in Seq(Coroutine)
<1>1. ChannelCount \in Nat
    BY CountsAssumption
<1>2. CASE k <= ChannelCount
    <2>1. Join(k) \in Outgoing
        BY <1>1, <1>2, MessageTypes
    <2> QED BY <1>2, <2>1, AppendCoroutine DEF JoinFrom, Send
<1>3. CASE ~(k <= ChannelCount)
    BY <1>3 DEF JoinFrom, Ends
<1> QED BY <1>2, <1>3

LEMMA VisitType ==
    ASSUME NEW rest \in Seq(Coroutine), NEW m \in Incoming \cup {NoCommand},
           state \in StateType, crashed \in BOOLEAN, toBot \in Seq(1..MaxChats),
           Visit(rest, m)
    PROVE  ClientTypes /\ toBot' \in Seq(1..MaxChats)
<1>1. CASE EnterRegistered(rest) /\ UNCHANGED toBot
    <2>1. 1 \in 1..(ChannelCount + 1) /\ state.n \in 0..(NickCount + 1)
        BY CountsAssumption DEF StateType
    <2>2. sends' \in Seq(Coroutine)
        BY <1>1, <2>1, JoinFromType DEF EnterRegistered
    <2> QED BY <1>1, <2>1, <2>2, StateTypes DEF EnterRegistered, ClientTypes
<1>2. CASE EnterFailure(rest, FALSE) /\ UNCHANGED toBot
    BY <1>2, EnterFailureType
<1>3. CASE /\ m.command = "PRIVMSG" /\ toBot' = Append(toBot, m.number)
           /\ Ends(rest) /\ UNCHANGED <<state, crashed>>
    <2>1. m.number \in 1..MaxChats
        BY <1>3, IncomingParts
    <2>2. toBot' \in Seq(1..MaxChats)
        BY <1>3, <2>1, AppendProperties
    <2> QED BY <1>3, <2>2 DEF Ends, ClientTypes
<1>4. CASE Ends(rest) /\ UNCHANGED <<state, toBot, crashed>>
    BY <1>4 DEF Ends, ClientTypes
<1> QED BY <1>1, <1>2, <1>3, <1>4 DEF Visit

LEMMA ResumeType ==
    ASSUME TypeOK, NEW rest \in Seq(Coroutine), NEW c \in Coroutine, Resume(rest, c)
    PROVE  /\ ClientTypes
           /\ worker' \in {"resolving", "registering", "reading", "sleeping"}
           /\ handling' \in BOOLEAN
           /\ toBot' \in Seq(1..MaxChats)
<1>0. /\ state \in StateType /\ crashed \in BOOLEAN /\ handling \in BOOLEAN
      /\ toBot \in Seq(1..MaxChats) /\ latest \in Incoming \cup {NoCommand}
      /\ worker \in {"resolving", "registering", "reading", "sleeping"}
    BY DEF TypeOK, StateType
<1>1. c.message \in Outgoing /\ c.inWorker \in BOOLEAN
    BY DEF Coroutine
<1>2. CASE AfterPass(rest, c.inWorker) /\ UNCHANGED <<worker, handling, toBot>>
    BY <1>0, <1>1, <1>2, AfterPassType
<1>3. CASE AfterNick(rest, c) /\ UNCHANGED <<state, crashed, handling, toBot>>
    <2>1. sends' \in Seq(Coroutine)
        BY <1>1, <1>3, AppendCoroutine, MessageTypes DEF AfterNick, Send
    <2> QED BY <1>0, <1>3, <2>1 DEF AfterNick, ClientTypes
<1>4. CASE AfterUser(rest, c) /\ UNCHANGED <<state, crashed, handling, toBot>>
    BY <1>0, <1>4 DEF AfterUser, Ends, ClientTypes
<1>5. CASE /\ c.message.command = "JOIN" /\ JoinFrom(rest, c.message.channel + 1)
           /\ UNCHANGED <<state, crashed, worker, handling, toBot>>
    <2>1. c.message.channel \in 1..ChannelCount /\ ChannelCount \in Nat
        BY <1>1, <1>5, OutgoingParts, CountsAssumption
    <2>2. c.message.channel + 1 \in 1..(ChannelCount + 1)
        BY <2>1
    <2>3. sends' \in Seq(Coroutine)
        BY <1>5, <2>2, JoinFromType
    <2> QED BY <1>0, <1>5, <2>3 DEF ClientTypes
<1>6. CASE AfterPong(rest) /\ UNCHANGED <<worker, handling>>
    <2>1. PICK m \in Incoming \cup {NoCommand} : Visit(rest, m)
        BY <1>0, <1>6 DEF AfterPong
    <2> QED BY <1>0, <1>6, <2>1, VisitType
<1>7. CASE /\ handling' = FALSE /\ Ends(rest) /\ UNCHANGED <<state, crashed, worker, toBot>>
    BY <1>0, <1>7 DEF Ends, ClientTypes
<1>8. c.message.command \in {"PASS", "NICK", "USER", "JOIN", "PONG", "PRIVMSG"}
    BY <1>1 DEF Outgoing, Pass, User, Pong, PrivmsgOut, NickIs, Join
<1> QED BY <1>2, <1>3, <1>4, <1>5, <1>6, <1>7, <1>8 DEF Resume

ServerType ==
    [nick : Nicks \cup {NoNick}, user : BOOLEAN, welcomed : BOOLEAN,
     joined : SUBSET (1..ChannelCount), pongs : Nat]

LEMMA AnswerType ==
    ASSUME toClient \in Seq(Incoming), NEW m \in Incoming, Answer(m)
    PROVE  toClient' \in Seq(Incoming)
BY AppendProperties DEF Answer

LEMMA KnowType ==
    ASSUME toClient \in Seq(Incoming), NEW known \in ServerType, Know(known)
    PROVE  server' \in ServerType /\ toClient' \in Seq(Incoming)
<1>1. [known EXCEPT !.welcomed = TRUE] \in ServerType
    BY DEF ServerType
<1> QED BY <1>1, AnswerType, MessageTypes DEF Know

LEMMA ServerReadsType ==
    ASSUME toServer \in Seq(Outgoing), toClient \in Seq(Incoming), server \in ServerType,
           ServerReads
    PROVE  /\ server' \in ServerType /\ toClient' \in Seq(Incoming)
           /\ toServer' \in Seq(Outgoing)
<1>1. /\ Head(toServer) \in Outgoing /\ toServer' = Tail(toServer)
      /\ Tail(toServer) \in Seq(Outgoing)
    BY HeadTailProperties DEF ServerReads
<1> DEFINE m == Head(toServer)
<1>2. CASE m.command = "NICK" /\ ServerTakesNick(m.nick)
    <2>1. CASE Answer(NickInUse) /\ UNCHANGED server
        BY <1>1, <2>1, AnswerType, MessageTypes
    <2>2. CASE m.nick \in Nicks /\ Know([server EXCEPT !.nick = m.nick])
        <3>1. [server EXCEPT !.nick = m.nick] \in ServerType
            BY <2>2 DEF ServerType
        <3> QED BY <1>1, <2>2, <3>1, KnowType
    <2> QED BY <1>1, <1>2, <2>1, <2>2 DEF ServerTakesNick
<1>3. CASE Know([server EXCEPT !.user = TRUE])
    <2>1. [server EXCEPT !.user = TRUE] \in ServerType
        BY DEF ServerType
    <2> QED BY <1>1, <1>3, <2>1, KnowType
<1>4. CASE server' = [server EXCEPT !.pongs = @ + 1] /\ UNCHANGED toClient
    <2>1. server.pongs + 1 \in Nat
        BY DEF ServerType
    <2> QED BY <1>1, <1>4, <2>1 DEF ServerType
<1>5. CASE m.command = "JOIN" /\ server' = [server EXCEPT !.joined = @ \cup {m.channel}]
           /\ UNCHANGED toClient
    <2>1. m.channel \in 1..ChannelCount
        BY <1>1, <1>5, OutgoingParts
    <2> QED BY <1>1, <1>5, <2>1 DEF ServerType
<1>6. CASE UNCHANGED <<server, toClient>>
    BY <1>1, <1>6
<1> QED BY <1>2, <1>3, <1>4, <1>5, <1>6 DEF ServerReads

DoneType ==
    [pings : 0..MaxPings, chats : 0..MaxChats, stalls : 0..MaxStalls,
     closes : 0..MaxCloses, outgoing : 0..MaxOutgoing, exits : 0..MaxExits]

TypeParts ==
    /\ state \in StateType
    /\ worker \in {"resolving", "registering", "reading", "sleeping"}
    /\ socket \in {"new", "connected", "left"}
    /\ sends \in Seq(Coroutine)
    /\ latest \in Incoming \cup {NoCommand}
    /\ handling \in BOOLEAN /\ crashed \in BOOLEAN
    /\ toServer \in Seq(Outgoing) /\ toClient \in Seq(Incoming)
    /\ server \in ServerType
    /\ toBot \in Seq(1..MaxChats)
    /\ done \in DoneType

LEMMA SameTypes == TypeOK <=> TypeParts
BY DEF TypeOK, TypeParts, StateType, Coroutine, ServerType, DoneType

LEMMA DoneTypes ==
    ASSUME done \in DoneType
    PROVE  /\ done.pings < MaxPings => [done EXCEPT !.pings = @ + 1] \in DoneType
           /\ done.chats < MaxChats =>
                [done EXCEPT !.chats = @ + 1] \in DoneType /\ done.chats + 1 \in 1..MaxChats
           /\ done.stalls < MaxStalls => [done EXCEPT !.stalls = @ + 1] \in DoneType
           /\ done.closes < MaxCloses => [done EXCEPT !.closes = @ + 1] \in DoneType
           /\ done.outgoing < MaxOutgoing => [done EXCEPT !.outgoing = @ + 1] \in DoneType
           /\ done.exits < MaxExits => [done EXCEPT !.exits = @ + 1] \in DoneType
BY CountsAssumption DEF DoneType

LEMMA SameTypesPrime == TypeOK' <=> TypeParts'
BY DEF TypeOK, TypeParts, StateType, Coroutine, ServerType, DoneType

LEMMA InitType == Init => TypeOK
<1> SUFFICES ASSUME Init PROVE TypeParts
    BY SameTypes
<1>1. NewServer \in ServerType
    BY DEF NewServer, ServerType
<1>2. [pings |-> 0, chats |-> 0, stalls |-> 0, closes |-> 0, outgoing |-> 0,
       exits |-> 0] \in DoneType
    BY CountsAssumption DEF DoneType
<1>3. Disconnected \in StateType
    BY StateTypes
<1>4. NoCommand \in Incoming \cup {NoCommand}
    OBVIOUS
<1>5. <<>> \in Seq(Coroutine) /\ <<>> \in Seq(Outgoing) /\ <<>> \in Seq(Incoming)
      /\ <<>> \in Seq(1..MaxChats)
    OBVIOUS
<1> QED BY <1>1, <1>2, <1>3, <1>4, <1>5 DEF Init, TypeParts

LEMMA NextType == TypeOK /\ [Next]_vars => TypeOK'
<1> SUFFICES ASSUME TypeParts, [Next]_vars PROVE TypeParts'
    BY SameTypes, SameTypesPrime
<1> USE DEF TypeParts
<1>1. CASE Connect \/ FailToConnect
    <2>1. 0 \in 0..(NickCount + 1)
        BY CountsAssumption
    <2>2. EnterConnected(sends, 0, TRUE)
        BY <1>1 DEF Connect, FailToConnect, StartRegistration
    <2>3. ClientTypes
        BY <2>1, <2>2, EnterConnectedType
    <2> QED BY <1>1, <2>3
        DEF Connect, FailToConnect, StartRegistration, ClientTypes, wireVars
<1>2. CASE FailToResolve \/ FailToRead \/ Retry
    BY <1>2 DEF FailToResolve, FailToRead, Retry, wireVars
<1>3. CASE ReadMessage
    <2> DEFINE m == Head(toClient)
    <2>1. m \in Incoming /\ Tail(toClient) \in Seq(Incoming) /\ toClient' = Tail(toClient)
          /\ latest' = m /\ HandleMessage(m)
        BY <1>3, HeadTailProperties DEF ReadMessage
    <2>2. CASE Send(sends, Pong, FALSE) /\ UNCHANGED <<state, toBot, crashed>>
        <3>1. sends' \in Seq(Coroutine)
            BY <2>2, AppendCoroutine, MessageTypes DEF Send
        <3> QED BY <1>3, <2>1, <2>2, <3>1 DEF ReadMessage
    <2>3. CASE Visit(sends, m)
        <3>1. ClientTypes /\ toBot' \in Seq(1..MaxChats)
            BY <2>1, <2>3, VisitType
        <3> QED BY <1>3, <2>1, <3>1 DEF ReadMessage, ClientTypes
    <2> QED BY <2>1, <2>2, <2>3 DEF HandleMessage
<1>4. CASE SendCompletes
    <2>1. /\ Tail(sends) \in Seq(Coroutine) /\ Head(sends) \in Coroutine
          /\ Resume(Tail(sends), Head(sends))
        BY <1>4, HeadTailProperties DEF SendCompletes
    <2>2. /\ ClientTypes
          /\ worker' \in {"resolving", "registering", "reading", "sleeping"}
          /\ handling' \in BOOLEAN /\ toBot' \in Seq(1..MaxChats)
        BY <2>1, SameTypes, ResumeType
    <2>3. Head(sends).message \in Outgoing
        BY <2>1 DEF Coroutine
    <2>4. toServer' \in Seq(Outgoing)
        BY <1>4, <2>3, AppendProperties DEF SendCompletes
    <2> QED BY <1>4, <2>2, <2>4 DEF SendCompletes, ClientTypes
<1>5. CASE HandleOutgoing
    <2>1. sends' \in Seq(Coroutine) /\ done' \in DoneType
        BY <1>5, AppendCoroutine, MessageTypes, DoneTypes DEF HandleOutgoing, Send
    <2> QED BY <1>5, <2>1 DEF HandleOutgoing, wireVars
<1>6. CASE HandleExit
    <2>1. state' \in StateType /\ done' \in DoneType
        BY <1>6, StateTypes, DoneTypes DEF HandleExit
    <2> QED BY <1>6, <2>1 DEF HandleExit, wireVars
<1>7. CASE ServerReads
    <2>1. server' \in ServerType /\ toClient' \in Seq(Incoming) /\ toServer' \in Seq(Outgoing)
        BY <1>7, ServerReadsType
    <2> QED BY <1>7, <2>1 DEF ServerReads
<1>8. CASE ServerPings \/ ServerRelays
    <2>1. PICK m \in Incoming : Answer(m)
        BY <1>8, DoneTypes, MessageTypes DEF ServerPings, ServerRelays
    <2>2. toClient' \in Seq(Incoming) /\ done' \in DoneType
        BY <1>8, <2>1, AnswerType, DoneTypes DEF ServerPings, ServerRelays
    <2> QED BY <1>8, <2>2 DEF ServerPings, ServerRelays
<1>9. CASE ServerCloses
    <2>1. NewServer \in ServerType /\ done' \in DoneType
        BY <1>9, DoneTypes DEF ServerCloses, NewServer, ServerType
    <2> QED BY <1>9, <2>1 DEF ServerCloses
<1>10. CASE ServerStalls
    <2>1. done' \in DoneType
        BY <1>10, DoneTypes DEF ServerStalls
    <2> QED BY <1>10, <2>1 DEF ServerStalls, wireVars
<1>11. CASE UNCHANGED vars
    BY <1>11 DEF vars
<1> QED BY <1>1, <1>2, <1>3, <1>4, <1>5, <1>6, <1>7, <1>8, <1>9, <1>10, <1>11
    DEF Next, Client, Server

\* Every variable has its type, for every number of nicks, channels and messages:
\* whatever the client sends is one of its commands, and m_nick_try stays within
\* two of the end of the list.
THEOREM ClientTyped == Spec => []TypeOK
BY InitType, NextType, PTL DEF Spec

-----------------------------------------------------------------------------
\* How the queue of suspended coroutines changes: the first d of them go, and at
\* most one is appended.
Moves(d, new) ==
    /\ d \in {0, 1} /\ d <= Len(sends)
    /\ sends' \in Seq(Coroutine)
    /\ \A i \in 1..Len(sends') :
        \/ i + d \in 1..Len(sends) /\ sends'[i] = sends[i + d]
        \/ i + d = Len(sends) + 1 /\ sends'[i] \in new
    /\ \A i \in 1..Len(sends) : i > d => i - d \in 1..Len(sends') /\ sends'[i - d] = sends[i]
    /\ \A x \in new : \E i \in 1..Len(sends') : sends'[i] = x

\* rest is what is left of it when the first d are gone.
IsRest(rest, d) ==
    /\ d \in {0, 1} /\ d <= Len(sends)
    /\ rest \in Seq(Coroutine) /\ Len(rest) = Len(sends) - d
    /\ \A i \in 1..Len(rest) : rest[i] = sends[i + d]

LEMMA RestAll == ASSUME sends \in Seq(Coroutine) PROVE IsRest(sends, 0)
BY DEF IsRest

LEMMA RestTail ==
    ASSUME sends \in Seq(Coroutine), sends # <<>>
    PROVE  IsRest(Tail(sends), 1)
<1> DEFINE t == Tail(sends)
<1>1. /\ t \in Seq(Coroutine) /\ Len(t) = Len(sends) - 1 /\ Len(sends) \in Nat \ {0}
      /\ \A i \in 1..Len(t) : t[i] = sends[i + 1]
    BY HeadTailProperties
<1> HIDE DEF t
<1>2. IsRest(t, 1)
    BY <1>1 DEF IsRest
<1> QED BY <1>2 DEF t

LEMMA EndsMoves ==
    ASSUME sends \in Seq(Coroutine), NEW rest, NEW d, IsRest(rest, d), sends' = rest
    PROVE  Moves(d, {})
<1>1. Len(sends) \in Nat
    OBVIOUS
<1> QED BY <1>1 DEF IsRest, Moves

LEMMA AppendMoves ==
    ASSUME sends \in Seq(Coroutine), NEW rest, NEW d, IsRest(rest, d), NEW x \in Coroutine,
           sends' = Append(rest, x)
    PROVE  Moves(d, {x})
<1>1. /\ rest \in Seq(Coroutine) /\ d \in {0, 1} /\ d <= Len(sends) /\ Len(sends) \in Nat
      /\ Len(rest) = Len(sends) - d /\ \A i \in 1..Len(rest) : rest[i] = sends[i + d]
    BY DEF IsRest
<1>2. /\ sends' \in Seq(Coroutine) /\ Len(sends') = Len(rest) + 1
      /\ sends'[Len(rest) + 1] = x
      /\ \A i \in 1..Len(rest) : sends'[i] = rest[i]
    BY <1>1, AppendProperties
<1>3. ASSUME NEW i \in 1..Len(sends')
      PROVE  \/ i + d \in 1..Len(sends) /\ sends'[i] = sends[i + d]
             \/ i + d = Len(sends) + 1 /\ sends'[i] \in {x}
    <2>1. CASE i \in 1..Len(rest)
        BY <1>1, <1>2, <2>1
    <2>2. CASE i = Len(rest) + 1
        BY <1>1, <1>2, <2>2
    <2> QED BY <1>1, <1>2, <2>1, <2>2
<1>4. ASSUME NEW i \in 1..Len(sends), i > d
      PROVE  i - d \in 1..Len(sends') /\ sends'[i - d] = sends[i]
    <2>1. i - d \in 1..Len(rest) /\ (i - d) + d = i
        BY <1>1, <1>4
    <2> QED BY <1>1, <1>2, <2>1
<1>5. Len(rest) + 1 \in 1..Len(sends')
    BY <1>1, <1>2
<1> QED BY <1>1, <1>2, <1>3, <1>4, <1>5 DEF Moves

LEMMA SendMoves ==
    ASSUME sends \in Seq(Coroutine), NEW rest, NEW d, IsRest(rest, d),
           NEW m \in Outgoing, NEW w \in BOOLEAN, Send(rest, m, w)
    PROVE  Moves(d, {Suspended(m, w)})
<1>1. Suspended(m, w) \in Coroutine
    BY DEF Suspended, Coroutine
<1> QED BY <1>1, AppendMoves DEF Send

\* Numbers.
LEMMA Numbers ==
    ASSUME TypeOK
    PROVE  /\ NickCount \in Nat \ {0} /\ InUse \subseteq Nicks
           /\ state.n \in Nat /\ server.nick \in Int /\ done.pings \in Nat
           /\ sends \in Seq(Coroutine) /\ toServer \in Seq(Outgoing)
           /\ toClient \in Seq(Incoming)
           /\ Len(sends) \in Nat /\ Len(toServer) \in Nat /\ Len(toClient) \in Nat
           /\ \A i \in 1..Len(sends) :
                /\ sends[i] \in Coroutine
                /\ IsNick(sends[i]) =>
                    NickOf(sends[i]) \in Nicks \cup {Garbage} /\ NickOf(sends[i]) \in Int
           /\ \A i \in 1..Len(toServer) :
                toServer[i].command = "NICK" =>
                    /\ toServer[i].nick \in Nicks \cup {Garbage} /\ toServer[i].nick \in Int
<1>1. TypeParts
    BY SameTypes
<1>2. /\ NickCount \in Nat \ {0} /\ InUse \subseteq Nicks
      /\ state.n \in Nat /\ server.nick \in Int /\ done.pings \in Nat
    BY <1>1, CountsAssumption, InUseAssumption, SMTT(30)
       DEF TypeParts, StateType, ServerType, DoneType, Nicks, NoNick
<1>3. /\ sends \in Seq(Coroutine) /\ toServer \in Seq(Outgoing) /\ toClient \in Seq(Incoming)
    BY <1>1 DEF TypeParts
<1>4. Len(sends) \in Nat /\ Len(toServer) \in Nat /\ Len(toClient) \in Nat
    BY <1>3
<1>5. Nicks \cup {Garbage} \subseteq Int
    BY <1>2 DEF Nicks, Garbage
<1>6. ASSUME NEW i \in 1..Len(sends)
      PROVE  /\ sends[i] \in Coroutine
             /\ IsNick(sends[i]) =>
                    NickOf(sends[i]) \in Nicks \cup {Garbage} /\ NickOf(sends[i]) \in Int
    <2>1. sends[i] \in Coroutine
        BY <1>3, ElementOfSeq
    <2>2. sends[i].message \in Outgoing
        BY <2>1 DEF Coroutine
    <2> QED BY <1>5, <2>1, <2>2, OutgoingParts DEF IsNick, NickOf
<1>7. ASSUME NEW i \in 1..Len(toServer), toServer[i].command = "NICK"
      PROVE  toServer[i].nick \in Nicks \cup {Garbage} /\ toServer[i].nick \in Int
    <2>1. toServer[i] \in Outgoing
        BY <1>3, ElementOfSeq
    <2> QED BY <1>5, <1>7, <2>1, OutgoingParts
<1> QED BY <1>2, <1>3, <1>4, <1>6, <1>7

\* What kind of coroutine sends what.
LEMMA Kinds ==
    ASSUME NEW w
    PROVE  /\ IsPass(Suspended(Pass, w)) /\ ~IsNick(Suspended(Pass, w))
           /\ ~IsPong(Suspended(Pass, w)) /\ IsStart(Suspended(Pass, w))
           /\ \A n : /\ IsNick(Suspended(NickIs(n), w)) /\ ~IsPass(Suspended(NickIs(n), w))
                     /\ ~IsPong(Suspended(NickIs(n), w)) /\ IsStart(Suspended(NickIs(n), w))
                     /\ NickOf(Suspended(NickIs(n), w)) = n
           /\ \A m : m \in {User, PrivmsgOut} \/ (\E k : m = Join(k)) =>
                ~IsStart(Suspended(m, w)) /\ ~IsPong(Suspended(m, w))
           /\ ~IsStart(Suspended(Pong, w)) /\ IsPong(Suspended(Pong, w))
<1> USE DEF Suspended, IsPass, IsNick, IsPong, IsStart
<1>1. /\ IsPass(Suspended(Pass, w)) /\ ~IsNick(Suspended(Pass, w))
      /\ ~IsPong(Suspended(Pass, w)) /\ IsStart(Suspended(Pass, w))
    BY DEF Pass
<1>2. ASSUME NEW n
      PROVE  /\ IsNick(Suspended(NickIs(n), w)) /\ ~IsPass(Suspended(NickIs(n), w))
             /\ ~IsPong(Suspended(NickIs(n), w)) /\ IsStart(Suspended(NickIs(n), w))
             /\ NickOf(Suspended(NickIs(n), w)) = n
    BY DEF NickIs, NickOf
<1>3. ASSUME NEW m, m \in {User, PrivmsgOut} \/ (\E k : m = Join(k))
      PROVE  ~IsStart(Suspended(m, w)) /\ ~IsPong(Suspended(m, w))
    <2>1. m.command \in {"USER", "PRIVMSG", "JOIN"}
        BY <1>3 DEF User, PrivmsgOut, Join
    <2> QED BY <2>1
<1>4. ~IsStart(Suspended(Pong, w)) /\ IsPong(Suspended(Pong, w))
    BY DEF Pong
<1> QED BY <1>1, <1>2, <1>3, <1>4

-----------------------------------------------------------------------------
\* Steps that leave every registration where it is.  The NICKs and the refusals
\* under way stay, one place further if the head of a queue was taken.
StartsKept(d, new) ==
    /\ Moves(d, new)
    /\ d = 1 => ~IsStart(sends[1])
    /\ \A x \in new : ~IsStart(x) /\ (IsPong(x) => latest' # NickInUse)

NicksKept(f) ==
    /\ f \in {0, 1}
    /\ \A i \in 1..Len(toServer') : toServer'[i].command = "NICK" =>
            i + f \in 1..Len(toServer) /\ toServer'[i] = toServer[i + f]
    /\ \A i \in 1..Len(toServer) : toServer[i].command = "NICK" =>
            i - f \in 1..Len(toServer') /\ toServer'[i - f] = toServer[i]
    /\ server'.nick = server.nick

RefusalsKept(e) ==
    /\ e \in {0, 1}
    /\ \A i \in 1..Len(toClient') : toClient'[i] = NickInUse =>
            i + e \in 1..Len(toClient) /\ toClient'[i] = toClient[i + e]
    /\ \A i \in 1..Len(toClient) : toClient[i] = NickInUse =>
            i - e \in 1..Len(toClient') /\ toClient'[i - e] = toClient[i]

LEMMA StartsStay ==
    ASSUME Len(sends) \in Nat, NEW d, NEW new, StartsKept(d, new)
    PROVE  /\ d \in {0, 1} /\ Len(sends') \in Nat
           /\ \A i \in 1..Len(sends') : IsStart(sends'[i]) =>
                    i + d \in 1..Len(sends) /\ sends'[i] = sends[i + d]
           /\ \A i \in 1..Len(sends) : IsStart(sends[i]) =>
                    i - d \in 1..Len(sends') /\ sends'[i - d] = sends[i]
           /\ \A i \in 1..Len(sends') : IsPong(sends'[i]) /\ latest' = NickInUse =>
                    i + d \in 1..Len(sends) /\ sends'[i] = sends[i + d]
           /\ NoPass' <=> NoPass
<1>1. d \in {0, 1} /\ sends' \in Seq(Coroutine)
    BY DEF StartsKept, Moves
<1>2. \A i \in 1..Len(sends') : IsStart(sends'[i]) =>
            i + d \in 1..Len(sends) /\ sends'[i] = sends[i + d]
    BY <1>1 DEF StartsKept, Moves
<1>3. \A i \in 1..Len(sends) : IsStart(sends[i]) =>
            i - d \in 1..Len(sends') /\ sends'[i - d] = sends[i]
    BY <1>1 DEF StartsKept, Moves
<1>4. \A i \in 1..Len(sends') : IsPong(sends'[i]) /\ latest' = NickInUse =>
            i + d \in 1..Len(sends) /\ sends'[i] = sends[i + d]
    BY <1>1 DEF StartsKept, Moves
<1>5. NoPass' <=> NoPass
    BY <1>1, <1>2, <1>3 DEF NoPass, IsStart
<1> QED BY <1>1, <1>2, <1>3, <1>4, <1>5

LEMMA QueuesStay ==
    ASSUME Len(toServer) \in Nat, Len(toClient) \in Nat, NEW f, NEW e, NicksKept(f), RefusalsKept(e)
    PROVE  (NoNickAtServer' <=> NoNickAtServer) /\ (NoRefusal' <=> NoRefusal)
<1>1. NoNickAtServer' <=> NoNickAtServer
    BY DEF NicksKept, NoNickAtServer
<1>2. NoRefusal' <=> NoRefusal
    BY DEF RefusalsKept, NoRefusal
<1> QED BY <1>1, <1>2

\* The nicks under way, where they are at the server too.
LEMMA NicksStay ==
    ASSUME TypeOK, NEW d, NEW new, NEW f, StartsKept(d, new), NicksKept(f), state' = state
    PROVE  /\ GoodNicks => GoodNicks'
           /\ InOrder => InOrder'
           /\ Arrives => Arrives'
<1>1. /\ Len(sends) \in Nat /\ Len(toServer) \in Nat /\ state.n \in Nat /\ server.nick \in Int
      /\ \A i \in 1..Len(sends) : IsNick(sends[i]) => NickOf(sends[i]) \in Int
      /\ \A i \in 1..Len(toServer) : toServer[i].command = "NICK" => toServer[i].nick \in Int
    BY Numbers
<1>2. /\ d \in {0, 1} /\ Len(sends') \in Nat
      /\ \A i \in 1..Len(sends') : IsNick(sends'[i]) =>
            i + d \in 1..Len(sends) /\ sends'[i] = sends[i + d]
      /\ \A i \in 1..Len(sends) : IsNick(sends[i]) =>
            i - d \in 1..Len(sends') /\ sends'[i - d] = sends[i]
    BY <1>1, StartsStay DEF IsStart
<1>3. /\ f \in {0, 1} /\ server'.nick = server.nick
      /\ \A i \in 1..Len(toServer') : toServer'[i].command = "NICK" =>
            i + f \in 1..Len(toServer) /\ toServer'[i] = toServer[i + f]
      /\ \A i \in 1..Len(toServer) : toServer[i].command = "NICK" =>
            i - f \in 1..Len(toServer') /\ toServer'[i - f] = toServer[i]
    BY DEF NicksKept
<1>4. ASSUME GoodNicks PROVE GoodNicks'
    <2>1. \A i \in 1..Len(sends') :
            IsNick(sends'[i]) => NickOf(sends'[i]) \in Nicks \ InUse
        BY <1>2, <1>4 DEF GoodNicks
    <2>2. \A i \in 1..Len(toServer') :
            toServer'[i].command = "NICK" => toServer'[i].nick \in Nicks \ InUse
        BY <1>3, <1>4 DEF GoodNicks
    <2> QED BY <2>1, <2>2 DEF GoodNicks
<1>5. ASSUME Arrives PROVE Arrives'
    BY <1>1, <1>2, <1>3, <1>5 DEF Arrives
<1>6. ASSUME InOrder PROVE InOrder'
    <2>1. \A i \in 1..Len(sends') : IsNick(sends'[i]) =>
            NickOf(sends'[i]) <= state'.n /\ server'.nick <= NickOf(sends'[i])
        BY <1>2, <1>3, <1>6 DEF InOrder
    <2>2. \A i, j \in 1..Len(sends') :
            i < j /\ IsNick(sends'[i]) /\ IsNick(sends'[j])
                => NickOf(sends'[i]) <= NickOf(sends'[j])
        BY <1>1, <1>2, <1>6 DEF InOrder
    <2>3. ASSUME NEW i \in 1..Len(toServer'), toServer'[i].command = "NICK"
          PROVE  /\ server'.nick <= toServer'[i].nick
                 /\ toServer'[i].nick <= state'.n
                 /\ \A j \in 1..Len(sends') :
                        IsNick(sends'[j]) => toServer'[i].nick <= NickOf(sends'[j])
                 /\ \A j \in 1..Len(toServer') :
                        i < j /\ toServer'[j].command = "NICK"
                            => toServer'[i].nick <= toServer'[j].nick
        <3>1. i + f \in 1..Len(toServer) /\ toServer'[i] = toServer[i + f]
            BY <1>3, <2>3
        <3>2. server'.nick <= toServer'[i].nick /\ toServer'[i].nick <= state'.n
            BY <1>3, <1>6, <2>3, <3>1 DEF InOrder
        <3>3. \A j \in 1..Len(sends') :
                IsNick(sends'[j]) => toServer'[i].nick <= NickOf(sends'[j])
            BY <1>2, <1>6, <2>3, <3>1 DEF InOrder
        <3>4. ASSUME NEW j \in 1..Len(toServer'), i < j, toServer'[j].command = "NICK"
              PROVE  toServer'[i].nick <= toServer'[j].nick
            <4>1. j + f \in 1..Len(toServer) /\ toServer'[j] = toServer[j + f] /\ i + f < j + f
                BY <1>3, <3>1, <3>4
            <4> QED BY <1>6, <2>3, <3>1, <3>4, <4>1 DEF InOrder
        <3> QED BY <3>2, <3>3, <3>4
    <2>4. server'.nick <= state'.n
        BY <1>3, <1>6 DEF InOrder
    <2> QED BY <2>1, <2>2, <2>3, <2>4 DEF InOrder
<1> QED BY <1>4, <1>5, <1>6

LEMMA RegisteredKept ==
    ASSUME TypeOK, RegisteredInv, NEW d, NEW new, NEW f, StartsKept(d, new), NicksKept(f),
           state' = state, socket' = socket
    PROVE  RegisteredInv'
<1>1. NoPass' <=> NoPass
    BY Numbers, StartsStay
<1> QED BY <1>1, NicksStay DEF RegisteredInv

LEMMA ConnectedKept ==
    ASSUME TypeOK, ConnectedInv, NEW d, NEW new, NEW f, NEW e,
           StartsKept(d, new), NicksKept(f), RefusalsKept(e), Unknown => Unknown',
           state' = state, socket' = socket, crashed' = crashed,
           done'.pings >= done.pings, done'.pings \in Nat,
           latest' = latest \/ latest' # NickInUse
    PROVE  ConnectedInv'
<1> SUFFICES ASSUME state.name = "connected", ~crashed
             PROVE  /\ Single' \/ (Clear' /\ (socket = "connected" => GoodNicks'))
                    /\ PassFirst'
                    /\ PongFirst'
                    /\ socket = "connected" => InOrder' /\ (Arrives' \/ ~NoPass' \/ ~NoRefusal')
    BY DEF ConnectedInv
<1>1. /\ Len(sends) \in Nat /\ Len(toServer) \in Nat /\ Len(toClient) \in Nat
      /\ state.n \in Nat /\ done.pings \in Nat
    BY Numbers
<1>2. /\ d \in {0, 1} /\ Len(sends') \in Nat
      /\ \A i \in 1..Len(sends') : IsStart(sends'[i]) =>
            i + d \in 1..Len(sends) /\ sends'[i] = sends[i + d]
      /\ \A i \in 1..Len(sends) : IsStart(sends[i]) =>
            i - d \in 1..Len(sends') /\ sends'[i - d] = sends[i]
      /\ \A i \in 1..Len(sends') : IsPong(sends'[i]) /\ latest' = NickInUse =>
            i + d \in 1..Len(sends) /\ sends'[i] = sends[i + d]
      /\ NoPass' <=> NoPass
    BY <1>1, StartsStay
<1>3. (NoNickAtServer' <=> NoNickAtServer) /\ (NoRefusal' <=> NoRefusal)
    BY <1>1, QueuesStay
<1>4. ASSUME Single PROVE Single'
    <2>1. \A i, j \in 1..Len(sends') : IsStart(sends'[i]) /\ IsStart(sends'[j]) => i = j
        <3> SUFFICES ASSUME NEW i \in 1..Len(sends'), NEW j \in 1..Len(sends'),
                            IsStart(sends'[i]), IsStart(sends'[j])
                     PROVE  i = j
            OBVIOUS
        <3>1. /\ i + d \in 1..Len(sends) /\ IsStart(sends[i + d])
              /\ j + d \in 1..Len(sends) /\ IsStart(sends[j + d])
            BY <1>2
        <3>2. i + d = j + d
            BY <1>4, <3>1 DEF Single
        <3> QED BY <1>2, <3>2
    <2>2. \A i, j \in 1..Len(toServer') :
            toServer'[i].command = "NICK" /\ toServer'[j].command = "NICK" => i = j
        <3> SUFFICES ASSUME NEW i \in 1..Len(toServer'), NEW j \in 1..Len(toServer'),
                            toServer'[i].command = "NICK", toServer'[j].command = "NICK"
                     PROVE  i = j
            OBVIOUS
        <3>1. /\ i + f \in 1..Len(toServer) /\ toServer[i + f].command = "NICK"
              /\ j + f \in 1..Len(toServer) /\ toServer[j + f].command = "NICK"
              /\ f \in {0, 1}
            BY DEF NicksKept
        <3>2. i + f = j + f
            BY <1>4, <3>1 DEF Single
        <3> QED BY <3>1, <3>2
    <2>3. \A i, j \in 1..Len(toClient') :
            toClient'[i] = NickInUse /\ toClient'[j] = NickInUse => i = j
        <3> SUFFICES ASSUME NEW i \in 1..Len(toClient'), NEW j \in 1..Len(toClient'),
                            toClient'[i] = NickInUse, toClient'[j] = NickInUse
                     PROVE  i = j
            OBVIOUS
        <3>1. /\ i + e \in 1..Len(toClient) /\ toClient[i + e] = NickInUse
              /\ j + e \in 1..Len(toClient) /\ toClient[j + e] = NickInUse
              /\ e \in {0, 1}
            BY DEF RefusalsKept
        <3>2. i + e = j + e
            BY <1>4, <3>1 DEF Single
        <3> QED BY <3>1, <3>2
    <2>4. \A i \in 1..Len(sends') :
            IsStart(sends'[i]) => NoNickAtServer' /\ NoRefusal' /\ Unknown'
        BY <1>2, <1>3, <1>4 DEF Single
    <2>5. (~NoNickAtServer' => NoRefusal' /\ Unknown')
          /\ (~NoRefusal' => Unknown' /\ state'.n \in InUse)
        BY <1>3, <1>4 DEF Single
    <2> QED BY <2>1, <2>2, <2>3, <2>4, <2>5 DEF Single
<1>5. ASSUME Clear PROVE Clear'
    BY <1>1, <1>3, <1>5 DEF Clear
<1>6. PassFirst
    BY DEF ConnectedInv
<1>7. PassFirst'
    <2> SUFFICES ASSUME NEW i \in 1..Len(sends'), IsPass(sends'[i])
                 PROVE  /\ \A j \in 1..Len(sends') : IsNick(sends'[j]) =>
                                i < j /\ state'.n \in Nicks
                        /\ NoNickAtServer' /\ NoRefusal' /\ Unknown'
        BY DEF PassFirst
    <2>1. i + d \in 1..Len(sends) /\ IsPass(sends[i + d])
        BY <1>2 DEF IsStart
    <2>2. NoNickAtServer /\ NoRefusal /\ Unknown
        BY <1>6, <2>1 DEF PassFirst
    <2>3. ASSUME NEW j \in 1..Len(sends'), IsNick(sends'[j])
          PROVE  i < j /\ state'.n \in Nicks
        <3>1. j + d \in 1..Len(sends) /\ IsNick(sends[j + d])
            BY <1>2, <2>3 DEF IsStart
        <3>2. i + d < j + d /\ state.n \in Nicks
            BY <1>6, <2>1, <3>1 DEF PassFirst
        <3> QED BY <1>2, <3>2
    <2> QED BY <1>3, <2>2, <2>3
<1>8. PongFirst
    BY DEF ConnectedInv
<1>9. PongFirst'
    <2> SUFFICES ASSUME NEW i \in 1..Len(sends'), IsPong(sends'[i]), latest' = NickInUse
                 PROVE  /\ \A j \in 1..Len(sends') : IsStart(sends'[j]) => i < j
                        /\ HasPassword => \A j \in 1..Len(sends') : ~IsNick(sends'[j])
                        /\ NoNickAtServer' /\ NoRefusal' /\ Unknown'
                        /\ \E m \in InUse : m < state'.n
        BY DEF PongFirst
    <2>1. i + d \in 1..Len(sends) /\ IsPong(sends[i + d]) /\ latest = NickInUse
        BY <1>2
    <2>2. NoNickAtServer /\ NoRefusal /\ Unknown /\ \E m \in InUse : m < state.n
        BY <1>8, <2>1 DEF PongFirst
    <2>3. ASSUME NEW j \in 1..Len(sends'), IsStart(sends'[j])
          PROVE  i < j /\ (HasPassword => ~IsNick(sends'[j]))
        <3>1. j + d \in 1..Len(sends) /\ sends'[j] = sends[j + d] /\ IsStart(sends[j + d])
            BY <1>2, <2>3
        <3>2. i + d < j + d /\ (HasPassword => ~IsNick(sends[j + d]))
            BY <1>8, <2>1, <3>1 DEF PongFirst
        <3>3. i < j
            BY <1>2, <3>2
        <3> QED BY <3>1, <3>2, <3>3, Zenon
    <2>4. HasPassword => \A j \in 1..Len(sends') : ~IsNick(sends'[j])
        BY <2>3 DEF IsStart
    <2> QED BY <1>3, <2>2, <2>3, <2>4
<1>10. (GoodNicks => GoodNicks') /\ (InOrder => InOrder') /\ (Arrives => Arrives')
    BY NicksStay
<1> QED BY <1>2, <1>3, <1>4, <1>5, <1>7, <1>9, <1>10 DEF ConnectedInv

\* A registration starts or goes on with the next nick: a single message is sent for
\* it, PASS or NICK, behind the ones that are left, and no refusal is under way.
Renews(d, n, w) ==
    /\ state' = Connected(n)
    /\ HasPassword => Moves(d, {Suspended(Pass, w)})
    /\ ~HasPassword => n \in Nicks /\ Moves(d, {Suspended(NickIs(n), w)})

LEMMA EnterConnectedRenews ==
    ASSUME sends \in Seq(Coroutine), NEW rest, NEW d, IsRest(rest, d),
           NEW n \in Int, NEW w \in BOOLEAN, EnterConnected(rest, n, w)
    PROVE  state' = Connected(n) /\ (crashed' \/ (Renews(d, n, w) /\ crashed' = crashed))
<1>1. CASE HasPassword
    <2>1. Moves(d, {Suspended(Pass, w)})
        BY <1>1, SendMoves, MessageTypes DEF EnterConnected
    <2> QED BY <1>1, <2>1 DEF EnterConnected, Renews
<1>2. CASE ~HasPassword /\ n \in Nicks
    <2>1. NickIs(n) \in Outgoing
        BY <1>2, MessageTypes
    <2>2. Moves(d, {Suspended(NickIs(n), w)})
        BY <1>2, <2>1, SendMoves DEF EnterConnected, SendNick
    <2> QED BY <1>2, <2>2 DEF EnterConnected, Renews, SendNick
<1>3. CASE ~HasPassword /\ n \notin Nicks
    BY <1>3 DEF EnterConnected, Crash
<1> QED BY <1>1, <1>2, <1>3

LEMMA EnterFailureRenews ==
    ASSUME TypeOK, NEW rest, NEW d, IsRest(rest, d), NEW w \in BOOLEAN, EnterFailure(rest, w)
    PROVE  /\ state'.name = "connected" \/ state' = state
           /\ crashed' \/ (Renews(d, state.n + 1, w) /\ crashed' = crashed)
<1>1. sends \in Seq(Coroutine) /\ state.n + 1 \in Int
    BY Numbers
<1>2. CASE EnterConnected(rest, state.n + 1, w)
    BY <1>1, <1>2, EnterConnectedRenews DEF Connected, State
<1>3. CASE Crash(rest) /\ UNCHANGED state
    BY <1>3 DEF Crash
<1> QED BY <1>2, <1>3 DEF EnterFailure

\* The message of a registration that goes on.
LEMMA RenewedSends ==
    ASSUME TypeOK, NEW d, NEW n \in Nat, NEW w \in BOOLEAN, Renews(d, n, w)
    PROVE  \E x :
        /\ IsStart(x) /\ ~IsPong(x) /\ (IsNick(x) => ~HasPassword /\ NickOf(x) = n /\ n \in Nicks)
        /\ IF HasPassword THEN IsPass(x) /\ ~IsNick(x) ELSE ~IsPass(x) /\ IsNick(x)
        /\ d \in {0, 1} /\ Len(sends) \in Nat /\ Len(sends') \in Nat
        /\ \A i \in 1..Len(sends') :
            \/ i + d \in 1..Len(sends) /\ i + d > d /\ sends'[i] = sends[i + d]
            \/ i + d = Len(sends) + 1 /\ sends'[i] = x
        /\ \E i \in 1..Len(sends') : sends'[i] = x
<1>1. Len(sends) \in Nat
    BY Numbers
<1>2. CASE HasPassword
    <2> DEFINE x == Suspended(Pass, w)
    <2>1. IsPass(x) /\ ~IsNick(x) /\ IsStart(x) /\ ~IsPong(x) /\ Moves(d, {x})
        BY <1>2, Kinds DEF Renews
    <2> HIDE DEF x
    <2> QED BY <1>1, <1>2, <2>1 DEF Moves
<1>3. CASE ~HasPassword
    <2> DEFINE x == Suspended(NickIs(n), w)
    <2>1. IsNick(x) /\ ~IsPass(x) /\ IsStart(x) /\ ~IsPong(x) /\ NickOf(x) = n /\ n \in Nicks
          /\ Moves(d, {x})
        BY <1>3, Kinds DEF Renews
    <2> HIDE DEF x
    <2> QED BY <1>1, <1>3, <2>1 DEF Moves
<1> QED BY <1>2, <1>3

LEMMA Renewed ==
    ASSUME TypeOK, NEW d, NEW n \in Nat, NEW w \in BOOLEAN, Renews(d, n, w),
           NoNickAtServer', NoRefusal', Unknown', HasPassword \/ NoPass,
           \A i \in 1..Len(sends) : i > d /\ IsNick(sends[i]) => ~HasPassword,
           socket' = "connected" =>
                /\ \A i \in 1..Len(sends) : IsNick(sends[i]) => NickOf(sends[i]) <= n
                /\ \A i, j \in 1..Len(sends) :
                        i < j /\ IsNick(sends[i]) /\ IsNick(sends[j])
                            => NickOf(sends[i]) <= NickOf(sends[j]),
           \A i \in 1..Len(sends) : i > d /\ IsPong(sends[i]) /\ latest' = NickInUse =>
                /\ \A j \in 1..Len(sends) : j > d /\ IsStart(sends[j]) => i < j
                /\ \E m \in InUse : m < n,
           \/ \A i \in 1..Len(sends) : i > d => ~IsStart(sends[i])
           \/ /\ Clear'
              /\ socket' = "connected" => \A i \in 1..Len(sends) :
                    i > d /\ IsNick(sends[i]) => NickOf(sends[i]) \in Nicks \ InUse
    PROVE  ConnectedInv'
<1>1. PICK x :
        /\ IsStart(x) /\ ~IsPong(x) /\ (IsNick(x) => ~HasPassword /\ NickOf(x) = n /\ n \in Nicks)
        /\ IF HasPassword THEN IsPass(x) /\ ~IsNick(x) ELSE ~IsPass(x) /\ IsNick(x)
        /\ d \in {0, 1} /\ Len(sends) \in Nat /\ Len(sends') \in Nat
        /\ \A i \in 1..Len(sends') :
            \/ i + d \in 1..Len(sends) /\ i + d > d /\ sends'[i] = sends[i + d]
            \/ i + d = Len(sends) + 1 /\ sends'[i] = x
        /\ \E i \in 1..Len(sends') : sends'[i] = x
    BY RenewedSends
<1>2. state' = Connected(n) /\ state'.n = n
    BY DEF Renews, Connected, State
<1>3. InUse \subseteq Int /\ server'.nick = NoNick /\ NoNick \in Int /\ n > NoNick
      /\ \A i \in 1..Len(sends) : IsNick(sends[i]) =>
            NickOf(sends[i]) \in Int /\ NoNick <= NickOf(sends[i])
    BY Numbers DEF Unknown, NoNick, Garbage, Nicks
<1>4. ASSUME \A i \in 1..Len(sends) : i > d => ~IsStart(sends[i])
      PROVE  Single'
    <2>1. \A i, j \in 1..Len(sends') : IsStart(sends'[i]) /\ IsStart(sends'[j]) => i = j
        BY <1>1, <1>4
    <2>2. /\ \A i \in 1..Len(toServer') : toServer'[i].command # "NICK"
          /\ \A i \in 1..Len(toClient') : toClient'[i] # NickInUse
        BY DEF NoNickAtServer, NoRefusal
    <2>3. NoNickAtServer' /\ NoRefusal' /\ Unknown'
        OBVIOUS
    <2> QED BY ONLY <2>1, <2>2, <2>3, SMTT(30) DEF Single
<1>5. ASSUME Clear', socket' = "connected",
             \A i \in 1..Len(sends) :
                i > d /\ IsNick(sends[i]) => NickOf(sends[i]) \in Nicks \ InUse
      PROVE  GoodNicks'
    <2>1. n \notin InUse
        BY <1>2, <1>3, <1>5 DEF Clear
    <2>2. \A i \in 1..Len(sends') : IsNick(sends'[i]) => NickOf(sends'[i]) \in Nicks \ InUse
        BY <1>1, <1>5, <2>1
    <2> QED BY <2>2 DEF GoodNicks, NoNickAtServer
<1>6. PassFirst'
    <2>1. HasPassword => \A j \in 1..Len(sends') : ~IsNick(sends'[j])
        BY <1>1
    <2>2. ~HasPassword => \A j \in 1..Len(sends') : ~IsPass(sends'[j])
        BY <1>1 DEF NoPass
    <2> QED BY <2>1, <2>2 DEF PassFirst
<1>7. PongFirst'
    <2> SUFFICES ASSUME NEW i \in 1..Len(sends'), IsPong(sends'[i]), latest' = NickInUse
                 PROVE  /\ \A j \in 1..Len(sends') : IsStart(sends'[j]) => i < j
                        /\ HasPassword => \A j \in 1..Len(sends') : ~IsNick(sends'[j])
                        /\ \E m \in InUse : m < state'.n
        BY DEF PongFirst
    <2>1. i + d \in 1..Len(sends) /\ i + d > d /\ IsPong(sends[i + d])
        BY <1>1
    <2>2. \A j \in 1..Len(sends) : j > d /\ IsStart(sends[j]) => i + d < j
        BY <2>1
    <2>3. \E m \in InUse : m < state'.n
        BY <1>2, <2>1
    <2>4. \A j \in 1..Len(sends') : IsStart(sends'[j]) => i < j
        BY <1>1, <2>1, <2>2
    <2>5. HasPassword => \A j \in 1..Len(sends') : ~IsNick(sends'[j])
        BY <1>1
    <2> QED BY <2>3, <2>4, <2>5
<1>8. ASSUME socket' = "connected" PROVE InOrder'
    <2>1. \A i \in 1..Len(sends') : IsNick(sends'[i]) =>
            /\ NickOf(sends'[i]) <= n /\ NoNick <= NickOf(sends'[i])
        BY <1>1, <1>3, <1>8
    <2>2. ASSUME NEW i \in 1..Len(sends'), NEW j \in 1..Len(sends'), i < j,
                 IsNick(sends'[i]), IsNick(sends'[j])
          PROVE  NickOf(sends'[i]) <= NickOf(sends'[j])
        <3>1. i + d \in 1..Len(sends) /\ sends'[i] = sends[i + d]
            BY <1>1, <2>2
        <3>2. CASE j + d \in 1..Len(sends) /\ sends'[j] = sends[j + d]
            BY <1>1, <1>8, <2>2, <3>1, <3>2
        <3>3. CASE sends'[j] = x
            BY <1>1, <2>1, <2>2, <3>3
        <3> QED BY <1>1, <3>2, <3>3
    <2> QED BY <1>2, <1>3, <2>1, <2>2 DEF InOrder, NoNickAtServer
<1>9. ASSUME socket' = "connected" PROVE Arrives' \/ ~NoPass'
    <2>1. PICK i \in 1..Len(sends') : sends'[i] = x
        BY <1>1
    <2>2. CASE HasPassword
        BY <1>1, <2>1, <2>2 DEF NoPass
    <2>3. CASE ~HasPassword
        BY <1>1, <1>2, <2>1, <2>3 DEF Arrives
    <2> QED BY <2>2, <2>3
<1> QED BY <1>4, <1>5, <1>6, <1>7, <1>8, <1>9 DEF ConnectedInv

-----------------------------------------------------------------------------
\* What Tail and Append do, by index.
LEMMA TailIndexes ==
    ASSUME NEW S, NEW s \in Seq(S), s # <<>>
    PROVE  /\ Len(s) \in Nat /\ 1 \in 1..Len(s) /\ Head(s) = s[1]
           /\ Tail(s) \in Seq(S) /\ Len(Tail(s)) \in Nat
           /\ \A i \in 1..Len(Tail(s)) : i + 1 \in 1..Len(s) /\ Tail(s)[i] = s[i + 1]
           /\ \A i \in 1..Len(s) : i = 1 \/ (i - 1 \in 1..Len(Tail(s)) /\ Tail(s)[i - 1] = s[i])
<1> DEFINE t == Tail(s)
<1>1. /\ t \in Seq(S) /\ Len(t) = Len(s) - 1 /\ Len(s) \in Nat \ {0}
      /\ \A i \in 1..Len(t) : t[i] = s[i + 1]
      /\ Head(s) = s[1]
    BY HeadTailProperties
<1> HIDE DEF t
<1>2. \A i \in 1..Len(t) : i + 1 \in 1..Len(s) /\ t[i] = s[i + 1]
    BY <1>1
<1>3. ASSUME NEW i \in 1..Len(s), i # 1
      PROVE  i - 1 \in 1..Len(t) /\ t[i - 1] = s[i]
    <2>1. i - 1 \in 1..Len(t) /\ (i - 1) + 1 = i
        BY <1>1, <1>3
    <2> QED BY <1>1, <2>1
<1>4. Len(t) \in Nat /\ 1 \in 1..Len(s) /\ Len(s) \in Nat
    BY <1>1
<1>5. /\ Len(s) \in Nat /\ 1 \in 1..Len(s) /\ Head(s) = s[1]
      /\ t \in Seq(S) /\ Len(t) \in Nat
      /\ \A i \in 1..Len(t) : i + 1 \in 1..Len(s) /\ t[i] = s[i + 1]
      /\ \A i \in 1..Len(s) : i = 1 \/ (i - 1 \in 1..Len(t) /\ t[i - 1] = s[i])
    BY <1>1, <1>2, <1>3, <1>4
<1> QED BY <1>5 DEF t

LEMMA AppendIndexes ==
    ASSUME NEW S, NEW s \in Seq(S), NEW x \in S
    PROVE  /\ Len(s) \in Nat /\ Append(s, x) \in Seq(S) /\ Len(Append(s, x)) = Len(s) + 1
           /\ \A i \in 1..Len(Append(s, x)) :
                \/ i \in 1..Len(s) /\ Append(s, x)[i] = s[i]
                \/ i = Len(s) + 1 /\ Append(s, x)[i] = x
           /\ \A i \in 1..Len(s) : i \in 1..Len(Append(s, x)) /\ Append(s, x)[i] = s[i]
           /\ Len(s) + 1 \in 1..Len(Append(s, x)) /\ Append(s, x)[Len(s) + 1] = x
<1> DEFINE t == Append(s, x)
<1>1. /\ t \in Seq(S) /\ Len(t) = Len(s) + 1 /\ Len(s) \in Nat
      /\ \A i \in 1..Len(s) : t[i] = s[i]
      /\ t[Len(s) + 1] = x
    BY AppendProperties
<1> HIDE DEF t
<1>2. /\ Len(s) \in Nat /\ t \in Seq(S) /\ Len(t) = Len(s) + 1
      /\ \A i \in 1..Len(t) :
            \/ i \in 1..Len(s) /\ t[i] = s[i]
            \/ i = Len(s) + 1 /\ t[i] = x
      /\ \A i \in 1..Len(s) : i \in 1..Len(t) /\ t[i] = s[i]
      /\ Len(s) + 1 \in 1..Len(t) /\ t[Len(s) + 1] = x
    BY <1>1
<1> QED BY <1>2 DEF t

\* What the queue of messages from the server keeps when one is read ...
LEMMA ClientReads ==
    ASSUME TypeOK, toClient # <<>>, toClient' = Tail(toClient), server' = server
    PROVE  /\ Head(toClient) = toClient[1] /\ 1 \in 1..Len(toClient)
           /\ Unknown => Unknown'
           /\ toClient[1] # NickInUse => RefusalsKept(1)
           /\ Single => NoRefusal' \/ toClient[1] # NickInUse
<1>1. /\ Len(toClient) \in Nat /\ 1 \in 1..Len(toClient) /\ Head(toClient) = toClient[1]
      /\ Len(toClient') \in Nat
      /\ \A i \in 1..Len(toClient') : i + 1 \in 1..Len(toClient) /\ toClient'[i] = toClient[i + 1]
      /\ \A i \in 1..Len(toClient) :
            i = 1 \/ (i - 1 \in 1..Len(toClient') /\ toClient'[i - 1] = toClient[i])
    BY Numbers, TailIndexes
<1>2. Unknown => Unknown'
    BY <1>1 DEF Unknown, NoWelcome
<1>3. toClient[1] # NickInUse => RefusalsKept(1)
    BY <1>1 DEF RefusalsKept
<1>4. ASSUME Single, toClient[1] = NickInUse PROVE NoRefusal'
    <2>1. \A i \in 1..Len(toClient) : toClient[i] = NickInUse => i = 1
        BY <1>1, <1>4 DEF Single
    <2>2. \A i \in 1..Len(toClient') : i + 1 # 1
        OBVIOUS
    <2> QED BY <1>1, <2>1, <2>2 DEF NoRefusal
<1> QED BY <1>1, <1>2, <1>3, <1>4

\* ... and when one is added.
LEMMA ClientGets ==
    ASSUME TypeOK, NEW m \in Incoming, toClient' = Append(toClient, m), m # NickInUse
    PROVE  /\ RefusalsKept(0)
           /\ server'.nick = server.nick /\ (m = Welcome => server.nick # NoNick)
                => (Unknown => Unknown')
<1>1. /\ Len(toClient) \in Nat /\ Len(toClient') = Len(toClient) + 1
      /\ \A i \in 1..Len(toClient') :
            \/ i \in 1..Len(toClient) /\ toClient'[i] = toClient[i]
            \/ i = Len(toClient) + 1 /\ toClient'[i] = m
      /\ \A i \in 1..Len(toClient) : i \in 1..Len(toClient') /\ toClient'[i] = toClient[i]
    BY Numbers, AppendIndexes
<1>2. RefusalsKept(0)
    BY <1>1 DEF RefusalsKept
<1>3. ASSUME server'.nick = server.nick, m = Welcome => server.nick # NoNick, Unknown
      PROVE  Unknown'
    BY <1>1, <1>3 DEF Unknown, NoWelcome
<1> QED BY <1>2, <1>3

LEMMA ClientSame ==
    ASSUME TypeOK, toClient' = toClient, server'.nick = server.nick
    PROVE  RefusalsKept(0) /\ (Unknown => Unknown')
<1>1. Len(toClient) \in Nat
    BY Numbers
<1>2. RefusalsKept(0)
    BY <1>1 DEF RefusalsKept
<1> QED BY <1>2 DEF Unknown, NoWelcome

LEMMA ServerSame ==
    ASSUME TypeOK, toServer' = toServer, server'.nick = server.nick
    PROVE  NicksKept(0)
<1>1. Len(toServer) \in Nat
    BY Numbers
<1> QED BY <1>1 DEF NicksKept

LEMMA ServerGets ==
    ASSUME TypeOK, NEW m \in Outgoing, m.command # "NICK",
           toServer' = Append(toServer, m) \/ toServer' = toServer,
           server'.nick = server.nick
    PROVE  NicksKept(0)
<1>1. CASE toServer' = Append(toServer, m)
    <2>1. /\ Len(toServer) \in Nat /\ Len(toServer') = Len(toServer) + 1
          /\ \A i \in 1..Len(toServer') :
                \/ i \in 1..Len(toServer) /\ toServer'[i] = toServer[i]
                \/ i = Len(toServer) + 1 /\ toServer'[i] = m
          /\ \A i \in 1..Len(toServer) : i \in 1..Len(toServer') /\ toServer'[i] = toServer[i]
        BY <1>1, Numbers, AppendIndexes
    <2> QED BY <2>1 DEF NicksKept
<1> QED BY <1>1, ServerSame

-----------------------------------------------------------------------------
\* Every step keeps client and server agreed on the nick.
Agreed == ConnectedInv /\ RegisteredInv

LEMMA RenewsAgreed ==
    ASSUME NEW d, NEW n, NEW w, Renews(d, n, w), ConnectedInv'
    PROVE  Agreed'
BY DEF Renews, Connected, State, RegisteredInv, Agreed

LEMMA CrashAgreed ==
    ASSUME crashed', state'.name # "registered"
    PROVE  Agreed'
BY DEF Agreed, ConnectedInv, RegisteredInv

LEMMA ElsewhereAgreed ==
    ASSUME state'.name \notin {"connected", "registered"}
    PROVE  Agreed'
BY DEF Agreed, ConnectedInv, RegisteredInv

LEMMA KeptAgreed ==
    ASSUME TypeOK, Agreed, NEW d, NEW new, NEW f, NEW e,
           StartsKept(d, new), NicksKept(f),
           state.name = "connected" => RefusalsKept(e) /\ (Unknown => Unknown')
                                       /\ (latest' = latest \/ latest' # NickInUse),
           state' = state, socket' = socket, crashed' = crashed,
           done'.pings >= done.pings, done'.pings \in Nat
    PROVE  Agreed'
<1>1. RegisteredInv'
    BY RegisteredKept DEF Agreed
<1>2. CASE state.name = "connected"
    BY <1>1, <1>2, ConnectedKept DEF Agreed
<1>3. CASE state.name # "connected"
    BY <1>1, <1>3 DEF Agreed, ConnectedInv
<1> QED BY <1>2, <1>3

\* A new attempt starts with nothing under way.
LEMMA StartAgreed ==
    ASSUME TypeOK, WorkerInv, HandlerInv, worker = "resolving", StartRegistration
    PROVE  Agreed'
<1>1. /\ Len(sends) \in Nat /\ sends \in Seq(Coroutine)
      /\ \A i \in 1..Len(sends) : ~IsStart(sends[i]) /\ ~IsPong(sends[i])
    <2>1. \A i \in 1..Len(sends) : sends[i].message.command = "PRIVMSG"
        BY DEF WorkerInv, PrivmsgOut
    <2> QED BY <2>1, Numbers DEF IsStart, IsPass, IsNick, IsPong
<1>2. toClient = <<>> /\ toServer = <<>> /\ server = NewServer
    BY DEF WorkerInv
<1>3. toClient' = <<>> /\ toServer' = <<>> /\ server' = NewServer
    BY <1>2 DEF StartRegistration, wireVars
<1>4. NoNickAtServer' /\ NoRefusal' /\ Unknown'
    BY <1>3 DEF NoNickAtServer, NoRefusal, Unknown, NoWelcome, NewServer
<1>5. EnterConnected(sends, 0, TRUE) /\ IsRest(sends, 0)
    BY <1>1, RestAll DEF StartRegistration
<1>6. state' = Connected(0) /\ (crashed' \/ Renews(0, 0, TRUE))
    <2>1. 0 \in Int /\ TRUE \in BOOLEAN
        OBVIOUS
    <2> QED BY <1>1, <1>5, <2>1, EnterConnectedRenews, Zenon
<1>7. CASE crashed'
    BY <1>6, <1>7, CrashAgreed DEF Connected, State
<1>8. CASE Renews(0, 0, TRUE)
    <2>1. NoPass
        BY <1>1 DEF NoPass, IsStart
    <2>2. \A i \in 1..Len(sends) : ~IsNick(sends[i])
        BY <1>1 DEF IsStart
    <2>3. ConnectedInv'
        BY <1>1, <1>4, <1>8, <2>1, <2>2, Renewed
    <2> QED BY <1>8, <2>3, RenewsAgreed
<1> QED BY <1>6, <1>7, <1>8

\* The refused nick is the one in the state; the next one is tried.
LEMMA RefusalAgreed ==
    ASSUME TypeOK, HandlerInv, Agreed, ~crashed, state.name = "connected", toClient # <<>>,
           toClient' = Tail(toClient), latest' = NickInUse, toClient[1] = NickInUse,
           toServer' = toServer, server' = server, EnterFailure(sends, FALSE)
    PROVE  Agreed'
<1>1. /\ state.n \in Nat /\ sends \in Seq(Coroutine) /\ Len(sends) \in Nat
      /\ 1 \in 1..Len(toClient)
    BY Numbers, ClientReads
<1>2. ~NoRefusal
    BY <1>1 DEF NoRefusal
<1>3. Single
    BY <1>2 DEF Agreed, ConnectedInv, Clear
<1>4. /\ \A i \in 1..Len(sends) : ~IsStart(sends[i])
      /\ NoNickAtServer /\ Unknown /\ state.n \in InUse
    BY <1>2, <1>3 DEF Single
<1>5. NoNickAtServer' /\ NoRefusal' /\ Unknown'
    BY <1>3, <1>4, ClientReads DEF NoNickAtServer
<1>6. /\ state'.name = "connected" \/ state' = state
      /\ crashed' \/ Renews(0, state.n + 1, FALSE)
    BY <1>1, RestAll, EnterFailureRenews
<1>7. CASE crashed'
    BY <1>6, <1>7, CrashAgreed
<1>8. CASE Renews(0, state.n + 1, FALSE)
    <2>1. NoPass /\ \A i \in 1..Len(sends) : ~IsNick(sends[i])
        BY <1>4 DEF NoPass, IsStart
    <2>2. state.n + 1 \in Nat /\ \E m \in InUse : m < state.n + 1
        BY <1>1, <1>4
    <2>3. ConnectedInv'
        BY <1>4, <1>5, <1>8, <2>1, <2>2, Renewed
    <2> QED BY <1>8, <2>3, RenewsAgreed
<1> QED BY <1>6, <1>7, <1>8

\* The client is welcomed: under the nick in the state, or it will be.
LEMMA WelcomeAgreed ==
    ASSUME TypeOK, Agreed, ~crashed, state.name = "connected", toClient # <<>>,
           toClient[1] = Welcome, toServer' = toServer, server' = server, socket' = socket,
           EnterRegistered(sends)
    PROVE  Agreed'
<1>1. /\ state.n \in Nat /\ sends \in Seq(Coroutine) /\ Len(sends) \in Nat
      /\ 1 \in 1..Len(toClient) /\ ChannelCount \in Nat
    BY Numbers, TailIndexes, CountsAssumption
<1>2. ~Unknown
    BY <1>1 DEF Unknown, NoWelcome
<1>3. NoPass
    BY <1>2 DEF Agreed, ConnectedInv, PassFirst, NoPass
<1>4. ASSUME socket = "connected" PROVE GoodNicks /\ InOrder /\ Arrives
    <2>1. CASE Single
        <3>1. (\A i \in 1..Len(sends) : ~IsStart(sends[i])) /\ NoNickAtServer /\ NoRefusal
            BY <1>2, <2>1 DEF Single
        <3>2. GoodNicks
            BY <3>1 DEF GoodNicks, NoNickAtServer, IsStart
        <3> QED BY <1>3, <1>4, <3>1, <3>2 DEF Agreed, ConnectedInv
    <2>2. CASE Clear /\ GoodNicks
        BY <1>3, <1>4, <2>2 DEF Agreed, ConnectedInv, Clear
    <2> QED BY <1>4, <2>1, <2>2 DEF Agreed, ConnectedInv
<1>5. \E new : StartsKept(0, new)
    <2>1. CASE sends' = Append(sends, Suspended(Join(1), FALSE)) /\ 1 <= ChannelCount
        <3> DEFINE x == Suspended(Join(1), FALSE)
        <3>1. Join(1) \in Outgoing
            BY <1>1, <2>1, MessageTypes
        <3>2. Moves(0, {x})
            BY <1>1, <2>1, <3>1, RestAll, SendMoves DEF Send
        <3>3. ~IsStart(x) /\ ~IsPong(x)
            BY Kinds
        <3> HIDE DEF x
        <3>4. StartsKept(0, {x})
            BY <3>2, <3>3 DEF StartsKept
        <3> QED BY <3>4
    <2>2. CASE sends' = sends
        <3>1. Moves(0, {})
            BY <1>1, <2>2, RestAll, EndsMoves
        <3>2. StartsKept(0, {})
            BY <3>1 DEF StartsKept
        <3> QED BY <3>2
    <2> QED BY <2>1, <2>2 DEF EnterRegistered, JoinFrom, Send, Ends
<1>6. PICK new : StartsKept(0, new)
    BY <1>5
<1>7. /\ Len(sends') \in Nat /\ (NoPass' <=> NoPass)
      /\ \A i \in 1..Len(sends') : IsNick(sends'[i]) =>
            i \in 1..Len(sends) /\ sends'[i] = sends[i]
      /\ \A i \in 1..Len(sends) : IsNick(sends[i]) =>
            i \in 1..Len(sends') /\ sends'[i] = sends[i]
    <2>1. /\ \A i \in 1..Len(sends') : i + 0 = i
          /\ \A i \in 1..Len(sends) : i - 0 = i
        BY <1>1
    <2> QED BY <1>1, <1>6, <2>1, StartsStay DEF IsStart
<1>8. state'.n = state.n /\ state'.name = "registered"
    BY DEF EnterRegistered, Registered, State
<1>9. ASSUME socket = "connected" PROVE GoodNicks' /\ InOrder' /\ Arrives'
    <2>1. GoodNicks'
        BY <1>4, <1>7, <1>9 DEF GoodNicks
    <2>2. InOrder'
        BY <1>4, <1>7, <1>8, <1>9 DEF InOrder
    <2>3. Arrives'
        BY <1>4, <1>7, <1>8, <1>9 DEF Arrives
    <2> QED BY <2>1, <2>2, <2>3
<1> QED BY <1>3, <1>7, <1>8, <1>9 DEF Agreed, ConnectedInv, RegisteredInv

LEMMA ReadAgreed ==
    ASSUME TypeOK, HandlerInv, Agreed, ~crashed, ReadMessage
    PROVE  Agreed'
<1>1. /\ toClient # <<>> /\ toClient' = Tail(toClient) /\ latest' = toClient[1]
      /\ HandleMessage(toClient[1]) /\ socket' = socket /\ toServer' = toServer
      /\ server' = server /\ done' = done
    <2>1. toClient # <<>> /\ Head(toClient) = toClient[1]
        BY Numbers, TailIndexes DEF ReadMessage
    <2> QED BY <2>1 DEF ReadMessage
<1>2. /\ Unknown => Unknown'
      /\ toClient[1] # NickInUse => RefusalsKept(1)
      /\ NicksKept(0) /\ sends \in Seq(Coroutine) /\ done.pings \in Nat
    BY <1>1, ClientReads, ServerSame, Numbers
<1>3. CASE toClient[1] = Ping
    <2>1. Send(sends, Pong, FALSE) /\ UNCHANGED <<state, toBot, crashed>>
        BY <1>1, <1>3 DEF HandleMessage
    <2>2. Moves(0, {PongHandler})
        BY <1>2, <2>1, RestAll, SendMoves, MessageTypes DEF PongHandler
    <2>3. latest' # NickInUse
        BY <1>1, <1>3 DEF Ping, NickInUse
    <2>4. ~IsStart(PongHandler)
        BY Kinds DEF PongHandler
    <2>5. StartsKept(0, {PongHandler})
        BY <2>2, <2>3, <2>4 DEF StartsKept
    <2> QED BY <1>1, <1>2, <2>1, <2>3, <2>5, KeptAgreed
<1>4. CASE toClient[1] # Ping
    <2>1. Visit(sends, toClient[1]) /\ Welcome # NickInUse
        BY <1>1, <1>4 DEF HandleMessage, Welcome, NickInUse
    <2>2. CASE state.name = "connected" /\ toClient[1] = Welcome
        <3>1. EnterRegistered(sends)
            BY <2>1, <2>2 DEF Visit
        <3> QED BY <1>1, <2>2, <3>1, WelcomeAgreed
    <2>3. CASE state.name = "connected" /\ toClient[1] = NickInUse
        <3>1. EnterFailure(sends, FALSE)
            BY <2>1, <2>3 DEF Visit
        <3> QED BY <1>1, <2>3, <3>1, RefusalAgreed
    <2>4. CASE ~(state.name = "connected" /\ toClient[1] \in {Welcome, NickInUse})
        <3>1. sends' = sends /\ UNCHANGED <<state, crashed>>
            BY <2>1, <2>4 DEF Visit, Ends
        <3>2. Moves(0, {})
            BY <1>2, <3>1, RestAll, EndsMoves
        <3>3. StartsKept(0, {})
            BY <3>2 DEF StartsKept
        <3>4. done'.pings >= done.pings /\ done'.pings \in Nat
            BY <1>1, <1>2
        <3>5. state.name = "connected" => RefusalsKept(1) /\ (Unknown => Unknown')
                                          /\ (latest' = latest \/ latest' # NickInUse)
            BY <1>1, <1>2, <2>4
        <3> QED BY <1>1, <1>2, <3>1, <3>3, <3>4, <3>5, KeptAgreed
    <2> QED BY <2>2, <2>3, <2>4
<1> QED BY <1>3, <1>4

\* PASS was sent: NICK follows, or the next attempt.
LEMMA PassSent ==
    ASSUME TypeOK, HandlerInv, Agreed, ~crashed, SendCompletes, IsPass(sends[1])
    PROVE  Agreed'
<1>1. /\ sends # <<>> /\ 1 \in 1..Len(sends) /\ sends[1] = Head(sends)
      /\ sends \in Seq(Coroutine) /\ IsRest(Tail(sends), 1) /\ sends[1] \in Coroutine
      /\ Len(sends) \in Nat /\ state.n \in Nat /\ Len(toServer) \in Nat
      /\ done.pings \in Nat
    BY RestTail, Numbers, TailIndexes DEF SendCompletes
<1>2. /\ socket' = socket /\ latest' = latest /\ toClient' = toClient /\ server' = server
      /\ done' = done
      /\ toServer' = Append(toServer, sends[1].message) \/ toServer' = toServer
      /\ Resume(Tail(sends), sends[1])
    BY <1>1 DEF SendCompletes
<1> DEFINE w == sends[1].inWorker
<1>3. sends[1].message \in Outgoing /\ sends[1].message.command = "PASS" /\ w \in BOOLEAN
    BY <1>1 DEF Coroutine, IsPass
<1>4. AfterPass(Tail(sends), w)
    BY <1>2, <1>3 DEF Resume
<1>5. NicksKept(0)
    BY <1>2, <1>3, ServerGets
<1>6. ~NoPass /\ HasPassword
    BY <1>1 DEF NoPass, HandlerInv
<1>7. CASE state.name # "connected"
    <2>1. state.name # "registered"
        BY <1>6 DEF Agreed, RegisteredInv
    <2>2. state' = state \/ state' = FailedRegistration
        BY <1>4, <1>7 DEF AfterPass
    <2> QED BY <1>7, <2>1, <2>2, ElsewhereAgreed DEF FailedRegistration, State
<1>8. CASE state.name = "connected"
    <2>1. /\ PassFirst /\ PongFirst /\ (Single \/ Clear)
          /\ socket = "connected" => InOrder /\ (Single \/ GoodNicks)
        BY <1>8 DEF Agreed, ConnectedInv
    <2>2. NoNickAtServer /\ NoRefusal /\ Unknown
        BY <1>1, <2>1 DEF PassFirst
    <2>3. NoNickAtServer' /\ NoRefusal' /\ Unknown'
        BY <1>1, <1>2, <1>5, <2>2, ClientSame, QueuesStay, Numbers
    <2>4. \A i \in 1..Len(sends) : IsPong(sends[i]) => latest # NickInUse
        <3>1. IsStart(sends[1])
            BY DEF IsStart
        <3> QED BY <1>1, <2>1, <3>1 DEF PongFirst
    <2>5. (\A i \in 1..Len(sends) : i > 1 => ~IsStart(sends[i])) \/ Clear'
        <3>1. CASE Single
            <4>1. IsStart(sends[1])
                BY DEF IsStart
            <4>2. \A i \in 1..Len(sends) : IsStart(sends[i]) => i = 1
                BY <1>1, <3>1, <4>1 DEF Single
            <4> QED BY <1>1, <4>2
        <3>2. CASE Clear /\ state'.n \in Int /\ state'.n >= state.n
            BY <1>1, <1>2, <2>3, <3>2, Numbers DEF Clear, Nicks
        <3>3. state'.n \in Int /\ state'.n >= state.n
            <4>1. CASE state' = state
                BY <1>1, <4>1
            <4>2. CASE EnterFailure(Tail(sends), w)
                BY <1>1, <4>2 DEF EnterFailure, EnterConnected, Connected, State
            <4> QED BY <1>4, <1>8, <4>1, <4>2 DEF AfterPass
        <3> QED BY <2>1, <3>1, <3>2, <3>3
    <2>6. CASE state.n \in Nicks
        <3> DEFINE x == Suspended(NickIs(state.n), w)
        <3>1. Send(Tail(sends), NickIs(state.n), w) /\ state' = state /\ crashed' = crashed
            BY <1>4, <1>8, <2>6 DEF AfterPass, SendNick
        <3>2. Moves(1, {x})
            BY <1>1, <1>3, <2>6, <3>1, SendMoves, MessageTypes
        <3>3. IsNick(x) /\ ~IsPass(x) /\ ~IsPong(x) /\ IsStart(x) /\ NickOf(x) = state.n
            BY Kinds
        <3> HIDE DEF x
        <3>4. /\ Len(sends') \in Nat
              /\ \A i \in 1..Len(sends') :
                    \/ i + 1 \in 1..Len(sends) /\ i + 1 > 1 /\ sends'[i] = sends[i + 1]
                    \/ i = Len(sends) /\ sends'[i] = x
              /\ \E i \in 1..Len(sends') : sends'[i] = x
            BY <1>1, <3>2 DEF Moves
        <3> HIDE DEF w
        <3>5. ASSUME \A i \in 1..Len(sends) : i > 1 => ~IsStart(sends[i])
              PROVE  Single'
            <4>1. \A i \in 1..Len(sends') : IsStart(sends'[i]) => i = Len(sends)
                BY <3>4, <3>5
            <4> QED BY <2>3, <4>1 DEF Single, NoNickAtServer, NoRefusal
        <3>6. ASSUME Clear', socket = "connected" PROVE Single' \/ GoodNicks'
            <4>1. CASE Single
                <5>1. IsStart(sends[1])
                    BY DEF IsStart
                <5>2. \A i \in 1..Len(sends) : IsStart(sends[i]) => i = 1
                    BY <1>1, <4>1, <5>1 DEF Single
                <5>3. \A i \in 1..Len(sends) : i > 1 => ~IsStart(sends[i])
                    BY <1>1, <5>2
                <5> QED BY <3>5, <5>3
            <4>2. CASE GoodNicks
                <5>1. state.n \notin InUse
                    BY <1>1, <3>1, <3>6, Numbers DEF Clear
                <5>2. \A i \in 1..Len(sends') :
                        IsNick(sends'[i]) => NickOf(sends'[i]) \in Nicks \ InUse
                    BY <2>6, <3>3, <3>4, <4>2, <5>1 DEF GoodNicks
                <5> QED BY <2>3, <5>2 DEF GoodNicks, NoNickAtServer
            <4> QED BY <2>1, <3>6, <4>1, <4>2
        <3>7. PassFirst'
            <4> SUFFICES ASSUME NEW i \in 1..Len(sends'), IsPass(sends'[i]),
                                NEW j \in 1..Len(sends'), IsNick(sends'[j])
                         PROVE  i < j /\ state'.n \in Nicks
                BY <2>3 DEF PassFirst
            <4>1. i + 1 \in 1..Len(sends) /\ IsPass(sends[i + 1])
                BY <3>3, <3>4
            <4>2. CASE sends'[j] = x /\ j = Len(sends)
                BY <1>1, <2>6, <3>1, <4>1, <4>2
            <4>3. CASE j + 1 \in 1..Len(sends) /\ IsNick(sends[j + 1])
                <5>1. i + 1 < j + 1
                    BY <2>1, <4>1, <4>3 DEF PassFirst
                <5> QED BY <2>6, <3>1, <5>1
            <4> QED BY <3>4, <4>2, <4>3
        <3>8. PongFirst'
            <4>1. \A i \in 1..Len(sends') : IsPong(sends'[i]) => latest' # NickInUse
                BY <1>2, <2>4, <3>3, <3>4
            <4> QED BY <4>1 DEF PongFirst
        <3>9. /\ server'.nick = NoNick /\ NoNick <= state.n /\ state.n \in Int
              /\ \A i \in 1..Len(sends) : IsNick(sends[i]) =>
                    NickOf(sends[i]) \in Int /\ NoNick <= NickOf(sends[i])
            BY <2>3, Numbers DEF Unknown, NoNick, Garbage, Nicks
        <3>10. ASSUME socket = "connected" PROVE InOrder' /\ Arrives'
            <4>1. \A i \in 1..Len(sends') : IsNick(sends'[i]) =>
                    NickOf(sends'[i]) <= state'.n /\ server'.nick <= NickOf(sends'[i])
                BY <2>1, <3>1, <3>3, <3>4, <3>9, <3>10 DEF InOrder
            <4>2. ASSUME NEW i \in 1..Len(sends'), NEW j \in 1..Len(sends'), i < j,
                         IsNick(sends'[i]), IsNick(sends'[j])
                  PROVE  NickOf(sends'[i]) <= NickOf(sends'[j])
                <5>1. i + 1 \in 1..Len(sends) /\ sends'[i] = sends[i + 1]
                    BY <3>4, <4>2
                <5>2. CASE j + 1 \in 1..Len(sends) /\ sends'[j] = sends[j + 1]
                    <6>1. i + 1 < j + 1
                        BY <4>2
                    <6> QED BY <2>1, <3>10, <4>2, <5>1, <5>2, <6>1 DEF InOrder
                <5>3. CASE sends'[j] = x
                    BY <3>1, <3>3, <4>1, <4>2, <5>3
                <5> QED BY <3>4, <5>2, <5>3
            <4>3. InOrder'
                BY <2>3, <3>1, <3>9, <4>1, <4>2 DEF InOrder, NoNickAtServer
            <4>4. Arrives'
                BY <3>1, <3>3, <3>4 DEF Arrives
            <4> QED BY <4>3, <4>4
        <3>11. ConnectedInv'
            BY <1>2, <2>5, <3>5, <3>6, <3>7, <3>8, <3>10 DEF ConnectedInv
        <3> QED BY <1>8, <3>1, <3>11 DEF Agreed, RegisteredInv
    <2>7. CASE state.n \notin Nicks
        <3>1. EnterFailure(Tail(sends), w)
            BY <1>4, <1>8, <2>7 DEF AfterPass
        <3>2. /\ state'.name = "connected" \/ state' = state
              /\ crashed' \/ Renews(1, state.n + 1, w)
            BY <1>1, <1>3, <3>1, EnterFailureRenews
        <3>3. CASE crashed'
            BY <1>8, <3>2, <3>3, CrashAgreed
        <3>4. CASE Renews(1, state.n + 1, w)
            <4> HIDE DEF w
            <4>1. \A i \in 1..Len(sends) : ~IsNick(sends[i])
                BY <1>1, <2>1, <2>7 DEF PassFirst
            <4>2. /\ state.n + 1 \in Nat /\ w \in BOOLEAN /\ (HasPassword \/ NoPass)
                  /\ \A i \in 1..Len(sends) : IsPong(sends[i]) => latest' # NickInUse
                BY <1>1, <1>2, <1>3, <1>6, <2>4
            <4>3. \/ \A i \in 1..Len(sends) : i > 1 => ~IsStart(sends[i])
                  \/ /\ Clear'
                     /\ socket' = "connected" => \A i \in 1..Len(sends) :
                            i > 1 /\ IsNick(sends[i]) => NickOf(sends[i]) \in Nicks \ InUse
                BY <2>5, <4>1
            <4>4. ConnectedInv'
                BY <2>3, <3>4, <4>1, <4>2, <4>3, Renewed
            <4> QED BY <3>4, <4>4, RenewsAgreed
        <3> QED BY <3>2, <3>3, <3>4
    <2> QED BY <2>6, <2>7
<1> QED BY <1>7, <1>8

\* NICK was sent: it is on its way to the server.
LEMMA NickSent ==
    ASSUME TypeOK, Agreed, ~crashed, SendCompletes, IsNick(sends[1])
    PROVE  Agreed'
<1>1. /\ sends # <<>> /\ 1 \in 1..Len(sends) /\ sends[1] = Head(sends)
      /\ sends \in Seq(Coroutine) /\ IsRest(Tail(sends), 1) /\ sends[1] \in Coroutine
      /\ Len(sends) \in Nat /\ state.n \in Nat /\ Len(toServer) \in Nat
      /\ done.pings \in Nat /\ server.nick \in Int
    BY RestTail, Numbers, TailIndexes DEF SendCompletes
<1>2. /\ socket' = socket /\ latest' = latest /\ toClient' = toClient /\ server' = server
      /\ done' = done
      /\ toServer' = IF socket = "connected" THEN Append(toServer, sends[1].message)
                     ELSE toServer
      /\ Resume(Tail(sends), sends[1])
    BY <1>1 DEF SendCompletes
<1> DEFINE w == sends[1].inWorker
           v == NickOf(sends[1])
<1>3. /\ sends[1].message \in Outgoing /\ sends[1].message.command = "NICK" /\ w \in BOOLEAN
      /\ sends[1].message.nick = v /\ v \in Int
    BY <1>1, Numbers DEF Coroutine, IsNick, NickOf
<1>4. Send(Tail(sends), User, w) /\ state' = state /\ crashed' = crashed
    BY <1>2, <1>3 DEF Resume, AfterNick
<1>5. Moves(1, {Suspended(User, w)})
    BY <1>1, <1>3, <1>4, SendMoves, MessageTypes
<1>6. ~IsStart(Suspended(User, w)) /\ ~IsPong(Suspended(User, w))
    BY Kinds
<1> HIDE DEF v, w
<1>7. /\ Len(sends') \in Nat
      /\ \A i \in 1..Len(sends') : IsStart(sends'[i]) =>
            i + 1 \in 1..Len(sends) /\ sends'[i] = sends[i + 1]
      /\ \A i \in 1..Len(sends') : IsPong(sends'[i]) =>
            i + 1 \in 1..Len(sends) /\ sends'[i] = sends[i + 1]
      /\ \A i \in 1..Len(sends) : i > 1 =>
            i - 1 \in 1..Len(sends') /\ sends'[i - 1] = sends[i]
    BY <1>1, <1>5, <1>6 DEF Moves
<1>8. NoPass' \/ ~NoPass
    BY <1>7 DEF NoPass, IsStart
<1>9. socket = "connected" =>
        /\ Len(toServer') = Len(toServer) + 1
        /\ \A i \in 1..Len(toServer') :
            \/ i \in 1..Len(toServer) /\ toServer'[i] = toServer[i]
            \/ i = Len(toServer) + 1 /\ toServer'[i].command = "NICK" /\ toServer'[i].nick = v
        /\ \A i \in 1..Len(toServer) : i \in 1..Len(toServer') /\ toServer'[i] = toServer[i]
        /\ \E i \in 1..Len(toServer') : toServer'[i].command = "NICK" /\ toServer'[i].nick = v
    BY <1>1, <1>2, <1>3, Numbers, AppendIndexes
<1>10. /\ \A i \in 1..Len(sends) : IsNick(sends[i]) => NickOf(sends[i]) \in Int
       /\ \A i \in 1..Len(toServer) : toServer[i].command = "NICK" => toServer[i].nick \in Int
    BY Numbers
<1>11. ASSUME socket = "connected", GoodNicks PROVE GoodNicks'
    <2>1. v \in Nicks \ InUse
        BY <1>1, <1>11 DEF GoodNicks, v
    <2>2. \A i \in 1..Len(sends') : IsNick(sends'[i]) => NickOf(sends'[i]) \in Nicks \ InUse
        BY <1>7, <1>11 DEF GoodNicks, IsStart
    <2>3. \A i \in 1..Len(toServer') :
            toServer'[i].command = "NICK" => toServer'[i].nick \in Nicks \ InUse
        BY <1>9, <1>11, <2>1 DEF GoodNicks
    <2> QED BY <2>2, <2>3 DEF GoodNicks
<1>12. ASSUME socket = "connected", InOrder PROVE InOrder'
    <2>1. /\ v <= state.n /\ server.nick <= v
          /\ \A j \in 1..Len(sends) : j > 1 /\ IsNick(sends[j]) => v <= NickOf(sends[j])
          /\ \A i \in 1..Len(toServer) : toServer[i].command = "NICK" => toServer[i].nick <= v
        BY <1>1, <1>12 DEF InOrder, v
    <2>2. \A i \in 1..Len(sends') : IsNick(sends'[i]) =>
            /\ NickOf(sends'[i]) <= state'.n /\ server'.nick <= NickOf(sends'[i])
            /\ v <= NickOf(sends'[i])
        BY <1>2, <1>4, <1>7, <1>12, <2>1 DEF InOrder, IsStart
    <2>3. ASSUME NEW i \in 1..Len(sends'), NEW j \in 1..Len(sends'), i < j,
                 IsNick(sends'[i]), IsNick(sends'[j])
          PROVE  NickOf(sends'[i]) <= NickOf(sends'[j])
        <3>1. /\ i + 1 \in 1..Len(sends) /\ sends'[i] = sends[i + 1]
              /\ j + 1 \in 1..Len(sends) /\ sends'[j] = sends[j + 1] /\ i + 1 < j + 1
            BY <1>7, <2>3 DEF IsStart
        <3> QED BY <1>12, <2>3, <3>1 DEF InOrder
    <2>4. ASSUME NEW i \in 1..Len(toServer'), toServer'[i].command = "NICK"
          PROVE  /\ server'.nick <= toServer'[i].nick
                 /\ toServer'[i].nick <= state'.n
                 /\ \A j \in 1..Len(sends') :
                        IsNick(sends'[j]) => toServer'[i].nick <= NickOf(sends'[j])
                 /\ \A j \in 1..Len(toServer') :
                        i < j /\ toServer'[j].command = "NICK"
                            => toServer'[i].nick <= toServer'[j].nick
        <3>1. CASE i \in 1..Len(toServer) /\ toServer'[i] = toServer[i]
            <4>1. server'.nick <= toServer'[i].nick /\ toServer'[i].nick <= state'.n
                BY <1>2, <1>4, <1>12, <2>4, <3>1 DEF InOrder
            <4>2. \A j \in 1..Len(sends') :
                    IsNick(sends'[j]) => toServer'[i].nick <= NickOf(sends'[j])
                BY <1>7, <1>12, <2>4, <3>1 DEF InOrder, IsStart
            <4>3. \A j \in 1..Len(toServer') :
                    i < j /\ toServer'[j].command = "NICK"
                        => toServer'[i].nick <= toServer'[j].nick
                BY <1>9, <1>12, <2>1, <2>4, <3>1 DEF InOrder
            <4> QED BY <4>1, <4>2, <4>3
        <3>2. CASE i = Len(toServer) + 1 /\ toServer'[i].nick = v
            <4>1. \A j \in 1..Len(toServer') : ~(i < j)
                BY <1>1, <1>9, <1>12, <3>2
            <4> QED BY <1>2, <1>4, <2>1, <2>2, <3>2, <4>1
        <3> QED BY <1>9, <1>12, <2>4, <3>1, <3>2
    <2>5. server'.nick <= state'.n
        BY <1>2, <1>4, <1>12 DEF InOrder
    <2> QED BY <2>2, <2>3, <2>4, <2>5 DEF InOrder
<1>13. ASSUME socket = "connected", Arrives PROVE Arrives'
    <2>1. CASE \E i \in 1..Len(sends) : IsNick(sends[i]) /\ NickOf(sends[i]) = state.n
        <3>1. PICK i \in 1..Len(sends) : IsNick(sends[i]) /\ NickOf(sends[i]) = state.n
            BY <2>1
        <3>2. CASE i = 1
            BY <1>4, <1>9, <1>13, <3>1, <3>2 DEF Arrives, v
        <3>3. CASE i > 1
            BY <1>4, <1>7, <3>1, <3>3 DEF Arrives
        <3> QED BY <1>1, <3>2, <3>3
    <2>2. CASE \E i \in 1..Len(toServer) :
                    toServer[i].command = "NICK" /\ toServer[i].nick = state.n
        BY <1>4, <1>9, <1>13, <2>2 DEF Arrives
    <2>3. CASE server.nick = state.n
        BY <1>2, <1>4, <2>3 DEF Arrives
    <2> QED BY <1>13, <2>1, <2>2, <2>3 DEF Arrives
<1>14. RegisteredInv'
    BY <1>2, <1>4, <1>8, <1>11, <1>12, <1>13 DEF Agreed, RegisteredInv
<1>15. ASSUME state.name = "connected" PROVE ConnectedInv'
    <2>1. PassFirst /\ PongFirst /\ (Single \/ (Clear /\ (socket = "connected" => GoodNicks)))
          /\ (socket = "connected" => InOrder /\ (Arrives \/ ~NoPass \/ ~NoRefusal))
        BY <1>15 DEF Agreed, ConnectedInv
    <2>2. IsStart(sends[1])
        BY DEF IsStart
    <2>3. NoPass /\ \A i \in 1..Len(sends) : IsPong(sends[i]) => latest # NickInUse
        <3>1. \A i \in 1..Len(sends) : ~(i < 1)
            OBVIOUS
        <3>2. NoPass
            BY <1>1, <2>1, <3>1 DEF PassFirst, NoPass
        <3>3. \A i \in 1..Len(sends) : IsPong(sends[i]) => latest # NickInUse
            BY <1>1, <2>1, <2>2, <3>1 DEF PongFirst
        <3> QED BY <3>2, <3>3
    <2>4. NoPass' /\ PassFirst'
        BY <1>7, <2>3 DEF NoPass, PassFirst, IsStart
    <2>5. PongFirst'
        BY <1>2, <1>7, <2>3 DEF PongFirst
    <2>6. ASSUME Single PROVE Single' /\ NoRefusal
        <3>1. NoNickAtServer /\ NoRefusal /\ Unknown
            BY <1>1, <2>2, <2>6 DEF Single
        <3>2. \A i \in 1..Len(sends) : IsStart(sends[i]) => i = 1
            BY <1>1, <2>2, <2>6 DEF Single
        <3>3. \A i \in 1..Len(sends') : ~IsStart(sends'[i])
            <4>1. \A i \in 1..Len(sends') : i + 1 # 1
                BY <1>7
            <4> QED BY <1>7, <3>2, <4>1
        <3>4. NoRefusal' /\ Unknown'
            BY <1>2, <3>1 DEF NoRefusal, Unknown, NoWelcome
        <3>5. \A i, j \in 1..Len(toServer') :
                toServer'[i].command = "NICK" /\ toServer'[j].command = "NICK" => i = j
            <4>1. CASE socket = "connected"
                <5>1. \A i \in 1..Len(toServer') :
                        toServer'[i].command = "NICK" => i = Len(toServer) + 1
                    BY <1>9, <3>1, <4>1 DEF NoNickAtServer
                <5> QED BY <5>1
            <4>2. CASE socket # "connected"
                BY <1>2, <3>1, <4>2 DEF NoNickAtServer
            <4> QED BY <4>1, <4>2
        <3> QED BY <3>1, <3>3, <3>4, <3>5 DEF Single, NoRefusal
    <2>7. ASSUME Clear PROVE Clear' /\ NoRefusal
        BY <1>2, <1>4, <2>7 DEF Clear, NoRefusal
    <2>8. socket = "connected" => Arrives'
        BY <1>13, <2>1, <2>3, <2>6, <2>7
    <2> QED BY <1>2, <1>11, <1>12, <2>1, <2>4, <2>5, <2>6, <2>7, <2>8 DEF ConnectedInv
<1>16. ASSUME state.name # "connected" PROVE ConnectedInv'
    BY <1>4, <1>16 DEF ConnectedInv
<1> QED BY <1>14, <1>15, <1>16 DEF Agreed

\* The handler of a PING takes a refusal for its own message and skips a nick: the
\* one refused was the last that will be.
LEMMA SkipAgreed ==
    ASSUME TypeOK, HandlerInv, Agreed, RefusalsApart, ~crashed, state.name = "connected",
           SendCompletes, IsPong(sends[1]), latest = NickInUse,
           EnterFailure(Tail(sends), FALSE)
    PROVE  Agreed'
<1>1. /\ sends # <<>> /\ 1 \in 1..Len(sends) /\ sends[1] = Head(sends)
      /\ IsRest(Tail(sends), 1) /\ sends[1] \in Coroutine
      /\ Len(sends) \in Nat /\ state.n \in Nat /\ done.pings \in Nat
      /\ NickCount \in Nat \ {0} /\ InUse \subseteq Nicks
      /\ Len(toServer) \in Nat /\ server.nick \in Int
      /\ Len(toClient) \in Nat
    BY RestTail, Numbers, TailIndexes DEF SendCompletes
<1>2. /\ socket' = socket /\ latest' = latest /\ toClient' = toClient /\ server' = server
      /\ done' = done
      /\ toServer' = Append(toServer, sends[1].message) \/ toServer' = toServer
    BY <1>1 DEF SendCompletes
<1>3. NicksKept(0)
    <2>1. sends[1].message \in Outgoing /\ sends[1].message.command # "NICK"
        BY <1>1 DEF Coroutine, IsPong
    <2> QED BY <1>2, <2>1, ServerGets
<1>4. /\ PongFirst /\ (Single \/ (Clear /\ (socket = "connected" => GoodNicks)))
      /\ socket = "connected" => InOrder /\ (Arrives \/ ~NoPass \/ ~NoRefusal)
    BY DEF Agreed, ConnectedInv
<1>5. /\ HasPassword => \A j \in 1..Len(sends) : ~IsNick(sends[j])
      /\ NoNickAtServer /\ NoRefusal /\ Unknown
      /\ \E m \in InUse : m < state.n
    BY <1>1, <1>4 DEF PongFirst
<1>6. NoNickAtServer' /\ NoRefusal' /\ Unknown'
    BY <1>1, <1>2, <1>3, <1>5, ClientSame, QueuesStay
<1>7. done.pings > 0 /\ (HasPassword \/ NoPass)
    BY <1>1 DEF HandlerInv
<1>8. \A m \in InUse : m < state.n
    BY <1>1, <1>5, <1>7 DEF RefusalsApart
<1>9. /\ state'.name = "connected" \/ state' = state
      /\ crashed' \/ Renews(1, state.n + 1, FALSE)
    BY <1>1, EnterFailureRenews
<1>10. CASE crashed'
    BY <1>9, <1>10, CrashAgreed
<1>11. CASE Renews(1, state.n + 1, FALSE)
    <2>1. state'.n = state.n + 1
        BY <1>11 DEF Renews, Connected, State
    <2>2. Clear'
        <3>1. \A m \in InUse : m < state.n + 1
            BY <1>1, <1>8 DEF Nicks
        <3> QED BY <1>2, <1>6, <1>7, <2>1, <3>1 DEF Clear
    <2>3. ASSUME socket = "connected", NEW i \in 1..Len(sends), IsNick(sends[i])
          PROVE  NickOf(sends[i]) \in Nicks \ InUse
        <3>1. CASE Clear /\ (socket = "connected" => GoodNicks)
            BY <2>3, <3>1 DEF GoodNicks
        <3>2. CASE Single
            <4>1. ~HasPassword /\ NoPass
                BY <1>5, <1>7, <2>3
            <4>2. NickOf(sends[i]) \in Nicks \cup {Garbage}
                BY <2>3, Numbers
            <4>3. server.nick # state.n
                BY <1>1, <1>5 DEF Unknown, NoNick
            <4>4. PICK j \in 1..Len(sends) : IsNick(sends[j]) /\ NickOf(sends[j]) = state.n
                BY <1>4, <1>5, <2>3, <4>1, <4>3 DEF Arrives, NoNickAtServer
            <4>5. i = j
                BY <2>3, <3>2, <4>4 DEF Single, IsStart
            <4>6. NickOf(sends[i]) = state.n
                BY <4>4, <4>5
            <4>7. state.n \notin InUse
                BY <1>1, <1>8
            <4>8. state.n # Garbage
                BY <1>1 DEF Garbage
            <4> QED BY <4>2, <4>6, <4>7, <4>8, Zenon
        <3> QED BY <1>4, <3>1, <3>2
    <2>4. ASSUME socket' = "connected"
          PROVE  /\ \A i \in 1..Len(sends) : IsNick(sends[i]) => NickOf(sends[i]) <= state.n + 1
                 /\ \A i, j \in 1..Len(sends) :
                        i < j /\ IsNick(sends[i]) /\ IsNick(sends[j])
                            => NickOf(sends[i]) <= NickOf(sends[j])
        <3>1. InOrder
            BY <1>2, <1>4, <2>4
        <3>2. \A i \in 1..Len(sends) : IsNick(sends[i]) => NickOf(sends[i]) \in Int
            BY Numbers
        <3> QED BY <1>1, <3>1, <3>2 DEF InOrder
    <2>5. ASSUME NEW i \in 1..Len(sends), IsPong(sends[i])
          PROVE  /\ \A j \in 1..Len(sends) : IsStart(sends[j]) => i < j
                 /\ \E m \in InUse : m < state.n + 1
        <3>1. \A j \in 1..Len(sends) : IsStart(sends[j]) => i < j
            BY <1>4, <2>5 DEF PongFirst
        <3>2. \E m \in InUse : m < state.n + 1
            BY <1>1, <1>5 DEF Nicks
        <3> QED BY <3>1, <3>2
    <2>6. \A i \in 1..Len(sends) : i > 1 /\ IsNick(sends[i]) => ~HasPassword
        BY <1>5
    <2>7. state.n + 1 \in Nat /\ FALSE \in BOOLEAN
        BY <1>1
    <2>8. Clear' /\ (socket' = "connected" => \A i \in 1..Len(sends) :
                        i > 1 /\ IsNick(sends[i]) => NickOf(sends[i]) \in Nicks \ InUse)
        BY <1>2, <2>2, <2>3
    <2>9. ConnectedInv'
        BY <1>6, <1>7, <1>11, <2>4, <2>5, <2>6, <2>7, <2>8, Renewed
    <2> QED BY <1>11, <2>9, RenewsAgreed
<1> QED BY <1>9, <1>10, <1>11

LEMMA SentAgreed ==
    ASSUME TypeOK, HandlerInv, Agreed, RefusalsApart, ~crashed, SendCompletes
    PROVE  Agreed'
<1>1. /\ sends # <<>> /\ 1 \in 1..Len(sends) /\ sends[1] = Head(sends)
      /\ sends \in Seq(Coroutine) /\ IsRest(Tail(sends), 1) /\ sends[1] \in Coroutine
      /\ done.pings \in Nat /\ ChannelCount \in Nat
    BY RestTail, Numbers, TailIndexes, CountsAssumption DEF SendCompletes
<1>2. /\ socket' = socket /\ latest' = latest /\ toClient' = toClient /\ server' = server
      /\ done' = done
      /\ toServer' = Append(toServer, sends[1].message) \/ toServer' = toServer
      /\ Resume(Tail(sends), sends[1])
    BY <1>1 DEF SendCompletes
<1> DEFINE m == sends[1].message
           w == sends[1].inWorker
           rest == Tail(sends)
<1>3. m \in Outgoing /\ w \in BOOLEAN
    BY <1>1 DEF Coroutine
<1>4. RefusalsKept(0) /\ (Unknown => Unknown')
    BY <1>2, ClientSame
\* What is left is a coroutine that goes on without touching a registration.
<1>5. ASSUME m.command \notin {"PASS", "NICK"}, state' = state, crashed' = crashed,
             \/ sends' = rest
             \/ \E x \in {User} \cup {Join(k) : k \in 1..ChannelCount} : Send(rest, x, w) \/ Send(rest, x, FALSE)
      PROVE  Agreed'
    <2>1. NicksKept(0)
        BY <1>2, <1>3, <1>5, ServerGets
    <2>2. ~IsStart(sends[1])
        BY <1>5 DEF IsStart, IsPass, IsNick
    <2>3. \E new : StartsKept(1, new)
        <3>1. CASE sends' = rest
            <4>1. Moves(1, {})
                BY <1>1, <3>1, EndsMoves
            <4>2. StartsKept(1, {})
                BY <2>2, <4>1 DEF StartsKept
            <4> QED BY <4>2
        <3>2. ASSUME NEW x \in {User} \cup {Join(k) : k \in 1..ChannelCount},
                     NEW b \in BOOLEAN, Send(rest, x, b)
              PROVE  \E new : StartsKept(1, new)
            <4> DEFINE y == Suspended(x, b)
            <4>1. x \in Outgoing
                BY MessageTypes
            <4>2. Moves(1, {y})
                BY <1>1, <3>2, <4>1, SendMoves
            <4>3. ~IsStart(y) /\ ~IsPong(y)
                BY Kinds
            <4> HIDE DEF y
            <4>4. StartsKept(1, {y})
                BY <2>2, <4>2, <4>3 DEF StartsKept
            <4> QED BY <4>4
        <3> QED BY <1>3, <1>5, <3>1, <3>2
    <2>4. PICK new : StartsKept(1, new)
        BY <2>3
    <2> QED BY <1>1, <1>2, <1>4, <1>5, <2>1, <2>4, KeptAgreed
<1>6. CASE m.command = "PASS"
    BY <1>6, PassSent DEF IsPass
<1>7. CASE m.command = "NICK"
    BY <1>7, NickSent DEF IsNick
<1>8. CASE m.command = "USER"
    BY <1>2, <1>5, <1>8 DEF Resume, AfterUser, Ends
<1>9. CASE m.command = "JOIN"
    <2>1. m.channel \in 1..ChannelCount
        BY <1>3, <1>9, OutgoingParts
    <2>2. JoinFrom(rest, m.channel + 1) /\ UNCHANGED <<state, crashed>>
        BY <1>2, <1>9 DEF Resume
    <2>3. CASE m.channel + 1 <= ChannelCount /\ Send(rest, Join(m.channel + 1), FALSE)
        <3>1. m.channel + 1 \in 1..ChannelCount
            BY <1>1, <2>1, <2>3
        <3> QED BY <1>5, <1>9, <2>2, <2>3, <3>1
    <2>4. CASE sends' = rest
        BY <1>5, <1>9, <2>2, <2>4
    <2> QED BY <2>2, <2>3, <2>4 DEF JoinFrom, Ends
<1>10. CASE m.command = "PONG"
    <2>1. PICK message \in {NoCommand, latest} : Visit(rest, message)
        BY <1>2, <1>10 DEF Resume, AfterPong
    <2>2. CASE state.name = "connected" /\ message = Welcome
        <3>1. latest = Welcome
            BY <2>1, <2>2 DEF NoCommand, Welcome
        <3> QED BY <1>1, <1>10, <2>2, <3>1 DEF HandlerInv, IsPong
    <2>3. CASE state.name = "connected" /\ message = NickInUse
        <3>1. latest = NickInUse /\ NickInUse # Welcome
            BY <2>1, <2>3 DEF NoCommand, NickInUse, Welcome
        <3>2. EnterFailure(rest, FALSE)
            BY <2>1, <2>3, <3>1 DEF Visit
        <3> QED BY <1>10, <2>3, <3>1, <3>2, SkipAgreed DEF IsPong
    <2>4. CASE ~(state.name = "connected" /\ message \in {Welcome, NickInUse})
        <3>1. sends' = rest /\ state' = state /\ crashed' = crashed
            BY <2>1, <2>4 DEF Visit, Ends
        <3> QED BY <1>5, <1>10, <3>1
    <2> QED BY <2>2, <2>3, <2>4
<1>11. CASE m.command = "PRIVMSG"
    BY <1>2, <1>5, <1>11 DEF Resume, Ends
<1>12. m.command \in {"PASS", "NICK", "USER", "JOIN", "PONG", "PRIVMSG"}
    BY <1>3 DEF Outgoing, Pass, User, Pong, PrivmsgOut, NickIs, Join
<1> QED BY <1>6, <1>7, <1>8, <1>9, <1>10, <1>11, <1>12

LEMMA KnowNick ==
    ASSUME NEW known \in ServerType, Know(known)
    PROVE  /\ server'.nick = known.nick
           /\ (server'.welcomed => known.nick # NoNick \/ known.welcomed)
           /\ \/ toClient' = toClient
              \/ toClient' = Append(toClient, Welcome) /\ known.nick # NoNick
<1>1. CASE server' = known /\ UNCHANGED toClient
    BY <1>1
<1>2. CASE /\ known.nick # NoNick /\ server' = [known EXCEPT !.welcomed = TRUE]
           /\ Answer(Welcome)
    <2>1. server'.nick = known.nick
        BY <1>2 DEF ServerType
    <2> QED BY <1>2, <2>1 DEF Answer
<1> QED BY <1>1, <1>2 DEF Know

\* The server takes a nick, or refuses it.
LEMMA NickReadAgreed ==
    ASSUME TypeOK, Agreed, socket = "connected", ~crashed, toServer # <<>>,
           toServer' = Tail(toServer), toServer[1].command = "NICK",
           ServerTakesNick(toServer[1].nick),
           UNCHANGED <<state, socket, sends, latest, crashed, done>>
    PROVE  Agreed'
<1> DEFINE v == toServer[1].nick
<1>1. /\ Len(toServer) \in Nat /\ 1 \in 1..Len(toServer) /\ Len(toServer') \in Nat
      /\ \A i \in 1..Len(toServer') : i + 1 \in 1..Len(toServer) /\ toServer'[i] = toServer[i + 1]
      /\ \A i \in 1..Len(toServer) :
            i = 1 \/ (i - 1 \in 1..Len(toServer') /\ toServer'[i - 1] = toServer[i])
    BY Numbers, TailIndexes
<1>2. /\ state.n \in Nat /\ server.nick \in Int /\ Len(sends) \in Nat /\ Len(toClient) \in Nat
      /\ v \in Nicks \cup {Garbage} /\ v \in Int /\ NickCount \in Nat \ {0} /\ InUse \subseteq Nicks
      /\ \A i \in 1..Len(sends) : IsNick(sends[i]) => NickOf(sends[i]) \in Int
      /\ \A i \in 1..Len(toServer) : toServer[i].command = "NICK" => toServer[i].nick \in Int
    BY <1>1, Numbers
<1>3. ~NoNickAtServer
    BY <1>1 DEF NoNickAtServer
<1>4. ASSUME state.name = "connected"
      PROVE  /\ NoPass /\ NoRefusal
             /\ \A i \in 1..Len(sends) : IsPong(sends[i]) => latest # NickInUse
             /\ Arrives /\ InOrder /\ (Single \/ (Clear /\ GoodNicks))
             /\ Single => /\ \A i \in 1..Len(sends) : ~IsStart(sends[i])
                          /\ Unknown /\ v = state.n /\ NoNickAtServer'
    <2>1. /\ PassFirst /\ PongFirst /\ (Single \/ (Clear /\ GoodNicks))
          /\ InOrder /\ (Arrives \/ ~NoPass \/ ~NoRefusal)
        BY <1>4 DEF Agreed, ConnectedInv
    <2>2. NoPass /\ \A i \in 1..Len(sends) : IsPong(sends[i]) => latest # NickInUse
        BY <1>3, <2>1 DEF PassFirst, PongFirst, NoPass
    <2>3. NoRefusal
        BY <1>3, <2>1 DEF Single, Clear
    <2>4. ASSUME Single
          PROVE  /\ \A i \in 1..Len(sends) : ~IsStart(sends[i])
                 /\ Unknown /\ v = state.n /\ NoNickAtServer'
        <3>1. Unknown /\ \A i \in 1..Len(sends) : ~IsStart(sends[i])
            BY <1>3, <2>4 DEF Single
        <3>2. \A i \in 1..Len(toServer) : toServer[i].command = "NICK" => i = 1
            BY <1>1, <2>4 DEF Single
        <3>3. server.nick # state.n
            BY <1>2, <3>1 DEF Unknown, NoNick
        <3>4. v = state.n
            BY <2>1, <2>2, <2>3, <3>1, <3>2, <3>3 DEF Arrives, IsStart
        <3>5. NoNickAtServer'
            <4>1. \A i \in 1..Len(toServer') : i + 1 # 1
                BY <1>1
            <4> QED BY <1>1, <3>2, <4>1 DEF NoNickAtServer
        <3> QED BY <3>1, <3>4, <3>5
    <2> QED BY <2>1, <2>2, <2>3, <2>4
<1>5. CASE v \in InUse
    <2>1. toClient' = Append(toClient, NickInUse) /\ server' = server
        BY <1>5 DEF ServerTakesNick, Answer
    <2>2. ~GoodNicks
        BY <1>1, <1>5 DEF GoodNicks
    <2>3. state.name # "registered"
        BY <2>2 DEF Agreed, RegisteredInv
    <2>4. CASE state.name = "connected"
        <3>1. /\ Single /\ NoPass /\ NoRefusal /\ Unknown /\ state.n \in InUse
              /\ NoNickAtServer' /\ InOrder
              /\ \A i \in 1..Len(sends) : ~IsStart(sends[i])
            BY <1>4, <1>5, <2>2, <2>4
        <3>2. /\ Len(toClient') = Len(toClient) + 1
              /\ \A i \in 1..Len(toClient') :
                    \/ i \in 1..Len(toClient) /\ toClient'[i] = toClient[i]
                    \/ i = Len(toClient) + 1 /\ toClient'[i] = NickInUse
              /\ Len(toClient) + 1 \in 1..Len(toClient')
              /\ toClient'[Len(toClient) + 1] = NickInUse
            BY <2>1, Numbers, MessageTypes, AppendIndexes
        <3>3. Unknown' /\ ~NoRefusal'
            <4>1. Welcome # NickInUse
                BY DEF Welcome, NickInUse
            <4> QED BY <2>1, <3>1, <3>2, <4>1 DEF Unknown, NoWelcome, NoRefusal
        <3>4. \A i, j \in 1..Len(toClient') :
                toClient'[i] = NickInUse /\ toClient'[j] = NickInUse => i = j
            <4>1. \A i \in 1..Len(toClient') : toClient'[i] = NickInUse => i = Len(toClient) + 1
                BY <3>1, <3>2 DEF NoRefusal
            <4> QED BY <4>1
        <3>5. Single'
            BY <3>1, <3>3, <3>4 DEF Single, NoNickAtServer
        <3>6. PassFirst' /\ PongFirst'
            BY <1>4, <2>4, <3>1 DEF PassFirst, PongFirst, NoPass
        <3>7. InOrder'
            BY <1>2, <2>1, <3>1 DEF InOrder, NoNickAtServer, IsStart
        <3>8. ConnectedInv'
            BY <3>3, <3>5, <3>6, <3>7 DEF ConnectedInv
        <3> QED BY <2>4, <3>8 DEF Agreed, RegisteredInv
    <2> QED BY <2>3, <2>4, ElsewhereAgreed
<1>6. CASE v \in Nicks \ InUse
    <2>1. /\ server'.nick = v
          /\ toClient' = toClient \/ toClient' = Append(toClient, Welcome)
        <3> DEFINE known == [server EXCEPT !.nick = v]
        <3>1. known \in ServerType /\ known.nick = v
            BY <1>6, SameTypes DEF TypeParts, ServerType
        <3>2. Know(known)
            BY <1>6 DEF ServerTakesNick
        <3> HIDE DEF known
        <3> QED BY <3>1, <3>2, KnowNick
    <2>2. NoRefusal => NoRefusal'
        <3>1. CASE toClient' = toClient
            BY <3>1 DEF NoRefusal
        <3>2. CASE toClient' = Append(toClient, Welcome)
            <4>1. \A i \in 1..Len(toClient') :
                    \/ i \in 1..Len(toClient) /\ toClient'[i] = toClient[i]
                    \/ toClient'[i] = Welcome
                BY <3>2, Numbers, MessageTypes, AppendIndexes
            <4>2. Welcome # NickInUse
                BY DEF Welcome, NickInUse
            <4> QED BY <4>1, <4>2 DEF NoRefusal
        <3> QED BY <2>1, <3>1, <3>2
    <2>3. GoodNicks => GoodNicks'
        BY <1>1 DEF GoodNicks
    <2>4. ASSUME InOrder PROVE InOrder'
        <3>1. /\ v <= state.n
              /\ \A j \in 1..Len(sends) : IsNick(sends[j]) => v <= NickOf(sends[j])
              /\ \A j \in 1..Len(toServer) :
                    1 < j /\ toServer[j].command = "NICK" => v <= toServer[j].nick
            BY <1>1, <2>4 DEF InOrder
        <3>2. ASSUME NEW i \in 1..Len(toServer'), toServer'[i].command = "NICK"
              PROVE  /\ v <= toServer'[i].nick /\ toServer'[i].nick <= state.n
                     /\ \A j \in 1..Len(sends) :
                            IsNick(sends[j]) => toServer'[i].nick <= NickOf(sends[j])
                     /\ \A j \in 1..Len(toServer') :
                            i < j /\ toServer'[j].command = "NICK"
                                => toServer'[i].nick <= toServer'[j].nick
            <4>1. i + 1 \in 1..Len(toServer) /\ toServer'[i] = toServer[i + 1] /\ 1 < i + 1
                BY <1>1
            <4>2. /\ v <= toServer'[i].nick /\ toServer'[i].nick <= state.n
                  /\ \A j \in 1..Len(sends) :
                            IsNick(sends[j]) => toServer'[i].nick <= NickOf(sends[j])
                BY <2>4, <3>1, <3>2, <4>1 DEF InOrder
            <4>3. ASSUME NEW j \in 1..Len(toServer'), i < j, toServer'[j].command = "NICK"
                  PROVE  toServer'[i].nick <= toServer'[j].nick
                <5>1. j + 1 \in 1..Len(toServer) /\ toServer'[j] = toServer[j + 1] /\ i + 1 < j + 1
                    BY <1>1, <4>3
                <5> QED BY <2>4, <3>2, <4>1, <4>3, <5>1 DEF InOrder
            <4> QED BY <4>2, <4>3
        <3> QED BY <2>1, <2>4, <3>1, <3>2 DEF InOrder
    <2>5. ASSUME InOrder, Arrives PROVE Arrives'
        <3>1. CASE \E i \in 1..Len(sends) : IsNick(sends[i]) /\ NickOf(sends[i]) = state.n
            BY <3>1 DEF Arrives
        <3>2. CASE \E i \in 1..Len(toServer) :
                        toServer[i].command = "NICK" /\ toServer[i].nick = state.n
            <4>1. PICK i \in 1..Len(toServer) :
                        toServer[i].command = "NICK" /\ toServer[i].nick = state.n
                BY <3>2
            <4>2. CASE i = 1
                BY <2>1, <4>1, <4>2 DEF Arrives
            <4>3. CASE i # 1
                BY <1>1, <4>1, <4>3 DEF Arrives
            <4> QED BY <4>2, <4>3
        <3>3. CASE server.nick = state.n
            <4>1. server.nick <= v /\ v <= state.n
                BY <1>1, <2>5 DEF InOrder
            <4> QED BY <1>2, <2>1, <3>3, <4>1 DEF Arrives
        <3> QED BY <2>5, <3>1, <3>2, <3>3 DEF Arrives
    <2>6. RegisteredInv'
        BY <2>3, <2>4, <2>5 DEF Agreed, RegisteredInv, NoPass
    <2>7. ASSUME state.name = "connected" PROVE ConnectedInv'
        <3>1. NoRefusal'
            BY <1>4, <2>2, <2>7
        <3>2. Single => Single'
            BY <1>4, <2>7, <3>1 DEF Single, NoNickAtServer, NoRefusal
        <3>3. Clear => Clear'
            BY <3>1 DEF Clear
        <3>4. PassFirst' /\ PongFirst'
            BY <1>4, <2>7 DEF PassFirst, PongFirst, NoPass
        <3> QED BY <1>4, <2>3, <2>4, <2>5, <2>7, <3>2, <3>3, <3>4 DEF ConnectedInv
    <2> QED BY <2>6, <2>7 DEF Agreed, ConnectedInv
<1>7. CASE v = Garbage
    <2>1. v \notin Nicks /\ v # state.n
        BY <1>2, <1>7 DEF Garbage, Nicks
    <2>2. ~GoodNicks
        BY <1>1, <2>1 DEF GoodNicks
    <2>3. state.name \notin {"connected", "registered"}
        BY <1>4, <2>1, <2>2 DEF Agreed, RegisteredInv
    <2> QED BY <2>3, ElsewhereAgreed
<1> QED BY <1>2, <1>5, <1>6, <1>7

LEMMA NothingSent ==
    ASSUME TypeOK, sends' = sends
    PROVE  StartsKept(0, {})
<1>1. Moves(0, {})
    BY Numbers, RestAll, EndsMoves
<1> QED BY <1>1 DEF StartsKept

LEMMA ServerReadsAgreed ==
    ASSUME TypeOK, WorkerInv, Agreed, ~crashed, ServerReads
    PROVE  Agreed'
<1>1. /\ toServer # <<>> /\ toServer' = Tail(toServer) /\ Head(toServer) = toServer[1]
      /\ UNCHANGED <<state, socket, sends, latest, crashed, done>>
      /\ done.pings \in Nat /\ toServer \in Seq(Outgoing)
    BY Numbers, TailIndexes DEF ServerReads
<1>2. socket = "connected"
    BY <1>1 DEF WorkerInv
<1>3. /\ Len(toServer) \in Nat /\ 1 \in 1..Len(toServer) /\ Len(toServer') \in Nat
      /\ \A i \in 1..Len(toServer') : i + 1 \in 1..Len(toServer) /\ toServer'[i] = toServer[i + 1]
      /\ \A i \in 1..Len(toServer) :
            i = 1 \/ (i - 1 \in 1..Len(toServer') /\ toServer'[i - 1] = toServer[i])
    BY <1>1, Numbers, TailIndexes
<1>4. CASE toServer[1].command = "NICK"
    <2>1. ServerTakesNick(toServer[1].nick)
        BY <1>1, <1>4 DEF ServerReads
    <2> QED BY <1>1, <1>2, <1>4, <2>1, NickReadAgreed
<1>5. CASE toServer[1].command # "NICK"
    <2>1. /\ server'.nick = server.nick
          /\ \/ toClient' = toClient
             \/ toClient' = Append(toClient, Welcome) /\ server.nick # NoNick
        <3>1. server \in ServerType
            BY SameTypes DEF TypeParts
        <3>2. CASE Know([server EXCEPT !.user = TRUE])
            <4> DEFINE known == [server EXCEPT !.user = TRUE]
            <4>1. known \in ServerType /\ known.nick = server.nick /\ Know(known)
                BY <3>1, <3>2 DEF ServerType
            <4> HIDE DEF known
            <4> QED BY <4>1, KnowNick
        <3>3. CASE server' = [server EXCEPT !.pongs = @ + 1] /\ UNCHANGED toClient
            BY <3>1, <3>3 DEF ServerType
        <3>4. CASE server' = [server EXCEPT !.joined = @ \cup {toServer[1].channel}]
                   /\ UNCHANGED toClient
            BY <3>1, <3>4 DEF ServerType
        <3>5. CASE UNCHANGED <<server, toClient>>
            BY <3>5
        <3> QED BY <1>1, <1>5, <3>2, <3>3, <3>4, <3>5 DEF ServerReads
    <2>2. NicksKept(1)
        BY <1>3, <1>5, <2>1 DEF NicksKept
    <2>3. RefusalsKept(0) /\ (Unknown => Unknown')
        <3>1. CASE toClient' = toClient
            BY <2>1, <3>1, ClientSame
        <3>2. CASE toClient' = Append(toClient, Welcome) /\ server.nick # NoNick
            <4>1. Welcome # NickInUse /\ Welcome \in Incoming
                BY MessageTypes DEF Welcome, NickInUse
            <4> QED BY <2>1, <3>2, <4>1, ClientGets
        <3> QED BY <2>1, <3>1, <3>2
    <2>4. StartsKept(0, {})
        BY <1>1, NothingSent
    <2> QED BY <1>1, <2>2, <2>3, <2>4, KeptAgreed
<1> QED BY <1>4, <1>5

LEMMA OtherAgreed ==
    ASSUME TypeOK, Agreed, ~crashed,
           \/ FailToResolve \/ FailToRead \/ Retry \/ HandleOutgoing
           \/ ServerPings \/ ServerRelays \/ ServerStalls
    PROVE  Agreed'
<1>1. /\ state' = state /\ socket' = socket /\ crashed' = crashed /\ latest' = latest
      /\ toServer' = toServer /\ server' = server /\ TypeParts
    BY SameTypes DEF FailToResolve, FailToRead, Retry, HandleOutgoing, ServerPings,
                     ServerRelays, ServerStalls, wireVars
<1>2. done'.pings >= done.pings /\ done'.pings \in Nat
    <2>1. done \in DoneType /\ done.pings \in Nat
        BY <1>1, Numbers DEF TypeParts
    <2>2. done' \in {done, [done EXCEPT !.pings = @ + 1], [done EXCEPT !.chats = @ + 1],
                     [done EXCEPT !.outgoing = @ + 1], [done EXCEPT !.stalls = @ + 1]}
        BY DEF FailToResolve, FailToRead, Retry, HandleOutgoing, ServerPings, ServerRelays,
               ServerStalls
    <2> QED BY <2>1, <2>2 DEF DoneType
<1>3. NicksKept(0)
    BY <1>1, ServerSame
<1>4. RefusalsKept(0) /\ (Unknown => Unknown')
    <2>1. CASE toClient' = toClient
        BY <1>1, <2>1, ClientSame
    <2>2. CASE ServerPings \/ ServerRelays
        <3>1. PICK m \in Incoming : toClient' = Append(toClient, m) /\ m \notin {NickInUse, Welcome}
            <4>1. CASE ServerPings
                <5>1. Ping \notin {NickInUse, Welcome} /\ Ping \in Incoming
                    BY MessageTypes DEF Ping, NickInUse, Welcome
                <5> QED BY <4>1, <5>1 DEF ServerPings, Answer
            <4>2. CASE ServerRelays
                <5> DEFINE i == done.chats + 1
                <5>1. i \in 1..MaxChats
                    BY <1>1, <4>2, DoneTypes DEF TypeParts, ServerRelays
                <5>2. Privmsg(i) \in Incoming /\ Privmsg(i).command = "PRIVMSG"
                    BY <5>1, MessageTypes DEF Privmsg
                <5>3. Privmsg(i) \notin {NickInUse, Welcome}
                    BY <5>2 DEF NickInUse, Welcome
                <5> QED BY <4>2, <5>2, <5>3 DEF ServerRelays, Answer
            <4> QED BY <2>2, <4>1, <4>2
        <3> QED BY <1>1, <3>1, ClientGets
    <2> QED BY <2>1, <2>2 DEF FailToResolve, FailToRead, Retry, HandleOutgoing,
                              ServerStalls, wireVars
<1>5. \E new : StartsKept(0, new)
    <2>1. CASE sends' = sends
        BY <2>1, NothingSent
    <2>2. CASE HandleOutgoing
        <3> DEFINE x == Suspended(PrivmsgOut, FALSE)
        <3>1. Moves(0, {x})
            BY <2>2, RestAll, SendMoves, MessageTypes, Numbers DEF HandleOutgoing
        <3>2. ~IsStart(x) /\ ~IsPong(x)
            BY Kinds
        <3> HIDE DEF x
        <3>3. StartsKept(0, {x})
            BY <3>1, <3>2 DEF StartsKept
        <3> QED BY <3>3
    <2> QED BY <2>1, <2>2 DEF FailToResolve, FailToRead, Retry, ServerPings, ServerRelays,
                              ServerStalls
<1>6. PICK new : StartsKept(0, new)
    BY <1>5
<1> QED BY <1>1, <1>2, <1>3, <1>4, <1>6, KeptAgreed

LEMMA ClosesAgreed ==
    ASSUME TypeOK, Agreed, ~crashed, ServerCloses
    PROVE  Agreed'
<1>1. /\ state' = state /\ sends' = sends /\ latest' = latest /\ crashed' = crashed
      /\ toClient' = toClient /\ toServer' = <<>> /\ server' = NewServer
      /\ socket' = "left" /\ done' = [done EXCEPT !.closes = @ + 1]
    BY DEF ServerCloses
<1>2. done'.pings = done.pings
    BY <1>1, SameTypes DEF TypeParts, DoneType
<1>3. NoNickAtServer' /\ (Unknown => Unknown') /\ (NoRefusal' <=> NoRefusal)
    BY <1>1 DEF NoNickAtServer, Unknown, NoWelcome, NoRefusal, NewServer
<1>4. Single => Single'
    BY <1>1, <1>3 DEF Single, NoNickAtServer
<1>5. Clear => Clear'
    BY <1>1, <1>2, <1>3 DEF Clear
<1>6. PassFirst => PassFirst'
    BY <1>1, <1>3 DEF PassFirst
<1>7. PongFirst => PongFirst'
    BY <1>1, <1>3 DEF PongFirst
<1>8. ConnectedInv'
    BY <1>1, <1>4, <1>5, <1>6, <1>7 DEF Agreed, ConnectedInv
<1>9. RegisteredInv'
    BY <1>1 DEF Agreed, RegisteredInv, NoPass
<1> QED BY <1>8, <1>9 DEF Agreed

\* A PING once sent is not taken back.
LEMMA RefusalsStayApart ==
    ASSUME TypeOK, [Next]_vars, RefusalsApart'
    PROVE  RefusalsApart
<1>1. done \in DoneType
    BY SameTypes DEF TypeParts
<1>2. done.pings \in Nat
    BY Numbers
<1>3. done' \in {done, [done EXCEPT !.pings = @ + 1], [done EXCEPT !.chats = @ + 1],
                 [done EXCEPT !.outgoing = @ + 1], [done EXCEPT !.stalls = @ + 1],
                 [done EXCEPT !.closes = @ + 1], [done EXCEPT !.exits = @ + 1]}
    BY DEF Next, Client, Server, Connect, FailToConnect, StartRegistration, FailToResolve,
           ReadMessage, FailToRead, Retry, SendCompletes, HandleOutgoing, HandleExit,
           ServerReads, ServerPings, ServerRelays, ServerStalls, ServerCloses, vars
<1>4. done'.pings >= done.pings
    BY <1>1, <1>2, <1>3 DEF DoneType
<1> QED BY <1>2, <1>4 DEF RefusalsApart

LEMMA NextAgreed ==
    ASSUME TypeOK, WorkerInv, HandlerInv, RefusalsApart, Agreed, [Next]_vars
    PROVE  Agreed'
<1>1. CASE ~crashed /\ (Connect \/ FailToConnect)
    BY <1>1, StartAgreed DEF Connect, FailToConnect
<1>2. CASE ~crashed /\ ReadMessage
    BY <1>2, ReadAgreed
<1>3. CASE ~crashed /\ SendCompletes
    BY <1>3, SentAgreed
<1>4. CASE HandleExit
    BY <1>4, ElsewhereAgreed DEF HandleExit, Disconnecting, State
<1>5. CASE ~crashed /\ ServerReads
    BY <1>5, ServerReadsAgreed
<1>6. CASE ~crashed /\ (\/ FailToResolve \/ FailToRead \/ Retry \/ HandleOutgoing
                        \/ ServerPings \/ ServerRelays \/ ServerStalls)
    BY <1>6, OtherAgreed
<1>7. CASE ~crashed /\ ServerCloses
    BY <1>7, ClosesAgreed
<1>8. CASE UNCHANGED vars
    BY <1>8 DEF vars, Agreed, ConnectedInv, RegisteredInv, Single, Clear, GoodNicks, InOrder,
                Arrives, PassFirst, PongFirst, NoPass, NoRefusal, NoWelcome, NoNickAtServer,
                Unknown
<1> QED BY <1>1, <1>2, <1>3, <1>4, <1>5, <1>6, <1>7, <1>8 DEF Next, Client, Server

-----------------------------------------------------------------------------
\* What else a step sends, and where it leads.
Calm(x) == ~IsPong(x) /\ (IsPass(x) => HasPassword /\ state'.name = "connected")

Calmly(rest) ==
    \/ sends' = rest
    \/ \E x \in Coroutine : sends' = Append(rest, x) /\ Calm(x)

Passes == \/ state' = state
          \/ state.name = "connected" /\ state'.name \in {"connected", "registered"}
          \/ state'.name = "failure_registration"

LEMMA CalmMoves ==
    ASSUME sends \in Seq(Coroutine), NEW rest, NEW d, IsRest(rest, d), Calmly(rest)
    PROVE  \E new : Moves(d, new) /\ \A x \in new : Calm(x)
<1>1. CASE sends' = rest
    <2>1. Moves(d, {})
        BY <1>1, EndsMoves
    <2> QED BY <2>1
<1>2. ASSUME NEW x \in Coroutine, sends' = Append(rest, x), Calm(x)
      PROVE  \E new : Moves(d, new) /\ \A y \in new : Calm(y)
    <2>1. Moves(d, {x})
        BY <1>2, AppendMoves
    <2> QED BY <1>2, <2>1
<1> QED BY <1>1, <1>2 DEF Calmly

LEMMA CalmSend ==
    ASSUME NEW rest, NEW m \in Outgoing, NEW w \in BOOLEAN, Send(rest, m, w), m # Pong,
           m = Pass => HasPassword /\ state'.name = "connected"
    PROVE  Calmly(rest)
<1> DEFINE x == Suspended(m, w)
<1>1. sends' = Append(rest, x)
    BY DEF Send
<1>2. x.message = m /\ x \in Coroutine
    BY DEF Suspended, Coroutine
<1>3. m.command = "PONG" => m = Pong
    BY OutgoingParts
<1>4. m.command = "PASS" => m = Pass
    BY DEF Outgoing, Pass, User, Pong, PrivmsgOut, NickIs, Join
<1> HIDE DEF x
<1>5. Calm(x)
    BY <1>2, <1>3, <1>4 DEF Calm, IsPong, IsPass
<1> QED BY <1>1, <1>2, <1>5 DEF Calmly

LEMMA CalmEnds ==
    ASSUME NEW rest, sends' = rest
    PROVE  Calmly(rest)
BY DEF Calmly

LEMMA NotPong ==
    /\ Pass # Pong /\ User # Pong /\ User # Pass
    /\ \A n : NickIs(n) # Pong /\ NickIs(n) # Pass
    /\ \A k : Join(k) # Pong /\ Join(k) # Pass
<1>1. /\ Pass.command = "PASS" /\ User.command = "USER" /\ Pong.command = "PONG"
      /\ \A n : NickIs(n).command = "NICK"
      /\ \A k : Join(k).command = "JOIN"
    BY DEF Pass, User, Pong, NickIs, Join
<1> QED BY <1>1

LEMMA EnterConnectedCalm ==
    ASSUME NEW rest, NEW n, NEW w \in BOOLEAN,
           EnterConnected(rest, n, w)
    PROVE  state'.name = "connected" /\ Calmly(rest)
<1>1. state'.name = "connected"
    BY DEF EnterConnected, Connected, State
<1>2. CASE HasPassword /\ Send(rest, Pass, w)
    BY <1>1, <1>2, CalmSend, NotPong, MessageTypes
<1>3. CASE n \in Nicks /\ Send(rest, NickIs(n), w)
    BY <1>1, <1>3, CalmSend, NotPong, MessageTypes
<1>4. CASE sends' = rest
    BY <1>1, <1>4, CalmEnds
<1> QED BY <1>2, <1>3, <1>4 DEF EnterConnected, SendNick, Crash, Ends

LEMMA EnterFailureCalm ==
    ASSUME NEW rest, NEW w \in BOOLEAN,
           state.name = "connected", EnterFailure(rest, w)
    PROVE  Passes /\ state'.name = "connected" /\ Calmly(rest)
<1>1. CASE EnterConnected(rest, state.n + 1, w)
    BY <1>1, EnterConnectedCalm DEF Passes
<1>2. CASE sends' = rest /\ state' = state
    BY <1>2, CalmEnds DEF Passes
<1> QED BY <1>1, <1>2 DEF EnterFailure, Crash, Ends

LEMMA AfterPassCalm ==
    ASSUME NEW rest, NEW w \in BOOLEAN,
           AfterPass(rest, w)
    PROVE  Passes /\ Calmly(rest)
<1>1. CASE state.name = "connected" /\ EnterFailure(rest, w)
    BY <1>1, EnterFailureCalm
<1>2. ASSUME NEW n \in Nicks \cup {Garbage}, SendNick(rest, n, w)
      PROVE  Calmly(rest)
    BY <1>2, CalmSend, NotPong, MessageTypes DEF SendNick
<1>3. CASE state' = state /\ \E n \in Nicks : SendNick(rest, n, w)
    BY <1>2, <1>3 DEF Passes
<1>4. CASE state' = FailedRegistration /\ SendNickOutOfRange(rest, w)
    <2>1. Passes
        BY <1>4 DEF Passes, FailedRegistration, State
    <2>2. CASE sends' = rest
        BY <2>1, <2>2, CalmEnds
    <2>3. CASE SendNick(rest, Garbage, w)
        BY <1>2, <2>1, <2>3
    <2> QED BY <1>4, <2>2, <2>3 DEF SendNickOutOfRange, Crash, Ends
<1> QED BY <1>1, <1>3, <1>4 DEF AfterPass

LEMMA JoinFromCalm ==
    ASSUME NEW rest,
           NEW k \in Nat \ {0}, JoinFrom(rest, k)
    PROVE  Calmly(rest)
<1>1. CASE k <= ChannelCount /\ Send(rest, Join(k), FALSE)
    <2>1. k \in 1..ChannelCount
        BY <1>1, CountsAssumption
    <2>2. Join(k) \in Outgoing
        BY <2>1, MessageTypes
    <2> QED BY <1>1, <2>2, CalmSend, NotPong
<1>2. CASE sends' = rest
    BY <1>2, CalmEnds
<1> QED BY <1>1, <1>2 DEF JoinFrom, Ends

LEMMA VisitCalm ==
    ASSUME NEW rest, NEW m, Visit(rest, m)
    PROVE  /\ Passes /\ Calmly(rest)
           /\ m = Welcome => state'.name # "connected"
<1>1. CASE state.name = "connected" /\ m = Welcome
    <2>0. NickInUse # Welcome
        BY DEF NickInUse, Welcome
    <2>1. EnterRegistered(rest)
        BY <1>1, <2>0 DEF Visit
    <2>2. state'.name = "registered"
        BY <2>1 DEF EnterRegistered, Registered, State
    <2>3. 1 \in Nat \ {0} /\ JoinFrom(rest, 1)
        BY <2>1 DEF EnterRegistered
    <2> QED BY <1>1, <2>2, <2>3, JoinFromCalm DEF Passes
<1>2. CASE state.name = "connected" /\ m = NickInUse
    <2>1. NickInUse # Welcome
        BY DEF NickInUse, Welcome
    <2>2. EnterFailure(rest, FALSE)
        BY <1>2, <2>1 DEF Visit
    <2> QED BY <1>2, <2>1, <2>2, EnterFailureCalm
<1>3. CASE ~(state.name = "connected" /\ m \in {Welcome, NickInUse})
    <2>1. sends' = rest /\ state' = state
        BY <1>3 DEF Visit, Ends
    <2> QED BY <1>3, <2>1, CalmEnds DEF Passes
<1> QED BY <1>1, <1>2, <1>3

LEMMA SendCompletesCalm ==
    ASSUME TypeOK, SendCompletes
    PROVE  /\ Passes /\ Calmly(Tail(sends))
           /\ worker' = worker \/ worker' = "reading"
           /\ sends[1].message = PrivmsgOut =>
                state' = state /\ sends' = Tail(sends) /\ worker' = worker
<1>1. /\ sends # <<>> /\ 1 \in 1..Len(sends) /\ sends[1] = Head(sends)
      /\ sends \in Seq(Coroutine) /\ IsRest(Tail(sends), 1) /\ sends[1] \in Coroutine
      /\ ChannelCount \in Nat
    BY RestTail, Numbers, TailIndexes, CountsAssumption DEF SendCompletes
<1>2. Resume(Tail(sends), sends[1])
    BY <1>1 DEF SendCompletes
<1> DEFINE m == sends[1].message
           w == sends[1].inWorker
           rest == Tail(sends)
<1>3. m \in Outgoing /\ w \in BOOLEAN
    BY <1>1 DEF Coroutine
<1>4. CASE m.command = "PASS"
    <2>1. AfterPass(rest, w) /\ UNCHANGED worker
        BY <1>2, <1>4 DEF Resume
    <2> QED BY <1>1, <1>3, <1>4, <2>1, AfterPassCalm DEF PrivmsgOut
<1>5. CASE m.command = "NICK"
    <2>1. Send(rest, User, w) /\ state' = state /\ UNCHANGED worker
        BY <1>2, <1>5 DEF Resume, AfterNick
    <2>2. User \in Outgoing /\ User # Pong /\ User # Pass
        BY NotPong, MessageTypes
    <2>3. Calmly(Tail(sends))
        BY <1>1, <1>3, <2>1, <2>2, CalmSend
    <2> QED BY <1>5, <2>1, <2>3 DEF Passes, PrivmsgOut
<1>6. CASE m.command = "USER"
    <2>1. sends' = rest /\ state' = state /\ (worker' = worker \/ worker' = "reading")
        BY <1>2, <1>6 DEF Resume, AfterUser, Ends
    <2>2. Calmly(Tail(sends))
        BY <1>1, <2>1, CalmEnds
    <2> QED BY <1>6, <2>1, <2>2 DEF Passes, PrivmsgOut
<1>7. CASE m.command = "JOIN"
    <2>1. m.channel \in 1..ChannelCount
        BY <1>3, <1>7, OutgoingParts
    <2>2. m.channel + 1 \in Nat \ {0}
        BY <1>1, <2>1
    <2>3. JoinFrom(rest, m.channel + 1) /\ UNCHANGED <<state, worker>>
        BY <1>2, <1>7 DEF Resume
    <2> QED BY <1>1, <1>7, <2>2, <2>3, JoinFromCalm DEF Passes, PrivmsgOut
<1>8. CASE m.command = "PONG"
    <2>1. PICK message \in {NoCommand, latest} : Visit(rest, message)
        BY <1>2, <1>8 DEF Resume, AfterPong
    <2>2. UNCHANGED worker
        BY <1>2, <1>8 DEF Resume
    <2> QED BY <1>1, <1>8, <2>1, <2>2, VisitCalm DEF PrivmsgOut
<1>9. CASE m.command = "PRIVMSG"
    <2>1. sends' = rest /\ state' = state /\ worker' = worker
        BY <1>2, <1>9 DEF Resume, Ends
    <2> QED BY <1>1, <2>1, CalmEnds DEF Passes
<1>10. m.command \in {"PASS", "NICK", "USER", "JOIN", "PONG", "PRIVMSG"}
    BY <1>3 DEF Outgoing, Pass, User, Pong, PrivmsgOut, NickIs, Join
<1> QED BY <1>4, <1>5, <1>6, <1>7, <1>8, <1>9, <1>10

\* The worker, the socket and the server.
LEMMA NextWorkerInv == TypeOK /\ WorkerInv /\ [Next]_vars => WorkerInv'
<1> SUFFICES ASSUME TypeOK, WorkerInv, [Next]_vars PROVE WorkerInv'
    OBVIOUS
<1>0. /\ sends \in Seq(Coroutine) /\ Len(sends) \in Nat /\ TypeParts
      /\ NewServer.joined = {} /\ NewServer.nick = NoNick
    BY Numbers, SameTypes DEF NewServer
<1>1. CASE Connect \/ FailToConnect
    <2>1. EnterConnected(sends, 0, TRUE) /\ worker' = "registering" /\ UNCHANGED wireVars
          /\ (socket' = socket \/ socket' = "connected")
        BY <1>1 DEF Connect, FailToConnect, StartRegistration
    <2>2. state'.name = "connected"
        BY <2>1 DEF EnterConnected, Connected, State
    <2>3. socket' # "connected" => socket' = socket
        BY <2>1
    <2>4. worker = "resolving"
        BY <1>1 DEF Connect, FailToConnect
    <2>5. socket' = "new" => toClient' = <<>>
        BY <2>1, <2>4 DEF WorkerInv, wireVars
    <2> QED BY <2>1, <2>2, <2>3, <2>5 DEF WorkerInv, wireVars
<1>2. CASE FailToResolve \/ FailToRead \/ Retry
    BY <1>2 DEF FailToResolve, FailToRead, Retry, WorkerInv, wireVars
<1>3. CASE ReadMessage
    <2>1. /\ worker = "reading" /\ worker' = worker /\ UNCHANGED <<socket, toServer, server>>
          /\ toClient # <<>> /\ HandleMessage(Head(toClient))
        BY <1>3 DEF ReadMessage
    <2>2. socket' # "new"
        BY <2>1 DEF WorkerInv
    <2>3. state.name # "disconnected"
        BY <2>1 DEF WorkerInv
    <2>4. state'.name # "disconnected"
        <3>1. CASE Visit(sends, Head(toClient))
            <4>1. Passes
                BY <3>1, VisitCalm
            <4> QED BY <2>3, <4>1 DEF Passes
        <3>2. CASE state' = state
            BY <2>3, <3>2
        <3> QED BY <2>1, <3>1, <3>2 DEF HandleMessage
    <2> QED BY <2>1, <2>2, <2>4 DEF WorkerInv
<1>4. CASE SendCompletes
    <2>1. /\ sends # <<>> /\ UNCHANGED <<socket, toClient, server>>
          /\ socket # "connected" => toServer' = toServer
        BY <1>4 DEF SendCompletes
    <2>2. /\ Passes /\ (worker' = worker \/ worker' = "reading")
          /\ sends[1].message = PrivmsgOut =>
                state' = state /\ sends' = Tail(sends) /\ worker' = worker
        BY <1>4, SendCompletesCalm
    <2>3. state'.name = "disconnected" => state.name = "disconnected"
        BY <2>2 DEF Passes
    <2>4. ASSUME worker' = "resolving" \/ state'.name = "disconnected"
          PROVE  /\ \A i \in 1..Len(sends') : sends'[i].message = PrivmsgOut
                 /\ worker' = worker
        <3>1. \A i \in 1..Len(sends) : sends[i].message = PrivmsgOut
            BY <2>2, <2>3, <2>4 DEF WorkerInv
        <3>2. 1 \in 1..Len(sends)
            BY <1>0, <2>1, TailIndexes
        <3>3. sends' = Tail(sends) /\ worker' = worker
            BY <2>2, <3>1, <3>2
        <3> QED BY <1>0, <2>1, <3>1, <3>3, TailIndexes
    <2>5. worker' \in {"resolving", "sleeping"} => worker' = worker
        BY <2>2
    <2>6. state'.name = "disconnected" => worker' \in {"resolving", "sleeping"}
        BY <2>3, <2>4 DEF WorkerInv
    <2> QED BY <2>1, <2>4, <2>5, <2>6 DEF WorkerInv
<1>5. CASE HandleOutgoing
    <2>1. /\ sends' = Append(sends, Suspended(PrivmsgOut, FALSE))
          /\ UNCHANGED <<state, worker, socket, toClient, toServer, server>>
        BY <1>5 DEF HandleOutgoing, Send, wireVars
    <2>2. Suspended(PrivmsgOut, FALSE) \in Coroutine
          /\ Suspended(PrivmsgOut, FALSE).message = PrivmsgOut
        BY MessageTypes DEF Suspended, Coroutine
    <2> DEFINE x == Suspended(PrivmsgOut, FALSE)
    <2> HIDE DEF x
    <2>3. \A i \in 1..Len(sends') :
            \/ i \in 1..Len(sends) /\ sends'[i] = sends[i]
            \/ sends'[i] = x
        <3>1. x \in Coroutine /\ sends' = Append(sends, x)
            BY <2>1, <2>2 DEF x
        <3> QED BY <1>0, <3>1, AppendIndexes
    <2>4. (worker' = "resolving" \/ state'.name = "disconnected")
            => \A i \in 1..Len(sends') : sends'[i].message = PrivmsgOut
        BY <2>1, <2>2, <2>3 DEF WorkerInv, x
    <2> QED BY <2>1, <2>4 DEF WorkerInv
<1>6. CASE HandleExit
    BY <1>6 DEF HandleExit, WorkerInv, wireVars, Disconnecting, State
<1>7. CASE ServerReads
    <2>1. /\ toServer # <<>> /\ UNCHANGED <<state, worker, socket, sends>>
        BY <1>7 DEF ServerReads
    <2>2. socket = "connected"
        BY <2>1 DEF WorkerInv
    <2>3. server'.welcomed => server'.nick # NoNick
        <3>1. server \in ServerType /\ (server.welcomed => server.nick # NoNick)
            BY <1>0 DEF TypeParts, WorkerInv
        <3> DEFINE m == Head(toServer)
        <3>2. ASSUME NEW known \in ServerType, Know(known),
                     known.welcomed => known.nick # NoNick
              PROVE  server'.welcomed => server'.nick # NoNick
            BY <3>2, KnowNick
        <3>3. CASE m.nick \in Nicks /\ Know([server EXCEPT !.nick = m.nick])
            <4> DEFINE known == [server EXCEPT !.nick = m.nick]
            <4>1. known \in ServerType /\ known.nick # NoNick
                BY <3>1, <3>3, CountsAssumption DEF ServerType, NoNick, Nicks
            <4> QED BY <3>2, <3>3, <4>1
        <3>4. CASE Know([server EXCEPT !.user = TRUE])
            <4> DEFINE known == [server EXCEPT !.user = TRUE]
            <4>1. known \in ServerType /\ (known.welcomed => known.nick # NoNick)
                BY <3>1 DEF ServerType
            <4> QED BY <3>2, <3>4, <4>1
        <3>5. CASE server' = [server EXCEPT !.pongs = @ + 1]
            BY <3>1, <3>5 DEF ServerType
        <3>6. CASE server' = [server EXCEPT !.joined = @ \cup {m.channel}]
            BY <3>1, <3>6 DEF ServerType
        <3>7. CASE server' = server
            BY <3>1, <3>7
        <3> QED BY <1>7, <3>3, <3>4, <3>5, <3>6, <3>7 DEF ServerReads, ServerTakesNick
    <2> QED BY <2>1, <2>2, <2>3 DEF WorkerInv
<1>8. CASE ServerPings \/ ServerRelays
    <2>1. UNCHANGED <<state, worker, socket, sends, toServer, server>>
        BY <1>8 DEF ServerPings, ServerRelays
    <2>2. socket = "connected"
        <3>1. CASE ServerRelays
            BY <1>0, <3>1 DEF ServerRelays, WorkerInv
        <3> QED BY <1>8, <3>1 DEF ServerPings
    <2> QED BY <2>1, <2>2 DEF WorkerInv
<1>9. CASE ServerCloses
    <2>1. /\ socket = "connected" /\ socket' = "left" /\ toServer' = <<>> /\ server' = NewServer
          /\ UNCHANGED <<state, worker, sends, toClient>>
        BY <1>9 DEF ServerCloses
    <2>2. ~server'.welcomed
        BY <2>1 DEF NewServer
    <2> QED BY <2>1, <2>2 DEF WorkerInv
<1>10. CASE ServerStalls \/ UNCHANGED vars
    <2>1. UNCHANGED <<state, worker, socket, sends, wireVars>>
        BY <1>10 DEF ServerStalls, vars, wireVars
    <2> QED BY <2>1 DEF WorkerInv, wireVars
<1> QED BY <1>1, <1>2, <1>3, <1>4, <1>5, <1>6, <1>7, <1>8, <1>9, <1>10
    DEF Next, Client, Server

LEMMA HandlerKept ==
    ASSUME TypeOK, HandlerInv, NEW d, NEW new, Moves(d, new),
           \A x \in new : /\ IsPong(x) => done.pings > 0 /\ latest' # Welcome
                          /\ IsPass(x) => HasPassword,
           done'.pings >= done.pings, done'.pings \in Nat,
           \A i \in 1..Len(toClient') : toClient'[i] = Ping => done'.pings > 0,
           state'.name = "connected" /\ latest' = Welcome =>
                \/ state.name = "connected" /\ latest = Welcome
                \/ \A i \in 1..Len(sends) : ~IsPong(sends[i])
    PROVE  HandlerInv'
<1>1. /\ \A i \in 1..Len(sends') :
            \/ i + d \in 1..Len(sends) /\ sends'[i] = sends[i + d]
            \/ sends'[i] \in new
      /\ done.pings \in Nat
    BY Numbers DEF Moves
<1>2. \A i \in 1..Len(sends') : IsPong(sends'[i]) => done'.pings > 0
    BY <1>1 DEF HandlerInv
<1>3. state'.name = "connected" /\ latest' = Welcome =>
            \A i \in 1..Len(sends') : ~IsPong(sends'[i])
    BY <1>1 DEF HandlerInv
<1>4. ~HasPassword => NoPass'
    BY <1>1 DEF HandlerInv, NoPass
<1> QED BY <1>2, <1>3, <1>4 DEF HandlerInv

LEMMA NextHandlerInv == TypeOK /\ WorkerInv /\ HandlerInv /\ [Next]_vars => HandlerInv'
<1> SUFFICES ASSUME TypeOK, WorkerInv, HandlerInv, [Next]_vars PROVE HandlerInv'
    OBVIOUS
<1>0. /\ sends \in Seq(Coroutine) /\ Len(sends) \in Nat /\ toClient \in Seq(Incoming)
      /\ done.pings \in Nat /\ done \in DoneType
      /\ \A i \in 1..Len(toClient) : toClient[i] = Ping => done.pings > 0
    BY Numbers, SameTypes DEF TypeParts, HandlerInv
<1>1. CASE Connect \/ FailToConnect
    <2>1. EnterConnected(sends, 0, TRUE) /\ toClient' = toClient /\ latest' = latest
          /\ done' = done /\ worker = "resolving"
        BY <1>1 DEF Connect, FailToConnect, StartRegistration, wireVars
    <2>2. \A i \in 1..Len(sends) : ~IsPong(sends[i])
        <3>1. \A i \in 1..Len(sends) : sends[i].message.command = "PRIVMSG"
            BY <2>1 DEF WorkerInv, PrivmsgOut
        <3> QED BY <3>1 DEF IsPong
    <2>3. PICK new : Moves(0, new) /\ \A x \in new : Calm(x)
        BY <1>0, <2>1, RestAll, EnterConnectedCalm, CalmMoves
    <2> QED BY <1>0, <2>1, <2>2, <2>3, HandlerKept DEF Calm
<1>2. CASE ReadMessage
    <2> DEFINE m == toClient[1]
    <2>1. /\ toClient # <<>> /\ toClient' = Tail(toClient) /\ latest' = m
          /\ HandleMessage(m) /\ done' = done /\ 1 \in 1..Len(toClient)
        BY <1>0, <1>2, TailIndexes DEF ReadMessage
    <2>2. \A i \in 1..Len(toClient') : toClient'[i] = Ping => done'.pings > 0
        BY <1>0, <2>1, TailIndexes
    <2>3. CASE m = Ping /\ Send(sends, Pong, FALSE)
        <3>1. Moves(0, {PongHandler})
            BY <1>0, <2>3, RestAll, SendMoves, MessageTypes DEF PongHandler
        <3>2. ~IsPass(PongHandler) /\ done.pings > 0 /\ Ping # Welcome
            BY <1>0, <2>1, <2>3, Kinds DEF PongHandler, IsPass, Suspended, Pong, Ping, Welcome
        <3>3. latest' # Welcome
            BY <2>1, <2>3, <3>2
        <3> QED BY <1>0, <2>1, <2>2, <3>1, <3>2, <3>3, HandlerKept
    <2>4. CASE Visit(sends, m)
        <3>1. m = Welcome => state'.name # "connected"
            BY <2>4, VisitCalm
        <3>2. PICK new : Moves(0, new) /\ \A x \in new : Calm(x)
            BY <1>0, <2>4, RestAll, VisitCalm, CalmMoves
        <3> QED BY <1>0, <2>1, <2>2, <3>1, <3>2, HandlerKept DEF Calm
    <2> QED BY <2>1, <2>3, <2>4 DEF HandleMessage
<1>3. CASE SendCompletes
    <2>1. latest' = latest /\ toClient' = toClient /\ done' = done
        BY <1>3 DEF SendCompletes
    <2>2. Passes
        BY <1>3, SendCompletesCalm
    <2>3. state'.name = "connected" => state.name = "connected"
        BY <2>2 DEF Passes
    <2>4. PICK new : Moves(1, new) /\ \A x \in new : Calm(x)
        <3>1. IsRest(Tail(sends), 1)
            BY <1>0, <1>3, RestTail DEF SendCompletes
        <3> QED BY <1>0, <1>3, <3>1, SendCompletesCalm, CalmMoves
    <2> QED BY <1>0, <2>1, <2>3, <2>4, HandlerKept DEF Calm
<1>4. CASE HandleOutgoing
    <2> DEFINE x == Suspended(PrivmsgOut, FALSE)
    <2>1. Send(sends, PrivmsgOut, FALSE) /\ state' = state /\ latest' = latest
          /\ toClient' = toClient /\ done' = [done EXCEPT !.outgoing = @ + 1]
        BY <1>4 DEF HandleOutgoing, wireVars
    <2>2. Moves(0, {x})
        BY <1>0, <2>1, RestAll, SendMoves, MessageTypes
    <2>3. ~IsPong(x) /\ ~IsPass(x)
        BY Kinds DEF IsStart
    <2>4. done'.pings = done.pings
        BY <1>0, <2>1 DEF DoneType
    <2> HIDE DEF x
    <2> QED BY <1>0, <2>1, <2>2, <2>3, <2>4, HandlerKept
<1>5. CASE FailToResolve \/ FailToRead \/ Retry \/ UNCHANGED vars
    BY <1>5 DEF FailToResolve, FailToRead, Retry, HandlerInv, NoPass, wireVars, vars
<1>6. CASE HandleExit
    <2>1. /\ done'.pings = done.pings /\ UNCHANGED <<sends, toClient>>
          /\ state'.name # "connected"
        BY <1>0, <1>6 DEF HandleExit, DoneType, wireVars, Disconnecting, State
    <2> QED BY <2>1 DEF HandlerInv, NoPass
<1>7. CASE ServerReads
    <2>1. UNCHANGED <<state, sends, latest, done>>
        BY <1>7 DEF ServerReads
    <2>2. \/ toClient' = toClient
          \/ \E m \in {Welcome, NickInUse} : toClient' = Append(toClient, m)
        BY <1>7 DEF ServerReads, ServerTakesNick, Know, Answer
    <2>3. Welcome # Ping /\ NickInUse # Ping
        BY DEF Welcome, NickInUse, Ping
    <2>4. \A i \in 1..Len(toClient') : toClient'[i] = Ping => done.pings > 0
        <3>1. ASSUME NEW m \in {Welcome, NickInUse}, toClient' = Append(toClient, m)
              PROVE  \A i \in 1..Len(toClient') : toClient'[i] = Ping => done.pings > 0
            <4>1. m \in Incoming /\ m # Ping
                BY <2>3, MessageTypes
            <4>2. \A i \in 1..Len(toClient') :
                    \/ i \in 1..Len(toClient) /\ toClient'[i] = toClient[i]
                    \/ toClient'[i] = m
                BY <1>0, <3>1, <4>1, AppendIndexes
            <4> QED BY <1>0, <4>1, <4>2
        <3> QED BY <1>0, <2>2, <3>1
    <2> QED BY <2>1, <2>4 DEF HandlerInv, NoPass
<1>8. CASE ServerPings
    <2>1. UNCHANGED <<state, sends, latest>> /\ done' = [done EXCEPT !.pings = @ + 1]
        BY <1>8 DEF ServerPings
    <2>2. done'.pings > 0
        BY <1>0, <2>1 DEF DoneType
    <2> QED BY <2>1, <2>2 DEF HandlerInv, NoPass
<1>9. CASE ServerRelays
    <2>1. /\ UNCHANGED <<state, sends, latest>> /\ done' = [done EXCEPT !.chats = @ + 1]
          /\ toClient' = Append(toClient, Privmsg(done.chats + 1))
          /\ done.chats + 1 \in 1..MaxChats
        BY <1>0, <1>9, DoneTypes DEF ServerRelays, Answer
    <2> DEFINE m == Privmsg(done.chats + 1)
    <2>2. m \in Incoming /\ m # Ping
        BY <2>1, MessageTypes DEF Privmsg, Ping
    <2> HIDE DEF m
    <2>3. \A i \in 1..Len(toClient') :
            \/ i \in 1..Len(toClient) /\ toClient'[i] = toClient[i]
            \/ toClient'[i] = m
        BY <1>0, <2>1, <2>2, AppendIndexes DEF m
    <2>4. done'.pings = done.pings
        BY <1>0, <2>1 DEF DoneType
    <2> QED BY <1>0, <2>1, <2>2, <2>3, <2>4 DEF HandlerInv, NoPass
<1>10. CASE ServerCloses
    <2>1. UNCHANGED <<state, sends, latest, toClient>> /\ done' = [done EXCEPT !.closes = @ + 1]
        BY <1>10 DEF ServerCloses
    <2>2. done'.pings = done.pings
        BY <1>0, <2>1 DEF DoneType
    <2> QED BY <2>1, <2>2 DEF HandlerInv, NoPass
<1>11. CASE ServerStalls
    <2>1. UNCHANGED <<state, sends, latest, toClient>> /\ done' = [done EXCEPT !.stalls = @ + 1]
        BY <1>11 DEF ServerStalls, wireVars
    <2>2. done'.pings = done.pings
        BY <1>0, <2>1 DEF DoneType
    <2> QED BY <2>1, <2>2 DEF HandlerInv, NoPass
<1> QED BY <1>1, <1>2, <1>3, <1>4, <1>5, <1>6, <1>7, <1>8, <1>9, <1>10, <1>11
    DEF Next, Client, Server

LEMMA InitNickInv == Init => NickInv
BY DEF Init, NickInv, WorkerInv, HandlerInv, NoPass, ConnectedInv, RegisteredInv, NewServer,
       Disconnected, State

LEMMA NextNickInv == TypeOK /\ NickInv /\ [Next]_vars => NickInv'
<1> SUFFICES ASSUME TypeOK, NickInv, [Next]_vars PROVE NickInv'
    OBVIOUS
<1>1. WorkerInv /\ HandlerInv
    BY DEF NickInv
<1>2. WorkerInv' /\ HandlerInv'
    BY <1>1, NextWorkerInv, NextHandlerInv
<1>3. ASSUME RefusalsApart' PROVE Agreed'
    <2>1. RefusalsApart
        BY <1>3, RefusalsStayApart
    <2> QED BY <1>1, <2>1, NextAgreed DEF NickInv, Agreed
<1> QED BY <1>2, <1>3 DEF NickInv, Agreed

\* When nothing of a registration is under way, the nick in the state has arrived.
LEMMA InvNickAgrees == NickInv => NickAgrees
<1> SUFFICES ASSUME RegisteredInv, state.name = "registered", socket = "connected",
                    NoNickUnderWay
             PROVE  server.nick = state.n
    BY DEF NickInv, NickAgrees
<1>1. \A i \in 1..Len(sends) : ~IsNick(sends[i])
    BY DEF NoNickUnderWay, IsNick
<1>2. \A i \in 1..Len(toServer) : toServer[i].command # "NICK"
    BY DEF NoNickUnderWay
<1> QED BY <1>1, <1>2 DEF RegisteredInv, Arrives

\* A registered client takes for its own the nick the server knows it by, however
\* many nicks there are, however many refused, PINGs and lost connections, as long
\* as no nick is refused after a skip (state_change, message_handler).
THEOREM NicksAgree == Spec => []NickAgrees
<1>1. Init => TypeOK /\ NickInv
    BY InitType, InitNickInv
<1>2. (TypeOK /\ NickInv) /\ [Next]_vars => (TypeOK /\ NickInv)'
    BY NextType, NextNickInv
<1>3. TypeOK /\ NickInv => NickAgrees
    BY InvNickAgrees
<1> QED BY <1>1, <1>2, <1>3, PTL DEF Spec

-----------------------------------------------------------------------------
\* How often something is in a queue, when something is added or taken.
LEMMA CountType ==
    ASSUME NEW s, Len(s) \in Nat, NEW x
    PROVE  IsFiniteSet(Occurrences(s, x)) /\ Count(s, x) \in Nat
<1>1. IsFiniteSet(1..Len(s))
    BY FS_Interval
<1>2. Occurrences(s, x) \in SUBSET (1..Len(s))
    BY DEF Occurrences
<1>3. IsFiniteSet(Occurrences(s, x))
    BY <1>1, <1>2, FS_Subset
<1> QED BY <1>3, FS_CardinalityType DEF Count

LEMMA CountAppend ==
    ASSUME NEW S, NEW s \in Seq(S), NEW x, NEW y \in S
    PROVE  Count(Append(s, y), x) = IF y = x THEN Count(s, x) + 1 ELSE Count(s, x)
<1> DEFINE t == Append(s, y)
           n == Len(s) + 1
<1>1. /\ Len(s) \in Nat /\ Len(t) = n
      /\ \A i \in 1..Len(t) : (i \in 1..Len(s) /\ t[i] = s[i]) \/ (i = n /\ t[i] = y)
      /\ \A i \in 1..Len(s) : i \in 1..Len(t) /\ t[i] = s[i]
      /\ n \in 1..Len(t) /\ t[n] = y
    BY AppendIndexes
<1>2. IsFiniteSet(Occurrences(s, x)) /\ Count(s, x) \in Nat
    BY <1>1, CountType
<1>3. n \notin Occurrences(s, x)
    BY <1>1 DEF Occurrences
<1> HIDE DEF t, n
<1>4. CASE y = x
    <2>1. Occurrences(t, x) = Occurrences(s, x) \cup {n}
        BY <1>1, <1>4 DEF Occurrences
    <2> QED BY <1>2, <1>3, <1>4, <2>1, FS_AddElement DEF Count, t
<1>5. CASE y # x
    <2>1. Occurrences(t, x) = Occurrences(s, x)
        BY <1>1, <1>5 DEF Occurrences
    <2> QED BY <1>5, <2>1 DEF Count, t
<1> QED BY <1>4, <1>5

LEMMA CountTail ==
    ASSUME NEW S, NEW s \in Seq(S), s # <<>>, NEW x
    PROVE  Count(s, x) = IF s[1] = x THEN Count(Tail(s), x) + 1 ELSE Count(Tail(s), x)
<1> DEFINE t == Tail(s)
           A == Occurrences(s, x) \ {1}
           B == Occurrences(t, x)
           f == [i \in A |-> i - 1]
<1>1. /\ Len(s) \in Nat /\ 1 \in 1..Len(s) /\ Len(t) \in Nat
      /\ \A i \in 1..Len(t) : i + 1 \in 1..Len(s) /\ t[i] = s[i + 1]
      /\ \A i \in 1..Len(s) : i = 1 \/ (i - 1 \in 1..Len(t) /\ t[i - 1] = s[i])
    BY TailIndexes
<1> HIDE DEF t
<1>2. IsFiniteSet(B) /\ Count(t, x) \in Nat /\ IsFiniteSet(Occurrences(s, x))
      /\ Count(s, x) \in Nat
    BY <1>1, CountType
<1>3. \A i \in A : i \in Int /\ i - 1 \in B
    BY <1>1 DEF Occurrences
<1>4. \A j \in B : j \in Int /\ j + 1 \in A /\ (j + 1) - 1 = j
    BY <1>1 DEF Occurrences
<1> HIDE DEF A, B
<1>5. f \in [A -> B]
    BY <1>3
<1>6. f \in Injection(A, B)
    <2>1. ASSUME NEW a \in A, NEW b \in A, f[a] = f[b] PROVE a = b
        BY <1>3, <2>1
    <2> QED BY <1>5, <2>1, Fun_IsInj
<1>7. f \in Surjection(A, B)
    <2>1. ASSUME NEW j \in B PROVE \E i \in A : f[i] = j
        BY <1>4
    <2> QED BY <1>5, <2>1, Fun_IsSurj
<1>8. Cardinality(A) = Cardinality(B)
    <2> HIDE DEF f
    <2> QED BY <1>2, <1>6, <1>7, FS_Injection
<1>9. Cardinality(A) = IF 1 \in Occurrences(s, x) THEN Count(s, x) - 1 ELSE Count(s, x)
    BY <1>2, FS_RemoveElement DEF A, Count
<1>10. 1 \in Occurrences(s, x) <=> s[1] = x
    BY <1>1 DEF Occurrences
<1>11. Cardinality(B) = Count(t, x)
    BY DEF B, Count
<1>12. Count(t, x) = IF s[1] = x THEN Count(s, x) - 1 ELSE Count(s, x)
    BY <1>8, <1>9, <1>10, <1>11
<1>13. Count(s, x) = IF s[1] = x THEN Count(t, x) + 1 ELSE Count(t, x)
    <2>1. CASE s[1] = x
        <3>1. Count(t, x) = Count(s, x) - 1
            BY <1>12, <2>1
        <3>2. Count(s, x) = Count(t, x) + 1
            BY <1>2, <3>1
        <3> QED BY <2>1, <3>2
    <2>2. CASE s[1] # x
        BY <1>12, <2>2
    <2> QED BY <2>1, <2>2
<1> QED BY <1>13, Zenon DEF t

\* A calm step adds no handler of a PING.
LEMMA CalmCount ==
    ASSUME NEW rest \in Seq(Coroutine), Calmly(rest)
    PROVE  Count(sends', PongHandler) = Count(rest, PongHandler)
<1>1. ASSUME NEW x \in Coroutine, sends' = Append(rest, x), Calm(x)
      PROVE  Count(sends', PongHandler) = Count(rest, PongHandler)
    <2>1. x # PongHandler
        BY <1>1, Kinds DEF Calm, PongHandler
    <2> QED BY <1>1, <2>1, CountAppend
<1> QED BY <1>1 DEF Calmly

LEMMA CountsType ==
    ASSUME TypeOK
    PROVE  /\ Count(toClient, Ping) \in Nat /\ Count(sends, PongHandler) \in Nat
           /\ PingsUnderWay \in Nat /\ done.pings \in Nat
BY Numbers, CountType DEF PingsUnderWay

\* The PINGs that are not under way any more do not get fewer.
LEMMA SendCompletesPings ==
    ASSUME TypeOK, SendCompletes
    PROVE  PingsUnderWay' = IF sends[1] = PongHandler THEN PingsUnderWay - 1 ELSE PingsUnderWay
<1>1. sends \in Seq(Coroutine) /\ sends # <<>> /\ Tail(sends) \in Seq(Coroutine)
      /\ toClient' = toClient
    BY Numbers, TailIndexes DEF SendCompletes
<1>2. Count(sends', PongHandler) = Count(Tail(sends), PongHandler)
    BY <1>1, SendCompletesCalm, CalmCount
<1>3. /\ Count(sends, PongHandler) \in Nat /\ Count(Tail(sends), PongHandler) \in Nat
      /\ Count(toClient, Ping) \in Nat
    BY <1>1, CountsType, CountType, TailIndexes
<1>4. Count(sends, PongHandler) =
        IF sends[1] = PongHandler THEN Count(Tail(sends), PongHandler) + 1
        ELSE Count(Tail(sends), PongHandler)
    BY <1>1, CountTail
<1> QED BY <1>1, <1>2, <1>3, <1>4 DEF PingsUnderWay

LEMMA SamePings ==
    ASSUME toClient' = toClient, sends' = sends
    PROVE  PingsUnderWay' = PingsUnderWay
BY DEF PingsUnderWay

LEMMA ReadMessagePings ==
    ASSUME TypeOK, ReadMessage
    PROVE  PingsUnderWay' = PingsUnderWay
<1>1. /\ sends \in Seq(Coroutine) /\ toClient \in Seq(Incoming) /\ toClient # <<>>
      /\ toClient' = Tail(toClient) /\ Tail(toClient) \in Seq(Incoming)
      /\ HandleMessage(toClient[1])
      /\ Len(Tail(toClient)) \in Nat
    BY Numbers, TailIndexes DEF ReadMessage
<1>2. /\ Count(sends, PongHandler) \in Nat /\ Count(toClient, Ping) \in Nat
      /\ Count(toClient', Ping) \in Nat
    BY <1>1, CountsType, CountType
<1>3. Count(toClient, Ping) = IF toClient[1] = Ping THEN Count(toClient', Ping) + 1
                              ELSE Count(toClient', Ping)
    BY <1>1, CountTail
<1>4. Count(sends', PongHandler) = IF toClient[1] = Ping THEN Count(sends, PongHandler) + 1
                                   ELSE Count(sends, PongHandler)
    <2>1. CASE toClient[1] = Ping
        <3>1. sends' = Append(sends, PongHandler)
            BY <1>1, <2>1 DEF HandleMessage, Send, PongHandler
        <3>2. PongHandler \in Coroutine
            BY MessageTypes DEF PongHandler, Suspended, Coroutine
        <3> QED BY <1>1, <2>1, <3>1, <3>2, CountAppend
    <2>2. CASE toClient[1] # Ping
        <3>1. Visit(sends, toClient[1])
            BY <1>1, <2>2 DEF HandleMessage
        <3> QED BY <1>1, <2>2, <3>1, VisitCalm, CalmCount
    <2> QED BY <2>1, <2>2
<1>5. CASE toClient[1] = Ping
    BY <1>2, <1>3, <1>4, <1>5 DEF PingsUnderWay
<1>6. CASE toClient[1] # Ping
    BY <1>2, <1>3, <1>4, <1>6 DEF PingsUnderWay
<1> QED BY <1>5, <1>6

LEMMA AnswerPings ==
    ASSUME TypeOK, sends' = sends, NEW m \in Incoming, toClient' = Append(toClient, m)
    PROVE  PingsUnderWay' = IF m = Ping THEN PingsUnderWay + 1 ELSE PingsUnderWay
<1>1. Count(toClient', Ping) = IF m = Ping THEN Count(toClient, Ping) + 1
                               ELSE Count(toClient, Ping)
    BY Numbers, CountAppend
<1>2. CASE m = Ping
    BY <1>1, <1>2, CountsType DEF PingsUnderWay
<1>3. CASE m # Ping
    BY <1>1, <1>3 DEF PingsUnderWay
<1> QED BY <1>2, <1>3

\* Every PING under way is one the server sent, and no step but one of the server
\* brings another.
LEMMA NextPings ==
    ASSUME TypeOK, [Next]_vars
    PROVE  /\ PingsUnderWay \in Nat /\ PingsUnderWay' \in Nat /\ done.pings \in Nat
           /\ done'.pings \in Nat /\ done.pings <= done'.pings
           /\ PingsUnderWay' - PingsUnderWay <= done'.pings - done.pings
<1>0. PingsUnderWay \in Nat /\ done.pings \in Nat /\ done \in DoneType
      /\ sends \in Seq(Coroutine) /\ toClient \in Seq(Incoming)
    BY CountsType, SameTypes, Numbers DEF TypeParts
<1>1. PingsUnderWay' \in Nat
    <2>1. TypeOK'
        BY NextType
    <2>2. (TypeOK => PingsUnderWay \in Nat)'
        <3>1. TypeOK => PingsUnderWay \in Nat
            BY CountsType
        <3>2. sends' \in Seq(Coroutine) /\ toClient' \in Seq(Incoming)
            BY <2>1, SameTypesPrime DEF TypeParts
        <3>3. Len(sends') \in Nat /\ Len(toClient') \in Nat
            BY <3>2
        <3>4. Count(sends', PongHandler) \in Nat /\ Count(toClient', Ping) \in Nat
            BY <3>3, CountType
        <3> QED BY <3>4 DEF PingsUnderWay
    <2> QED BY <2>1, <2>2
<1>2. CASE Connect \/ FailToConnect
    <2>1. Calmly(sends) /\ toClient' = toClient /\ done' = done
        BY <1>2, EnterConnectedCalm DEF Connect, FailToConnect, StartRegistration, wireVars
    <2>2. PingsUnderWay' = PingsUnderWay
        BY <1>0, <2>1, CalmCount DEF PingsUnderWay
    <2> QED BY <1>0, <2>1, <2>2
<1>3. CASE ReadMessage
    <2>1. done' = done
        BY <1>3 DEF ReadMessage
    <2> QED BY <1>0, <1>3, <2>1, ReadMessagePings
<1>4. CASE SendCompletes
    <2>1. done' = done
        BY <1>4 DEF SendCompletes
    <2>2. PingsUnderWay' <= PingsUnderWay
        BY <1>0, <1>4, SendCompletesPings
    <2> QED BY <1>0, <1>1, <2>1, <2>2
<1>5. CASE HandleOutgoing
    <2> DEFINE x == Suspended(PrivmsgOut, FALSE)
    <2>1. sends' = Append(sends, x) /\ toClient' = toClient
          /\ done' = [done EXCEPT !.outgoing = @ + 1]
        BY <1>5 DEF HandleOutgoing, Send, wireVars
    <2>2. x \in Coroutine /\ x # PongHandler
        BY MessageTypes DEF Suspended, Coroutine, PongHandler, PrivmsgOut, Pong
    <2> HIDE DEF x
    <2>3. PingsUnderWay' = PingsUnderWay
        BY <1>0, <2>1, <2>2, CountAppend DEF PingsUnderWay
    <2>4. done'.pings = done.pings
        BY <1>0, <2>1 DEF DoneType
    <2> QED BY <1>0, <2>3, <2>4
<1>6. CASE ServerReads
    <2>1. sends' = sends /\ done' = done
        BY <1>6 DEF ServerReads
    <2>2. \/ toClient' = toClient
          \/ \E m \in {Welcome, NickInUse} : toClient' = Append(toClient, m)
        BY <1>6 DEF ServerReads, ServerTakesNick, Know, Answer
    <2>3. Welcome # Ping /\ NickInUse # Ping /\ {Welcome, NickInUse} \subseteq Incoming
        BY MessageTypes DEF Welcome, NickInUse, Ping
    <2>4. PingsUnderWay' = PingsUnderWay
        <3>1. CASE toClient' = toClient
            BY <2>1, <3>1, SamePings
        <3>2. ASSUME NEW m \in {Welcome, NickInUse}, toClient' = Append(toClient, m)
              PROVE  PingsUnderWay' = PingsUnderWay
            <4>1. m \in Incoming /\ m # Ping
                BY <2>3
            <4> QED BY <2>1, <3>2, <4>1, AnswerPings
        <3> QED BY <2>2, <3>1, <3>2
    <2> QED BY <1>0, <2>1, <2>4
<1>7. CASE ServerPings
    <2>1. /\ sends' = sends /\ toClient' = Append(toClient, Ping)
          /\ done' = [done EXCEPT !.pings = @ + 1]
        BY <1>7 DEF ServerPings, Answer
    <2>2. PingsUnderWay' = PingsUnderWay + 1
        BY <2>1, AnswerPings, MessageTypes
    <2>3. done'.pings = done.pings + 1
        BY <1>0, <2>1 DEF DoneType
    <2> QED BY <1>0, <2>2, <2>3
<1>8. CASE ServerRelays
    <2> DEFINE m == Privmsg(done.chats + 1)
    <2>1. /\ sends' = sends /\ toClient' = Append(toClient, m)
          /\ done' = [done EXCEPT !.chats = @ + 1]
          /\ done.chats + 1 \in 1..MaxChats
        BY <1>0, <1>8, DoneTypes DEF ServerRelays, Answer
    <2>2. m \in Incoming /\ m # Ping
        BY <2>1, MessageTypes DEF Privmsg, Ping
    <2> HIDE DEF m
    <2>3. PingsUnderWay' = PingsUnderWay
        BY <2>1, <2>2, AnswerPings
    <2>4. done'.pings = done.pings
        BY <1>0, <2>1 DEF DoneType
    <2> QED BY <1>0, <2>3, <2>4
<1>9. CASE \/ FailToResolve \/ FailToRead \/ Retry \/ HandleExit
           \/ ServerStalls \/ ServerCloses \/ UNCHANGED vars
    <2>1. toClient' = toClient /\ sends' = sends
        BY <1>9 DEF FailToResolve, FailToRead, Retry, HandleExit, ServerStalls,
                    ServerCloses, vars, wireVars
    <2>2. done' \in {done, [done EXCEPT !.exits = @ + 1], [done EXCEPT !.stalls = @ + 1],
                     [done EXCEPT !.closes = @ + 1]}
        BY <1>9 DEF FailToResolve, FailToRead, Retry, HandleExit, ServerStalls,
                    ServerCloses, vars
    <2>3. done'.pings = done.pings
        BY <1>0, <2>2 DEF DoneType
    <2> QED BY <1>0, <2>1, <2>3, SamePings
<1> QED BY <1>2, <1>3, <1>4, <1>5, <1>6, <1>7, <1>8, <1>9 DEF Next, Client, Server

LEMMA AppendPongs ==
    ASSUME NEW rest \in Seq(Coroutine),
           \A i \in 1..Len(rest) : IsPong(rest[i]) => rest[i] = PongHandler,
           NEW x \in Coroutine, sends' = Append(rest, x), ~IsPong(x) \/ x = PongHandler
    PROVE  \A i \in 1..Len(sends') : IsPong(sends'[i]) => sends'[i] = PongHandler
BY AppendIndexes

LEMMA CalmPongs ==
    ASSUME NEW rest \in Seq(Coroutine), Calmly(rest),
           \A i \in 1..Len(rest) : IsPong(rest[i]) => rest[i] = PongHandler
    PROVE  \A i \in 1..Len(sends') : IsPong(sends'[i]) => sends'[i] = PongHandler
BY AppendPongs DEF Calmly, Calm

\* Who answers a PING is a handler.
LEMMA NextPongs ==
    ASSUME TypeOK, [Next]_vars,
           \A i \in 1..Len(sends) : IsPong(sends[i]) => sends[i] = PongHandler
    PROVE  \A i \in 1..Len(sends') : IsPong(sends'[i]) => sends'[i] = PongHandler
<1>0. sends \in Seq(Coroutine)
    BY Numbers
<1>1. CASE Connect \/ FailToConnect
    <2>1. Calmly(sends)
        BY <1>1, EnterConnectedCalm DEF Connect, FailToConnect, StartRegistration
    <2> QED BY <1>0, <2>1, CalmPongs
<1>2. CASE ReadMessage
    <2>1. CASE Send(sends, Pong, FALSE)
        <3>1. sends' = Append(sends, PongHandler) /\ PongHandler \in Coroutine
            BY <2>1, MessageTypes DEF Send, PongHandler, Suspended, Coroutine
        <3> QED BY <1>0, <3>1, AppendPongs
    <2>2. CASE Visit(sends, Head(toClient))
        BY <1>0, <2>2, VisitCalm, CalmPongs
    <2> QED BY <1>2, <2>1, <2>2 DEF ReadMessage, HandleMessage
<1>3. CASE SendCompletes
    <2>1. sends # <<>>
        BY <1>3 DEF SendCompletes
    <2>2. /\ Tail(sends) \in Seq(Coroutine)
          /\ \A i \in 1..Len(Tail(sends)) :
                IsPong(Tail(sends)[i]) => Tail(sends)[i] = PongHandler
        BY <1>0, <2>1, TailIndexes
    <2> QED BY <1>3, <2>2, SendCompletesCalm, CalmPongs
<1>4. CASE HandleOutgoing
    <2> DEFINE x == Suspended(PrivmsgOut, FALSE)
    <2>1. sends' = Append(sends, x) /\ x \in Coroutine /\ ~IsPong(x)
        BY <1>4, MessageTypes, Kinds DEF HandleOutgoing, Send, Suspended, Coroutine
    <2> QED BY <1>0, <2>1, AppendPongs
<1>5. CASE sends' = sends
    BY <1>5
<1> QED BY <1>1, <1>2, <1>3, <1>4, <1>5
    DEF Next, Client, Server, FailToResolve, FailToRead, Retry, HandleExit, ServerReads,
        ServerPings, ServerRelays, ServerStalls, ServerCloses, vars

-----------------------------------------------------------------------------
\* The nicks that are tried.
LEMMA EnterConnectedInRange ==
    ASSUME NEW rest, NEW n \in Nicks, NEW w, EnterConnected(rest, n, w)
    PROVE  state' = Connected(n) /\ crashed' = crashed
BY DEF EnterConnected, SendNick

LEMMA EnterFailureInRange ==
    ASSUME NEW rest, NEW w, state.n + 1 \in Nicks, EnterFailure(rest, w)
    PROVE  state' = Connected(state.n + 1) /\ crashed' = crashed
BY EnterConnectedInRange DEF EnterFailure

\* A step that tries no other nick.
LEMMA RangeStays ==
    ASSUME TypeOK, [Next]_vars, NEW n \in Nicks, InRange(n), crashed' = crashed,
           state' = state \/ state' = Registered(state.n)
    PROVE  InRange(n)'
<1>1. /\ PingsUnderWay \in Nat /\ PingsUnderWay' \in Nat /\ done.pings \in Nat
      /\ done'.pings \in Nat /\ PingsUnderWay' - PingsUnderWay <= done'.pings - done.pings
      /\ state.n \in Nat /\ n \in Int
    BY NextPings, Numbers DEF Nicks
<1>2. CASE state' = state
    <2>1. CASE state.n <= n
        BY <1>1, <1>2, <2>1 DEF InRange
    <2>2. CASE state.n + PingsUnderWay <= n + done.pings
        <3>1. state.n + PingsUnderWay' <= n + done'.pings
            BY <1>1, <2>2
        <3> QED BY <1>2, <3>1 DEF InRange
    <2>3. CASE state.name # "connected"
        BY <1>2, <2>3 DEF InRange
    <2> QED BY <2>1, <2>2, <2>3 DEF InRange
<1>3. CASE state' = Registered(state.n)
    BY <1>3 DEF InRange, Registered, State
<1> QED BY <1>2, <1>3

\* The refused nick is not a free one.
LEMMA RefusalInRange ==
    ASSUME TypeOK, Agreed, NEW n \in Nicks, Free(n), InRange(n), [Next]_vars,
           state.name = "connected", ~NoRefusal,
           NEW rest, NEW w, EnterFailure(rest, w), PingsUnderWay' = PingsUnderWay
    PROVE  InRange(n)'
<1>1. /\ PingsUnderWay \in Nat /\ done.pings \in Nat /\ done'.pings \in Nat
      /\ done.pings <= done'.pings /\ state.n \in Nat /\ n \in Int /\ NickCount \in Nat \ {0}
      /\ n >= 0 /\ n < NickCount
    BY NextPings, Numbers DEF Nicks
<1>2. state.n \in InUse
    BY DEF Agreed, ConnectedInv, Single, Clear, InRange
<1>3. \A k \in 0..done.pings : state.n # n + k
    BY <1>2 DEF Free
<1>4. state.n < n
    <2>1. CASE state.n + PingsUnderWay <= n + done.pings /\ state.n >= n
        <3>1. state.n - n \in 0..done.pings /\ state.n = n + (state.n - n)
            BY <1>1, <2>1
        <3> QED BY <1>3, <3>1
    <2>2. 0 \in 0..done.pings /\ state.n # n + 0
        BY <1>1, <1>3
    <2> QED BY <1>1, <2>1, <2>2 DEF InRange
<1>5. state.n + 1 \in Nicks
    BY <1>1, <1>4 DEF Nicks
<1>6. state' = Connected(state.n + 1) /\ crashed' = crashed
    BY <1>5, EnterFailureInRange
<1>7. state'.name = "connected" /\ state'.n = state.n + 1 /\ state.n + 1 <= n
    BY <1>1, <1>4, <1>6 DEF Connected, State
<1> QED BY <1>5, <1>6, <1>7 DEF InRange

\* A PING that skips a nick is one that was counted.
LEMMA SkipInRange ==
    ASSUME TypeOK, NEW n \in Nicks, Free(n), InRange(n), [Next]_vars,
           state.name = "connected", PingsUnderWay <= done.pings, SendCompletes,
           sends[1] = PongHandler, NEW rest, NEW w, EnterFailure(rest, w)
    PROVE  InRange(n)'
<1>1. /\ PingsUnderWay \in Nat /\ PingsUnderWay' \in Nat /\ done.pings \in Nat
      /\ done' = done /\ state.n \in Nat /\ n \in Int
      /\ PingsUnderWay' = PingsUnderWay - 1 /\ PingsUnderWay >= 1
    <2>1. /\ PingsUnderWay \in Nat /\ PingsUnderWay' \in Nat /\ done.pings \in Nat
          /\ done' = done /\ state.n \in Nat /\ n \in Int
        BY NextPings, Numbers DEF Nicks, SendCompletes
    <2>2. PingsUnderWay' = PingsUnderWay - 1
        BY SendCompletesPings
    <2> QED BY <2>1, <2>2
<1>2. state.n + 1 <= n \/ (n < state.n + 1 /\ state.n + 1 + PingsUnderWay' <= n + done.pings)
    BY <1>1 DEF InRange
<1>3. state.n + 1 \in Nicks
    <2>1. CASE state.n + 1 <= n
        BY <1>1, <2>1, Numbers DEF Nicks
    <2>2. CASE n < state.n + 1 /\ state.n + 1 + PingsUnderWay' <= n + done.pings
        <3>1. state.n + 1 - n \in 0..done.pings /\ n + (state.n + 1 - n) = state.n + 1
            BY <1>1, <2>2
        <3>2. n + (state.n + 1 - n) \in Nicks
            BY <3>1 DEF Free
        <3> QED BY <3>1, <3>2
    <2> QED BY <1>2, <2>1, <2>2
<1>4. state' = Connected(state.n + 1) /\ crashed' = crashed
    BY <1>3, EnterFailureInRange
<1>5. state'.name = "connected" /\ state'.n = state.n + 1
    BY <1>4 DEF Connected, State
<1>6. state'.n <= n \/ state'.n + PingsUnderWay' <= n + done'.pings
    BY <1>1, <1>2, <1>5
<1> QED BY <1>3, <1>4, <1>5, <1>6 DEF InRange

LEMMA VisitRegisters ==
    ASSUME NEW rest, NEW m, Visit(rest, m), ~(state.name = "connected" /\ m = NickInUse)
    PROVE  crashed' = crashed /\ (state' = state \/ state' = Registered(state.n))
<1>1. CASE state.name = "connected" /\ m = Welcome
    <2>1. NickInUse # Welcome
        BY DEF NickInUse, Welcome
    <2>2. EnterRegistered(rest)
        BY <1>1, <2>1 DEF Visit
    <2> QED BY <2>2 DEF EnterRegistered
<1>2. CASE ~(state.name = "connected" /\ m = Welcome)
    BY <1>2 DEF Visit
<1> QED BY <1>1, <1>2

LEMMA VisitRefused ==
    ASSUME NEW rest, NEW m, Visit(rest, m), state.name = "connected", m = NickInUse
    PROVE  EnterFailure(rest, FALSE)
<1>1. NickInUse # Welcome
    BY DEF NickInUse, Welcome
<1> QED BY <1>1 DEF Visit

LEMMA SentInRange ==
    ASSUME TypeOK, WorkerInv, Agreed, PingsUnderWay <= done.pings,
           \A i \in 1..Len(sends) : IsPong(sends[i]) => sends[i] = PongHandler,
           NEW n \in Nicks, Free(n), InRange(n), [Next]_vars, SendCompletes
    PROVE  InRange(n)'
<1>1. /\ sends # <<>> /\ 1 \in 1..Len(sends) /\ sends[1] = Head(sends)
      /\ sends[1] \in Coroutine /\ Resume(Tail(sends), sends[1])
    BY Numbers, TailIndexes DEF SendCompletes
<1> DEFINE m == sends[1].message
           w == sends[1].inWorker
           rest == Tail(sends)
<1>2. m \in Outgoing
    BY <1>1 DEF Coroutine
<1>3. CASE m.command = "PASS"
    <2>1. AfterPass(rest, w)
        BY <1>1, <1>3 DEF Resume
    <2>2. ~NoPass
        BY <1>1, <1>3 DEF NoPass, IsPass
    <2>3. state.name # "registered"
        BY <2>2 DEF Agreed, RegisteredInv
    <2>4. state.name # "disconnected"
        BY <1>1, <1>3 DEF WorkerInv, PrivmsgOut
    <2>5. state.name = "connected" /\ state.n \in Nicks
        BY <2>3, <2>4 DEF InRange
    <2>6. state' = state /\ crashed' = crashed
        BY <2>1, <2>5 DEF AfterPass, SendNick
    <2> QED BY <2>6, RangeStays
<1>4. CASE m.command \in {"NICK", "USER", "JOIN", "PRIVMSG"}
    <2>1. state' = state /\ crashed' = crashed
        BY <1>1, <1>4 DEF Resume
    <2> QED BY <2>1, RangeStays
<1>5. CASE m.command = "PONG"
    <2>1. PICK message \in {NoCommand, latest} : Visit(rest, message)
        BY <1>1, <1>5 DEF Resume, AfterPong
    <2>2. CASE state.name = "connected" /\ message = NickInUse
        <3>1. EnterFailure(rest, FALSE)
            BY <2>1, <2>2, VisitRefused
        <3>2. sends[1] = PongHandler
            BY <1>1, <1>5 DEF IsPong
        <3> QED BY <2>2, <3>1, <3>2, SkipInRange
    <2>3. CASE ~(state.name = "connected" /\ message = NickInUse)
        BY <2>1, <2>3, VisitRegisters, RangeStays
    <2> QED BY <2>2, <2>3
<1>6. m.command \in {"PASS", "NICK", "USER", "JOIN", "PONG", "PRIVMSG"}
    BY <1>2 DEF Outgoing, Pass, User, Pong, PrivmsgOut, NickIs, Join
<1> QED BY <1>3, <1>4, <1>5, <1>6

LEMMA NextInRange ==
    ASSUME TypeOK, WorkerInv, Agreed, PingsUnderWay <= done.pings,
           \A i \in 1..Len(sends) : IsPong(sends[i]) => sends[i] = PongHandler,
           NEW n \in Nicks, Free(n), InRange(n), [Next]_vars, ~Exited'
    PROVE  InRange(n)'
<1>1. CASE Connect \/ FailToConnect
    <2>1. EnterConnected(sends, 0, TRUE)
        BY <1>1 DEF Connect, FailToConnect, StartRegistration
    <2>2. 0 \in Nicks
        BY Numbers DEF Nicks
    <2>3. state' = Connected(0) /\ crashed' = crashed
        BY <2>1, <2>2, EnterConnectedInRange
    <2>4. state'.name = "connected" /\ state'.n = 0 /\ n >= 0
        BY <2>3 DEF Connected, State, Nicks
    <2> QED BY <2>2, <2>3, <2>4 DEF InRange
<1>2. CASE ReadMessage
    <2>1. 1 \in 1..Len(toClient) /\ HandleMessage(toClient[1])
        BY <1>2, Numbers, TailIndexes DEF ReadMessage
    <2>2. CASE state.name = "connected" /\ toClient[1] = NickInUse
        <3>1. NickInUse # Ping
            BY DEF NickInUse, Ping
        <3>2. EnterFailure(sends, FALSE)
            BY <2>1, <2>2, <3>1, VisitRefused DEF HandleMessage
        <3>3. ~NoRefusal
            BY <2>1, <2>2 DEF NoRefusal
        <3>4. PingsUnderWay' = PingsUnderWay
            BY <1>2, ReadMessagePings
        <3> QED BY <2>2, <3>2, <3>3, <3>4, RefusalInRange
    <2>3. CASE ~(state.name = "connected" /\ toClient[1] = NickInUse)
        <3>1. crashed' = crashed /\ (state' = state \/ state' = Registered(state.n))
            BY <2>1, <2>3, VisitRegisters DEF HandleMessage
        <3> QED BY <3>1, RangeStays
    <2> QED BY <2>2, <2>3
<1>3. CASE SendCompletes
    BY <1>3, SentInRange
<1>4. CASE HandleExit
    <2>1. done \in DoneType /\ done' = [done EXCEPT !.exits = @ + 1]
        BY <1>4, SameTypes DEF TypeParts, HandleExit
    <2>2. done'.exits > 0
        BY <2>1 DEF DoneType
    <2> QED BY <2>2 DEF Exited
<1>5. CASE state' = state /\ crashed' = crashed
    BY <1>5, RangeStays
<1> QED BY <1>1, <1>2, <1>3, <1>4, <1>5
    DEF Next, Client, Server, FailToResolve, FailToRead, Retry, HandleOutgoing, ServerReads,
        ServerPings, ServerRelays, ServerStalls, ServerCloses, vars

LEMMA InitRangeInv == Init => RangeInv
<1> SUFFICES ASSUME Init PROVE RangeInv
    OBVIOUS
<1>1. toClient = <<>> /\ sends = <<>> /\ done.pings = 0 /\ ~crashed /\ state = Disconnected
    BY DEF Init
<1>2. Count(<<>>, Ping) = 0 /\ Count(<<>>, PongHandler) = 0
    <2>1. Occurrences(<<>>, Ping) = {} /\ Occurrences(<<>>, PongHandler) = {}
        BY DEF Occurrences
    <2> QED BY <2>1, FS_EmptySet DEF Count
<1>3. PingsUnderWay = 0
    BY <1>1, <1>2 DEF PingsUnderWay
<1>4. 0 \in Nicks /\ state.name = "disconnected" /\ state.n = 0
    BY <1>1, CountsAssumption DEF Nicks, Disconnected, State
<1> QED BY <1>1, <1>3, <1>4 DEF RangeInv, InRange

LEMMA NextRangeInv == TypeOK /\ NickInv /\ RangeInv /\ [Next]_vars => RangeInv'
<1> SUFFICES ASSUME TypeOK, NickInv, RangeInv, [Next]_vars PROVE RangeInv'
    OBVIOUS
<1>1. /\ PingsUnderWay \in Nat /\ PingsUnderWay' \in Nat /\ done.pings \in Nat
      /\ done'.pings \in Nat /\ done.pings <= done'.pings
      /\ PingsUnderWay' - PingsUnderWay <= done'.pings - done.pings
    BY NextPings
<1>2. PingsUnderWay' <= done'.pings
    BY <1>1 DEF RangeInv
<1>3. \A i \in 1..Len(sends') : IsPong(sends'[i]) => sends'[i] = PongHandler
    BY NextPongs DEF RangeInv
<1>4. ASSUME RefusalsApart', ~Exited', NEW n \in Nicks, Free(n)' PROVE InRange(n)'
    <2>1. RefusalsApart
        BY <1>4, RefusalsStayApart
    <2>2. ~Exited
        <3>1. done \in DoneType
            BY SameTypes DEF TypeParts
        <3>2. done' \in {done, [done EXCEPT !.pings = @ + 1], [done EXCEPT !.chats = @ + 1],
                         [done EXCEPT !.outgoing = @ + 1], [done EXCEPT !.stalls = @ + 1],
                         [done EXCEPT !.closes = @ + 1], [done EXCEPT !.exits = @ + 1]}
            BY DEF Next, Client, Server, Connect, FailToConnect, StartRegistration,
                   FailToResolve, ReadMessage, FailToRead, Retry, SendCompletes,
                   HandleOutgoing, HandleExit, ServerReads, ServerPings, ServerRelays,
                   ServerStalls, ServerCloses, vars
        <3>3. /\ done.exits \in Nat /\ done'.exits \in Nat
              /\ done'.exits >= done.exits
            BY <3>1, <3>2, CountsAssumption DEF DoneType
        <3>4. ~(done'.exits > 0)
            BY <1>4 DEF Exited
        <3>5. ~(done.exits > 0)
            BY <3>3, <3>4
        <3> QED BY <3>5 DEF Exited
    <2>3. Free(n)
        BY <1>1, <1>4 DEF Free
    <2>4. InRange(n) /\ Agreed /\ WorkerInv
        BY <2>1, <2>2, <2>3 DEF RangeInv, NickInv, Agreed
    <2> QED BY <1>4, <2>3, <2>4, NextInRange DEF RangeInv
<1> QED BY <1>2, <1>3, <1>4 DEF RangeInv

LEMMA InvStaysInRange == RangeInv => StaysInRange
BY DEF RangeInv, StaysInRange, EnoughFreeNicks, Free, InRange

\* While the server accepts one of the nicks and the ones behind it that PINGs may
\* skip to, no nick outside the list is read: the end of the list, which state_change
\* does not look for, is not reached, whatever the number of nicks and PINGs.
THEOREM NoNickOutOfRange == Spec => []StaysInRange
<1>1. Init => TypeOK /\ NickInv /\ RangeInv
    BY InitType, InitNickInv, InitRangeInv
<1>2. (TypeOK /\ NickInv /\ RangeInv) /\ [Next]_vars => (TypeOK /\ NickInv /\ RangeInv)'
    BY NextType, NextNickInv, NextRangeInv
<1>3. RangeInv => StaysInRange
    BY InvStaysInRange
<1> QED BY <1>1, <1>2, <1>3, PTL DEF Spec
=============================================================================
