------------------------------ MODULE JohnBot -------------------------------
(***************************************************************************)
(* The bot: the loop that receives and dispatches messages (bot::run and   *)
(* bot::handle_message), the registration and the joining of its things,   *)
(* the permission check of commands, the set-up coroutine of main.cpp, and *)
(* the things as far as the loop sees them.                                *)
(*                                                                         *)
(* Everything runs on one thread (io_context{1}): coroutines interleave    *)
(* only where a co_await suspends, so one action is what a coroutine does  *)
(* between two such points.  The coroutines are                            *)
(*                                                                         *)
(*   the loop      bot::run, and handle_message inside it                  *)
(*   a handler     thing::handle, awaited by the loop                      *)
(*   a worker      thing::worker, and what it spawns for incoming traffic  *)
(*   the set-up    setup_bot, which queues one add_thing after another     *)
(*                                                                         *)
(* Things are of four kinds: clients (irc_N, telegram_N, tcp), whose       *)
(* worker serves a connection and whose handler may wait for the network;  *)
(* the relay; the logger and the dummy, which never suspend.               *)
(***************************************************************************)
EXTENDS MessageChannel, Integers, FiniteSets

CONSTANTS
    Clients,        \* the things that serve a connection
    SetupOrder,     \* the sequence of things setup_bot adds
    Chats,          \* where messages come from and go to (mini_kv identifiers)
    Users,          \* senders of commands (mini_kv identifiers)
    Words,          \* what the arguments of a command are made of
    UserLevel,      \* the table user_levels, 0 for a user who is not in it
    Traffic,        \* the payloads a client may queue
    Addressees,     \* whom it may address them to ({All}: the clients of src/)
    InitialMappings,\* what relay_mappings holds when the bot starts
    SqlMayFail,     \* TRUE when a query may return an error
    Quitters,       \* the clients whose worker returns once they handled an exit
    MaxSerial       \* clients queue nothing once this many serials are given

Relay  == "relay"
Logger == "logger"
Dummy  == "dummy"
Bot    == "bot"         \* m_to of a message the bot handles itself
All    == ""            \* m_to of a broadcast

Local  == {Relay, Logger, Dummy}
Things == Clients \cup Local

\* The coroutines that queue messages and wait when there is no room: a worker
\* goes by the name of its thing.
RunLoop      == "run"
RelayHandler == "relay::handle"
Setup        == "setup_bot"
Coroutines   == Things \cup {RunLoop, RelayHandler, Setup}

AddMap == "addmap"
Op     == 2             \* user_level::op

\* The payloads.
IncomingMessage(chat) == [kind |-> "incoming_message", chat |-> chat]
Command(user, chat, argv) ==
    [kind |-> "command", user |-> user, chat |-> chat, argv |-> argv]
CommandDecl(command, level) ==
    [kind |-> "command_decl", command |-> command, level |-> level]
OutgoingMessage(chat, content) ==
    [kind |-> "outgoing_message", chat |-> chat, content |-> content]
AddThing(thing) == [kind |-> "add_thing", thing |-> thing]
Exit == [kind |-> "exit"]

NoReply == 0            \* m_reply_serial without a value

NewMessage(from, to, re, body) ==
    [serial |-> 0, from |-> from, to |-> to, re |-> re, body |-> body]

NoMessage == NewMessage("", "", NoReply, [kind |-> "none"])

ASSUME ClientsAssumption ==
    Clients \cap (Local \cup {RunLoop, RelayHandler, Setup, Bot, All}) = {}
ASSUME SetupOrderAssumption == SetupOrder \in Seq(Things)
ASSUME TrafficAssumption ==
    \A body \in Traffic :
        \/ body = Exit
        \/ \E c \in Chats : body = IncomingMessage(c)
        \/ /\ body.kind = "command" /\ body.argv \in Seq(Words)
           /\ \E u \in Users, c \in Chats : body = Command(u, c, body.argv)
ASSUME AddresseesAssumption == Addressees \subseteq Things \cup {All, Bot}
ASSUME WordsAssumption == AddMap \in Words /\ InitialMappings \subseteq Seq(Words)
ASSUME UserLevelAssumption == UserLevel \in [Users -> Int]
ASSUME QuittersAssumption == Quitters \subseteq Clients
ASSUME FlagsAssumption == SqlMayFail \in BOOLEAN /\ MaxSerial \in Nat

VARIABLES
    chan,       \* m_message_channel
    serial,     \* m_previous_serial: the serial the next message gets
    run,        \* where bot::run is
    cur,        \* the message the loop received last
    handlers,   \* the things whose handle() the loop waits for
    outbox,     \* the messages relay::handle still has to queue
    things,     \* m_things: the registered ids
    worker,     \* where the worker of each thing is
    commands,   \* m_declared_commands: command -> level
    mappings,   \* the table relay_mappings
    setup       \* the number of add_thing messages setup_bot queued

vars == <<chan, serial, run, cur, handlers, outbox, things, worker, commands,
          mappings, setup>>

loopVars == <<run, cur, handlers, outbox>>
botVars  == <<things, worker, commands, mappings>>

Init ==
    /\ chan = NewChannel
    /\ serial = 1
    /\ run = "receive"
    /\ cur = NoMessage
    /\ handlers = {}
    /\ outbox = {}
    /\ things = {}
    /\ worker = [t \in Things |-> "absent"]
    /\ commands = <<>>
    /\ mappings = InitialMappings
    /\ setup = 0

-----------------------------------------------------------------------------
\* queue_message.

\* The serial is taken after the message went into the channel: the message
\* carries the number of the one before it.
QueueStaleSerial(m, coroutine) ==
    /\ chan' = Send(chan, [m EXCEPT !.serial = serial - 1], coroutine)
    /\ serial' = serial + 1

\* The next serial, then try_send and async_send, without a suspension between.
QueueMessage(m, coroutine) ==
    /\ chan' = Send(chan, [m EXCEPT !.serial = serial], coroutine)
    /\ serial' = serial + 1

\* A reply that refers to the message queued last, not to the one in hand.
ReplyToLatest(from, content) ==
    NewMessage(from, cur.from, serial, OutgoingMessage(cur.body.chat, content))

\* queue_a_reply, as a message to queue.
Reply(from, content) ==
    NewMessage(from, cur.from, cur.serial, OutgoingMessage(cur.body.chat, content))

-----------------------------------------------------------------------------
\* bot::run

ReceiveMessage ==
    /\ run = "receive"
    /\ ~Sending(chan, RunLoop)
    /\ chan.buffer # <<>>
    /\ cur' = Head(chan.buffer)
    /\ chan' = Receive(chan)
    /\ run' = "handle"
    /\ UNCHANGED <<serial, handlers, outbox, botVars, setup>>

\* The loop goes back to the channel although it is closed.
WaitOnClosed ==
    /\ run = "receive"
    /\ ~Sending(chan, RunLoop)
    /\ chan.buffer = <<>>
    /\ chan' = AwaitMessage(chan)
    /\ run' = "waiting"
    /\ UNCHANGED <<serial, cur, handlers, outbox, botVars, setup>>

WaitForMessage ==
    /\ run = "receive"
    /\ ~Sending(chan, RunLoop)
    /\ chan.buffer = <<>>
    /\ chan.open
    /\ chan' = AwaitMessage(chan)
    /\ run' = "waiting"
    /\ UNCHANGED <<serial, cur, handlers, outbox, botVars, setup>>

ResumeWithMessage ==
    /\ run = "waiting"
    /\ chan.handed # <<>>
    /\ cur' = Head(chan.handed)
    /\ chan' = Resume(chan)
    /\ run' = "handle"
    /\ UNCHANGED <<serial, handlers, outbox, botVars, setup>>

\* The loop leaves as soon as the channel is closed.
LeaveAtOnce ==
    /\ run = "receive"
    /\ ~chan.open
    /\ run' = "join"
    /\ UNCHANGED <<chan, serial, cur, handlers, outbox, botVars, setup>>

\* The channel is closed and empty: async_receive fails.
LeaveLoop ==
    /\ run = "receive"
    /\ ~Sending(chan, RunLoop)
    /\ chan.buffer = <<>>
    /\ ~chan.open
    /\ run' = "join"
    /\ UNCHANGED <<chan, serial, cur, handlers, outbox, botVars, setup>>

Joined == {t \in Things : worker[t] = "joined"}

JoinOneThing ==
    /\ run = "join"
    /\ Cardinality(Joined) < Cardinality(things)
    /\ \E t \in Things :
        /\ worker[t] = "returned"
        /\ worker' = [worker EXCEPT ![t] = "joined"]
    /\ UNCHANGED <<chan, serial, loopVars, things, commands, mappings, setup>>

\* One worker fewer is waited for.
ExitOneEarly ==
    /\ run = "join"
    /\ Cardinality(Joined) + 1 >= Cardinality(things)
    /\ run' = "done"
    /\ UNCHANGED <<chan, serial, cur, handlers, outbox, botVars, setup>>

\* One worker more is waited for.
ExitOneLate ==
    /\ run = "join"
    /\ Cardinality(Joined) > Cardinality(things)
    /\ run' = "done"
    /\ UNCHANGED <<chan, serial, cur, handlers, outbox, botVars, setup>>

ExitSuccessfully ==
    /\ run = "join"
    /\ Cardinality(Joined) >= Cardinality(things)
    /\ run' = "done"
    /\ UNCHANGED <<chan, serial, cur, handlers, outbox, botVars, setup>>

-----------------------------------------------------------------------------
\* bot::handle_message: the logger, then the check of commands, then the routing.
\* (logger::handle never suspends and changes nothing the loop can see.)

IsCommand == cur.body.kind = "command" /\ cur.body.argv # <<>>

LevelOf(user) == UserLevel[user]

\* Why the command in hand is refused; {} when it is passed on.
Refusals ==
    IF ~IsCommand THEN {}
    ELSE IF Head(cur.body.argv) \notin DOMAIN commands THEN {"invalid command"}
    ELSE IF LevelOf(cur.body.user) < commands[Head(cur.body.argv)]
         THEN {"insufficient permissions"}
         ELSE {}

Refuse(content) ==
    /\ QueueMessage(Reply(Bot, content), RunLoop)
    /\ run' = "receive"
    /\ UNCHANGED <<cur, handlers, outbox, botVars, setup>>

RefuseCommand ==
    /\ run = "handle"
    /\ \/ \E content \in Refusals : Refuse(content)
       \/ SqlMayFail /\ IsCommand /\ Refuse("an error has ocurred, check logs")

\* What relay::handle does up to its first suspension when it is one of the
\* things started: the change of the table and the messages it has to queue.
\* A failed select ends the handler, a failed insert is answered.
Relayed(chats) ==
    {NewMessage(Relay, All, NoReply, OutgoingMessage(c, "relayed")) : c \in chats}

RelayIncoming ==
    /\ \/ outbox' = Relayed({c \in Chats : <<cur.body.chat, c>> \in mappings})
       \/ SqlMayFail /\ outbox' = {}
    /\ UNCHANGED mappings

\* A pair that is in the table already is passed over in silence.
RelayAddMapSilently(pair) ==
    IF pair \in mappings
    THEN outbox' = {} /\ UNCHANGED mappings
    ELSE mappings' = mappings \cup {pair} /\ outbox' = {Reply(Relay, "added a map")}

\* addmap with its two arguments: the pair is the primary key of the table.
RelayAddMap(pair) ==
    \/ /\ pair \notin mappings
       /\ mappings' = mappings \cup {pair}
       /\ outbox' = {Reply(Relay, "added a map")}
    \/ /\ SqlMayFail \/ pair \in mappings
       /\ outbox' = {Reply(Relay, "an error has ocurred, check logs")}
       /\ UNCHANGED mappings

RelayCommand ==
    IF Head(cur.body.argv) # AddMap
    THEN outbox' = {} /\ UNCHANGED mappings
    ELSE IF Len(cur.body.argv) # 3
    THEN outbox' = {Reply(Relay, "addmap requires 3 arguments")} /\ UNCHANGED mappings
    ELSE RelayAddMap(Tail(cur.body.argv))

RelayStarts ==
    IF cur.body.kind = "incoming_message" THEN RelayIncoming
    ELSE IF IsCommand THEN RelayCommand
    ELSE outbox' = {} /\ UNCHANGED mappings

\* The handlers of `targets` start and the loop waits for them.  The logger and
\* the dummy are done at once.
StartHandlers(targets) ==
    /\ handlers' = targets \ {Logger, Dummy}
    /\ IF Relay \in targets
       THEN RelayStarts
       ELSE outbox' = {} /\ UNCHANGED mappings
    /\ run' = "gather"
    /\ UNCHANGED <<chan, serial, cur, things, worker, commands, setup>>

\* The permission check is left out.
HandToThingsUnchecked ==
    /\ run = "handle"
    /\ \/ cur.to = All /\ StartHandlers(things)
       \/ cur.to \in things /\ StartHandlers({cur.to})

\* The result of the search for the addressee is not looked at.
HandToAnyone ==
    /\ run = "handle"
    /\ Refusals = {}
    /\ \/ cur.to = All /\ StartHandlers(things)
       \/ cur.to \in Things /\ StartHandlers({cur.to})

HandToThings ==
    /\ run = "handle"
    /\ Refusals = {}
    /\ \/ cur.to = All /\ StartHandlers(things)
       \/ cur.to \in things /\ StartHandlers({cur.to})

\* Addressed to a thing that is not registered: a warning in the log.
Undeliverable ==
    /\ run = "handle"
    /\ Refusals = {}
    /\ cur.to \notin things \cup {All, Bot}
    /\ run' = "receive"
    /\ UNCHANGED <<chan, serial, cur, handlers, outbox, botVars, setup>>

\* relay::handle queues its next message.
RelayQueues ==
    /\ ~Sending(chan, RelayHandler)
    /\ \E m \in outbox :
        /\ QueueMessage(m, RelayHandler)
        /\ outbox' = outbox \ {m}
    /\ UNCHANGED <<run, cur, handlers, botVars, setup>>

RelayHandled ==
    /\ Relay \in handlers
    /\ outbox = {}
    /\ ~Sending(chan, RelayHandler)
    /\ handlers' = handlers \ {Relay}
    /\ UNCHANGED <<chan, serial, run, cur, outbox, botVars, setup>>

\* A client's handler returns, with a result or an error.  The worker of a
\* quitter that was told to exit returns.
ClientHandled(c) ==
    /\ c \in handlers
    /\ handlers' = handlers \ {c}
    /\ worker' = IF cur.body = Exit /\ c \in Quitters /\ worker[c] = "running"
                 THEN [worker EXCEPT ![c] = "returned"]
                 ELSE worker
    /\ UNCHANGED <<chan, serial, run, cur, outbox, things, commands, mappings, setup>>

-----------------------------------------------------------------------------
\* bot::handle_message_internal, run once no handler is waited for.

\* The first declaration of a command counts, the others are an error.
Declare(command, level) ==
    /\ commands' = [c \in DOMAIN commands \cup {command} |->
                        IF c \in DOMAIN commands THEN commands[c] ELSE level]
    /\ UNCHANGED <<chan, serial, things, worker>>

CloseChannel ==
    /\ chan' = Close(chan)
    /\ UNCHANGED <<serial, things, worker, commands>>

\* What the worker of a new thing does up to its first suspension.
StartWorker(t) ==
    IF t = Relay
    THEN /\ QueueMessage(NewMessage(Relay, Bot, NoReply, CommandDecl(AddMap, Op)), Relay)
         /\ worker' = [worker EXCEPT ![t] = "declaring"]
    ELSE /\ worker' = [worker EXCEPT ![t] = IF t \in Clients THEN "running" ELSE "returned"]
         /\ UNCHANGED <<chan, serial>>

Register(t) ==
    IF t \in things
    THEN UNCHANGED <<chan, serial, things, worker, commands>>
    ELSE /\ things' = things \cup {t}
         /\ StartWorker(t)
         /\ UNCHANGED commands

HandleInternally ==
    CASE cur.body.kind = "command_decl" -> Declare(cur.body.command, cur.body.level)
      [] cur.body.kind = "exit"         -> CloseChannel
      [] cur.body.kind = "add_thing"    -> Register(cur.body.thing)
      [] OTHER -> UNCHANGED <<chan, serial, things, worker, commands>>

\* "handle the message internally last so that workers have a chance to quit"
FinishMessage ==
    /\ \/ run = "gather" /\ handlers = {}
       \/ run = "handle" /\ Refusals = {} /\ cur.to = Bot
    /\ IF cur.to \in {All, Bot}
       THEN HandleInternally
       ELSE UNCHANGED <<chan, serial, things, worker, commands>>
    /\ run' = "receive"
    /\ UNCHANGED <<cur, handlers, outbox, mappings, setup>>

-----------------------------------------------------------------------------
\* Workers and the set-up.

\* relay::worker: the declaration went through, or the channel is closed.
RelayDeclared ==
    /\ worker[Relay] = "declaring"
    /\ ~Sending(chan, Relay)
    /\ worker' = [worker EXCEPT ![Relay] = "returned"]
    /\ UNCHANGED <<chan, serial, loopVars, things, commands, mappings, setup>>

\* Something arrives on a client's connection.  Each arrival is queued by a
\* coroutine of its own (irc_client::message_handler), so a client can have
\* several sends suspended.
ClientQueues(c) ==
    /\ worker[c] = "running"
    /\ run # "done"
    /\ serial <= MaxSerial
    /\ \E body \in Traffic, to \in Addressees :
            QueueMessage(NewMessage(c, to, NoReply, body), c)
    /\ UNCHANGED <<loopVars, botVars, setup>>

\* main.cpp, setup_bot: the next add_thing.  Nobody joins this coroutine: it goes on
\* when run has returned, with a reference to a bot that is gone.  What it finds
\* there is the closed channel, which loses the message, or the program ends.
SetUpNext ==
    /\ setup < Len(SetupOrder)
    /\ ~Sending(chan, Setup)
    /\ QueueMessage(NewMessage("", Bot, NoReply, AddThing(SetupOrder[setup + 1])), Setup)
    /\ setup' = setup + 1
    /\ UNCHANGED <<loopVars, botVars>>

\* Nothing is left to do: no message, no arrival the bound allows, or the end.
Idle ==
    /\ \/ run = "done"
       \/ /\ run = "waiting" /\ chan.handed = <<>>
          /\ setup = Len(SetupOrder)
    /\ UNCHANGED vars

Loop ==
    \/ ReceiveMessage \/ WaitForMessage \/ ResumeWithMessage \/ LeaveLoop
    \/ RefuseCommand \/ HandToThings \/ Undeliverable \/ FinishMessage
    \/ JoinOneThing \/ ExitSuccessfully

Next ==
    \/ Loop
    \/ RelayQueues \/ RelayHandled \/ RelayDeclared
    \/ \E c \in Clients : ClientHandled(c) \/ ClientQueues(c)
    \/ SetUpNext
    \/ Idle

Spec == Init /\ [][Next]_vars

\* The scheduler of io_context runs every coroutine that is ready.  That a
\* client's handler returns is an assumption on the network: the code sets no
\* time limit to it.
Fairness ==
    /\ WF_vars(Loop)
    /\ WF_vars(RelayQueues) /\ WF_vars(RelayHandled) /\ WF_vars(RelayDeclared)
    /\ WF_vars(SetUpNext)
    /\ \A c \in Clients : WF_vars(ClientHandled(c))

FairSpec == Spec /\ Fairness

-----------------------------------------------------------------------------
MessagesOf(S) ==
    [serial : Nat, from : Things \cup {"", Bot}, to : Things \cup {All, Bot},
     re : Nat, body : S]

Contents ==
    {"relayed", "invalid command", "insufficient permissions", "added a map",
     "addmap requires 3 arguments", "an error has ocurred, check logs"}

Bodies ==
    {NoMessage.body, Exit} \cup Traffic
        \cup {AddThing(t) : t \in Things} \cup {CommandDecl(AddMap, Op)}
        \cup {OutgoingMessage(c, content) : c \in Chats, content \in Contents}

Message == MessagesOf(Bodies)

TypeOK ==
    /\ chan \in Channel(Message, Coroutines)
    /\ serial \in Nat
    /\ run \in {"receive", "waiting", "handle", "gather", "join", "done"}
    /\ cur \in Message
    /\ handlers \subseteq things
    /\ outbox \subseteq Message
    /\ things \subseteq Things
    /\ worker \in [Things -> {"absent", "declaring", "running", "returned", "joined"}]
    /\ DOMAIN commands \subseteq Words
    /\ \A c \in DOMAIN commands : commands[c] \in Int
    /\ mappings \subseteq Seq(Words)
    /\ setup \in 0..Len(SetupOrder)

-----------------------------------------------------------------------------
\* Safety.

Serials(messages) == [i \in 1..Len(messages) |-> messages[i].serial]

\* The serials of the messages accepted and not yet received, oldest first.
PendingSerials == Serials(Pending(chan))

Bus == INSTANCE MessageBus
       WITH queue <- PendingSerials, next <- serial, last <- cur.serial, open <- chan.open

\* Whatever the capacity and however the senders are blocked, the loop receives
\* the messages in the order queue_message numbered them, each once, and only
\* messages queued after an exit are lost (bot::queue_message, bot::run).
BusSpec == Bus!Spec

\* A coroutine is suspended in async_send only while the buffer is full, and the
\* loop in async_receive only while there is nothing to receive: nobody waits
\* for what is there (the hand-over of the channel to queue_message and run).
NobodyWaitsInVain ==
    /\ chan.senders # <<>> => Len(chan.buffer) = Capacity
    /\ chan.waiting => Pending(chan) = <<>> /\ chan.open
    /\ run = "waiting" => chan.waiting \/ chan.handed # <<>>

\* The table of mappings changes only while relay::handle serves an addmap that
\* an operator sent, and only by the pair it names; the check is made by
\* handle_message, in another component and several steps earlier.
OnlyOperatorsMap ==
    [][mappings' # mappings =>
         /\ IsCommand /\ Head(cur.body.argv) = AddMap
         /\ LevelOf(cur.body.user) >= Op
         /\ mappings' = mappings \cup {Tail(cur.body.argv)}]_vars

\* Nobody gets two answers to one message: of the replies queued, in hand or
\* still to be queued, no two answer the same one, and each answers a message
\* that was received before (queue_a_reply in handle_message and relay::handle).
RepliesInFlight == {Pending(chan)[i] : i \in 1..Len(Pending(chan))} \cup {cur} \cup outbox

OneReplyPerMessage ==
    \A m, n \in RepliesInFlight :
        m.re # NoReply => /\ m.re <= cur.serial
                          /\ m # n => m.re # n.re

\* run goes on to join the workers only when everything accepted before the exit
\* was handled, the sends suspended at that time included.
DrainedBeforeJoin ==
    run \in {"join", "done"} =>
        ~chan.open /\ Pending(chan) = <<>> /\ handlers = {} /\ outbox = {}

\* bot::run returns only when the worker of every registered thing has returned:
\* no worker outlives the bot it was given a reference to.
NoWorkerOutlivesBot ==
    run = "done" => \A t \in Things : worker[t] \in {"absent", "joined"}

-----------------------------------------------------------------------------
\* Liveness.

\* The loop, or the handler it waits for, waits for room in the queue that only
\* the loop empties (run self_deadlock shows how it comes about).
LoopBlocksItself == Sending(chan, RunLoop) \/ Sending(chan, RelayHandler)

\* Every message that is accepted is received some day, one of a sender that had
\* to wait for room included: nothing but the loop's waiting for itself can hold
\* it up (bot::queue_message, bot::run).
MessagesAreHandled ==
    \A n \in 1..(MaxSerial + 1) :
        (\E i \in 1..Len(PendingSerials) : PendingSerials[i] = n)
            ~> (cur.serial >= n \/ LoopBlocksItself)

\* Every thing of setup_bot gets registered, however full the queue is, unless an
\* exit comes first.
EveryThingIsAdded ==
    <>( \/ \A i \in 1..Len(SetupOrder) : SetupOrder[i] \in things
       \/ ~chan.open \/ LoopBlocksItself )

\* A command handled before an exit is answered, with what it did or why it was
\* refused, also when the exit is queued before the answer: the loop
\* is what closes the channel, so it cannot be closed under a handler's reply.
CommandsAreAnswered ==
    \A n \in 1..MaxSerial :
        (run = "handle" /\ IsCommand /\ chan.open /\ cur.serial = n)
            ~> (cur.re = n \/ LoopBlocksItself)

\* Once an exit was handled the loop ends: from then on no send suspends, so
\* nothing can hold the loop up (bot::run).
ExitEndsTheLoop == ~chan.open ~> run \in {"join", "done"}

\* When every client that is registered was told to exit before the channel was
\* closed, run joins all workers and returns.
ExitCompletes ==
    (run = "join" /\ \A c \in Clients : worker[c] # "running") ~> (run = "done")

\* What the code says of queue_message and of exit; see the README.

\* "meant to be called by "thing"s" (bot.hpp:111): a thing that calls
\* queue_message gets it back.
QueueMessageReturns ==
    \A c \in Coroutines : Sending(chan, c) ~> ~Sending(chan, c)

\* "so that workers have a chance to quit" (bot.cpp:200): after an exit the bot
\* "successfully exited".
ExitIsClean == ~chan.open ~> (run = "done")

=============================================================================
