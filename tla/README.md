# john_bot in TLA+

A TLA+ development of john_bot, a chat bot that joins IRC networks, Telegram and
TCP clients through one queue of messages. Paths below are those of the
repository (`src/bot.cpp`, `inc/bot.hpp`, `main.cpp`, ...).

## 1. The system

Everything runs on one thread (`io_context{1}`, `main.cpp:184`). All concurrency is
between coroutines, which interleave only where a `co_await` suspends. An action of
the models is what one coroutine does between two such points.

| component | state | operations | talks to |
|---|---|---|---|
| message queue (`bot::queue_message`, `m_message_channel`) | the channel (32 slots), suspended senders, `m_previous_serial` | `queue_message`, `queue_a_reply`, receive, close | everything queues, only `bot::run` receives |
| bot loop (`bot::run`, `handle_message`, `handle_message_internal`) | the message in hand, `m_things`, `m_declared_commands`, the completion channel | dispatch, permission check, `add_thing`, `command_decl`, `exit`, join | hands each message to `thing::handle` of all things or of one and waits for all of them |
| set-up (`main.cpp`) | how far it is | one `add_thing` after another, a second after the start | queues to the loop |
| relay (`src/things/relay.cpp`) | table `relay_mappings` | declares `addmap`; relays a message to the mapped chats; serves `addmap` | queues from inside its handler |
| logger, dummy | none | log, or nothing | - |
| command tokenizer (`src/argv.cpp`) | state of a table walk | `make_argv` | clients call it on the text of a command |
| IRC client (`src/irc/client.cpp`) | `m_state`, socket, 512-byte buffer, the coroutines suspended in a send | connect, register a nick, join, answer PING, report, send, exit | server and bot |
| IRC messages (`inc/irc/message.hpp`) | none | parse, encode | IRC client |
| Telegram client (`src/telegram/`) | next update id, two HTTP connections | short and long polls, report updates, send, start anew after an error | HTTP server and bot |
| identifiers (`inc/kv.hpp`) | none | serialize, deserialize, compare | clients make them, the tables hold their text, the relay reads it back |
| TCP thing (`src/things/tcp.cpp`) | list of clients with a bounded queue each | accept, hand every outgoing message to all clients, write it to their sockets | bot, terminal sinks |
| terminal sink (`terminal_sink.cpp`) | socket, event channel, lines shown | connect, read frames, try again, end at an interrupt | TCP thing |
| SQLite wrapper (`inc/sqlite`) | none of its own | query, exec | bot, relay, set-up |

What is hard: the queue is bounded and the only coroutine that empties it also
waits for handlers that fill it; an exit closes the queue under suspended senders
and then waits for workers; commands are checked in one component and take effect
in another; the IRC client runs several coroutines that change one state around
their sends; the tokenizer re-reads characters; a Telegram update is confirmed by the
offset of the next poll, which is forgotten at every error; IRC lines arrive in pieces;
the identifiers in an `addmap` are escaped twice; the TCP thing and its terminals are two
programs that frame messages by two calls on each side and come and go independently.

What makes each part correct:

* queue: numbers are received in order, nothing accepted is lost, nobody waits for
  what is there, a sender that waits gets on some day;
* loop: everything accepted before an exit is handled, one answer for a command,
  only permitted commands reach the relay, all workers are joined;
* tokenizer: it ends, always has a row to follow, quoting is undone exactly;
* IRC client: it registers a nick the server agrees with, stays inside its list of
  nicks, answers PINGs, and reports messages whatever its sends wait for;
* IRC messages: no line is too long, no text is lost when it is split, lines come out of
  the buffer whole and in order, what was written is read back;
* Telegram client: updates are reported once and in order, none between two polls is
  lost, what the short polls threw away stays away, and it gets going again after an error;
* identifiers: a mapping applies to the chat that was written and to no other;
* TCP thing and terminal: what a client's queue took is shown whole, in order and once; the
  terminal finds the bot whenever it comes up, and an interrupt ends it.

`PROJECT.json` lists the hazards at their lines and the properties that cover them.

## 2. The modules

**MessageBus** is the abstract queue: numbers are handed out one by one, accepted or
(once closed) lost, and received in order. It knows no capacity and no senders.

**MessageChannel** gives the channel as operators on a value, after the use that
`bot.cpp` makes of Boost's `concurrent_channel`: a send goes to a waiting receiver,
into the buffer, or suspends; a receive refills the freed slot from the oldest
suspended sender; a closed channel keeps what it has. A hand-over to a waiting
receiver occupies no slot, so there can be `Capacity + 1` messages ahead of a sender.
The library is not in the repository; these definitions are marked external.

**JohnBot** is the system around it.

| variable | code |
|---|---|
| `chan`, `serial` | `m_message_channel`, `m_previous_serial` |
| `run`, `cur`, `handlers` | where `bot::run` is, the message in hand, the handlers `handle_message` waits for |
| `outbox` | the messages `relay::handle` still has to queue |
| `things`, `worker` | `m_things`, and the worker of each thing up to its entry in the completion channel |
| `commands`, `mappings` | `m_declared_commands`, table `relay_mappings` |
| `setup` | how far `setup_bot` is |

`ReceiveMessage`, `WaitForMessage`, `ResumeWithMessage` and `LeaveLoop` are the loop of
`bot::run`; `JoinOneThing` and `ExitSuccessfully` its second half. `RefuseCommand`,
`HandToThings`, `Undeliverable` and `FinishMessage` are `handle_message` from the check of
a command to `handle_message_internal`, with every return in between. `RelayQueues`,
`RelayHandled`, `RelayDeclared`, `ClientHandled` and `ClientQueues` are what things do
while the loop goes on or waits; `SetUpNext` is `setup_bot`, whose coroutine is detached and
may go on after `run` has returned, with a reference to a bot that is gone. The check of a
command and the change of the table by the relay are one action (`HandToThings`): the code
may suspend between them, but nothing that happens then changes the decision. Clients are reduced to what
the loop sees of them: they queue payloads at any time, their handler may take
arbitrarily long, and a `Quitter` returns from its worker after an exit (none of the
repository's clients does; the runs that need it say so).

**IrcClient** is `irc_client` with the server it depends on. The suspended coroutines
form the queue `sends`, because the sends of one socket complete in the order they
were started; the completion of a send is queued ahead of anything the server
answers to it. The server may close the connection, or keep it open and read no more
(`ServerStalls`): a send to it may never complete, and there is no timeout. `state` is `m_state`, `worker` the place of `run_inner`, `latest` the
message parsed last. Three reads of the code are undefined and are choices:

* after a PONG `message_handler` looks at a message of `run_inner` that may be
  overwritten: it sees nothing, or the message parsed last (`AfterPong`);
* `m_nicks[n]` outside the list ends the program or sends garbage;
* `m_nick_try` is read after a send, when another coroutine may have replaced the
  state: any value (`AfterPass`).

Left out: `send_message` is one send, though it makes one for every line of the encoding
(none for an empty text, `inc/irc/message.hpp:188`; IrcMessage has the lines); a PRIVMSG with
other than one parameter, which is dropped (`src/irc/client.cpp:126`); and a command that
`make_argv` cannot read, which ends the program (line 162; `AlwaysReturns` of Argv says
which). The users of the model write neither.

The socket is never closed and a socket that was connected is not connected again,
so a client that lost its connection keeps trying in vain, although it logs
"retrying" (`src/irc/client.cpp:54`); `Connect` needs a new socket.

**IrcMessage** is the text those messages have on the wire, which IrcClient leaves out.
`EncodeLine` is an iteration of `message::encode`, `SendLines` is `send_message`, `Read` and
`TakeLine` are `run_inner` with `m_incoming_buffer`, and `FromChars` is
`message_view::from_chars` with its four parts. A behaviour encodes one message and reads
its lines again, in pieces of any size, or reads one line of a server. Sizes are
counted modulo `SizeMax`, so a header longer than a line wraps around as in the code.
`Characters` are what texts are made of; `ReadInOrder` asks that no linefeed is in the parts
of a message other than its text (`OneLine`), for encode writes those as they are. The
server's lines include empty ones, which `from_chars` refuses, a prefix without a command,
which makes it throw, and a parameter with a colon, which it takes to begin the text
(`inc/irc/message.hpp:123`); `MessagesAreRead` asks that no part holds what ends it
(`Readable`), and says what is read of every such message.

**TelegramClient** is `telegram::client` with the server it polls.

| variable | code |
|---|---|
| `worker` | where `worker` and `worker_inner` are |
| `asked`, `highest`, `batch` | a `get_updates` under way, `highest_id`, the rest of `poll_result` |
| `updates`, `messages`, `sending` | the two connections, and a `send_message` under way |
| `pending`, `allowed`, `kinds` | the server: unconfirmed updates, the kinds asked for, what each update is |
| `toBot`, `discarded` | what was queued to the bot, and what short polls returned |

Of an update only its kind matters: a message, one without a sender, one whose command
`make_argv` cannot read (it ends the program), an edited message, or another type, which
`detail::reader` cannot read. `queue_message` may wait for room in the bot's queue; handling
an update takes place when it has found some (`Report`). `build` fixes the outcome of what the
language leaves undefined: the sender of a message without one, and a connect with a
send under way. A stream is never closed, so each connection comes up at most once
(`Connects`); after it was lost, every poll fails and the worker starts anew every five
seconds.

**Argv** is `make_argv`: the table row by row, one action per character, the call
after the last character, and the call of `std::terminate` when no row is found.
The characters are those the table tells apart, and letters. Two definitions say what it
should return: how a list of arguments is written in quotes (`CommandLine`) and the words of
a string of letters and blanks (`Split`).

**MiniKv** is `mini_kv` as operators on lists of pairs: access, `operator==` (which asks
nothing of the pairs only the right side has), `serialize` with `escaped_copy`, and
`deserialize` with the two scans it makes: `chunk_by` for semicolons, which looks at the
character before, and the loop for the colon, which counts backslashes. **AddMap** puts it
behind `make_argv`: an `addmap` a user writes goes through the quotes of the command, the
text in the table, the comparison with the text of a sender's chat, and `deserialize` in
`relay::handle`. Its identifiers are those clients make of a chat: the client under `ident`,
the chat under a second key (`ChatIdentifier`); the names of chats are what others choose.

**TcpThing** is `tcp_thing`, **TerminalSink** the program at the other end, composed with it.

| variable | code |
|---|---|
| `stage`, `hand`, `queue` | where `client_worker` of a connection is, its `res`, its `m_chan` |
| `wire`, `gone`, `cut` | what was written and not read, connections whose reader has closed, connections on which a call moved less than asked |
| `accepted`, `handed` | what `try_send` took for a connection, and what `handle` was given |
| `up`, `starts` | whether the bot runs, and how often it was started |
| `where`, `sock`, `conn`, `size` | where `tcp_worker` is, `m_sock`, the latest connection, the size in the last header |
| `isOpen`, `lines` | `m_ch.is_open()`, the contents shown since the latest connection |

`Handle` is one action because it suspends nowhere; a client whose coroutine waits gets
the message at once, without a slot of its queue. `Send` writes as much as there is room
for; when the system has heard that the other end is closed, the send throws and the
coroutine ends unseen (`SendFails`), and a client whose other end is closed before it is
accepted is never registered (`AcceptTooLate`). `Receive` takes any part of what has
arrived. Once a call has moved less than was asked (`cut`), the size in a header is that of
any message. Bot and terminal start in any order, the bot may end at any moment and start
again, and interrupts come at any moment.

**MCJohnBot**, **MCIrcClient**, **MCIrcMessage**, **MCTelegramClient**, **MCArgv** and
**MCTerminalSink** hold the constants of the runs.
**\*_proofs** hold the theorems, **SequenceFacts_proofs** the lemmas about sequences they share.

A definition that comes before another with the same parameters and is said to do
something wrong (`QueueStaleSerial`, `JoinFromPastEnd`, ...) is a variant with a plausible
mistake, never used by a specification: with it in place of the right one the
property it is listed with in `PROJECT.json` is violated.

## 3. The runs

| run | question | bounds |
|---|---|---|
| core | Do loop, things, commands and exits keep the safety properties and implement MessageBus? | 2 clients (one added), relay, logger; 2 slots; 7 kinds of traffic, broadcast or to a thing that is not there; serials up to 5 from clients; queries may fail |
| progress | Is every accepted message received, every thing added, every command answered? Does an exit end the loop and, if the clients quit, the bot? | 2 clients, a mapping, 2 slots, serials up to 5 |
| self_deadlock | Does a handler get `queue_message` back? (violated) | one mapping, 2 slots |
| unclean_exit | Does an exit end the bot with the clients there are? (violated) | 4 slots |
| argv | Is every string split as meant, and does a mapping apply to the chats it was written with? | all strings up to 4 characters over 7 classes, up to 3 with a NUL, all lists of up to two quoted arguments of 2 characters, all mappings between a chat and one of 84 whose names hold separators and backslashes |
| irc | Does a client register, answer, report and agree with its server? | 4 nicks, the first in use, password, 1 channel, 2 PINGs, 1 chat message, 1 server that stops reading, 1 lost connection, 1 outgoing message, 1 exit |
| irc_nicks | Does the client give up when all nicks are refused? (violated) | 2 nicks |
| irc_message | Are messages split, framed and read as they should be? | lines of 16; every text up to 5 over letters, blank, colon, linefeed; headers that leave room for three characters, for none, and that are too long |
| irc_text | Is the text of a message read as its text? (violated) | texts of up to 2 |
| telegram | Are updates reported in order, once, none lost and none brought back? | 3 updates of 5 kinds, replies of 2, 1 failure, 1 message of the bot |
| telegram_recovery | Does the client get back to its long polls after an error? (violated) | 2 updates, no failure |
| terminal | Does a terminal connect, show what its client's queue took, and end at an interrupt? | queues of 1, headers of 2 bytes, contents of 2, 0 and 1 bytes, 3 bytes on the wire, 2 connections, 1 restart of the bot |

The bounds suffice for the cases that matter: with two slots the buffer is
full, a sender waits and a hand-over is under way at once, also while the exit is
handled; five serials are enough for set-up, declaration, a command, its refusal or
answer and an exit in any order (declared before or after the command comes). One
PING more than one would allow a single skipped nick; two show that each costs at
most one. Capacity 32 adds longer queues and no new kind of state. Three updates in
replies of two make a reply that leaves something behind, one that arrives while another is
handled, and one that comes back after an error. Lines of sixteen with room for three
characters split a text of five at linefeeds and at the end of a line, in every mixture.
A wire of three bytes takes a header and a part of a content, so that sends are cut short
and receives return parts; queues of one are full while a message is in hand and another
is dropped. Two connections are all one terminal can have: a socket that was connected is
connected again only after an interrupt closed it. Chats with names of up to two
characters hold each pair of separator and backslash in either order.

`CHECK_DEADLOCK FALSE` stands where the program may stop: the loop waiting for
itself in the JohnBot runs, a crash in IrcClient and TelegramClient, the return of
`make_argv`, the last line read in IrcMessage, the end of bot and terminal.

*Bounds in the guards*: `MaxSerial` (clients queue nothing beyond it; the loop, the relay
and the set-up are not bound), `MaxPings`, `MaxChats`, `MaxStalls`, `MaxCloses`,
`MaxOutgoing`, `MaxExits` (how often the surroundings act), two nick attempts past the end of the list,
`MaxUpdates`, `MaxFailures` and `MaxSends` in TelegramClient, `MaxLines` in IrcMessage
(reached only by the endless loop of a header without room), and `MaxStarts` and the length
of `Contents` in TcpThing.

*Fairness*: weak fairness of every coroutine, because the scheduler runs whatever is
ready. `ClientHandled` is weakly fair by assumption: handlers have no time limit in the
code, and a peer that keeps its connection open and reads no more holds `handle`, and with it
the loop, for ever (`src/irc/client.cpp:266` and 283, `src/bot.cpp:198`). The liveness of the
bot is about handlers that return. `ClientQueues` is not fair. In IrcClient a send completes
while the server reads and fails once the connection is gone; to a server that stalls it may
complete or not (`~Stalled` in the fairness of `SendCompletes`). `MessagesReported` needs no
exception for that server, `Registers` and `PingsAnswered` do. Connecting is strongly fair:
the server can be reached again and again by a client that keeps trying; PINGs, the stall, chat, the end of a connection and the bot's messages
are not fair. In TelegramClient the worker is weakly fair, which includes that the server
answers a poll in the end (a long poll after ten minutes); failures and updates are not
fair. The short polls end only with an empty reply or an error: with a supply of updates that
never pauses the worker stays there, and `MaxUpdates` cuts that away, so no property says that
they end. In TerminalSink the coroutines of both programs are weakly fair, timers included; the
bot's end and start, its messages and the interrupts are not. `Connects` therefore asks only
for a bot that stays up. make_argv is a plain call and needs none.

What the violated runs show (see `findings`): the bot can stop for good when its
queue is full, an exit never ends with the clients there are, a client without a free nick reads past its list, one Telegram
update of an unknown type keeps that client from its long polls for ever, and the text of an
IRC message is sent without the colon that makes it one parameter. Liveness properties of
the passing runs name the first of these as an exception (`LoopBlocksItself`).

More that the models say of the code, without a run of their own. An argument that begins
with an apostrophe, as in `!j 'a'`, leads to a state without rows and ends the program
(`src/argv.cpp:44` and 88); `AlwaysReturns` is about strings without one. `encode` adds one to
its index whenever a linefeed follows anywhere in the text, so a text in which a line too
long for one message is followed by another loses a character at each cut
(`inc/irc/message.hpp:192`); `TextIsKept` leaves such texts out (`LongLineBeforeLinefeed`).
Messages that arrive while the Telegram worker sleeps after an error are discarded by the
short polls that follow; `UpdatesAreReported` ends with the long polling for that reason.

Of the identifiers: `deserialize` leaves the escapes in, so the relay sends to a chat with a
colon, semicolon or backslash in its name under the escaped name (`TargetOf`); a semicolon
behind an escaped backslash is never taken for a separator (`inc/kv.hpp:174`); and
`serialize` of an identifier without pairs takes one from a size of zero (line 242), which
no client of the repository asks for.

Of the terminal: a send or receive that moves less than asked shifts the frames for the rest
of the connection, which `ShownInOrder` leaves out; a client that is gone keeps its place in
`m_clients` (`Clients`): its coroutine ends with an exception that nobody sees, and its queue
fills up and stays full; a terminal that lost its connection tries to connect a socket that is connected, every three
seconds, until an interrupt; an interrupt during that wait opens the socket anew and the
terminal goes on, without the handler of the signal, so a second one ends the program
without restoring the screen (`InterruptEnds` leaves the wait out).

## 4. The proofs

For every value of the constants that satisfies the named assumptions:

* `BusOrder` (MessageBus_proofs): the abstract queue is in order and loses nothing.
* `TypeCorrect`, `NobodyWaits`, `DrainedFirst`, `OperatorsOnly`, `ImplementsBus`
  (JohnBot_proofs). The inductive invariant is the type invariant with the state of the
  channel (a suspended sender means a full buffer, a waiting receiver means an empty
  one, a hand-over only while the loop waits) and the state of the loop (what it can be
  waiting for in each place). The properties alone are not inductive: that nothing is
  pending when the loop leaves needs, besides the empty buffer, that no sender is
  suspended beside it and that no hand-over is under way. Preservation is shown action by
  action; before that, each operator of MessageChannel is shown to keep the channel typed
  and ordered and to change `Pending` as the abstract queue does. `ImplementsBus` maps
  every step to a step of MessageBus or a stutter.
* `WorkersJoined` (JohnBot_proofs): no worker outlives the bot. The bot counts the joined
  workers, so the invariant says besides that the things are finitely many and that
  only registered things have a worker: then as many joined as registered means all.
* `OneReply` (JohnBot_proofs): nobody gets two answers to one message. Each reply in flight
  answers a message received before, no two in the queue and in hand the same one, the
  message in hand is not yet answered while the loop decides about it, and the reply the
  relay still has to queue is the only one to it. That the number of a message in the
  queue is above all that were received comes from `ImplementsBus` and the order proved
  of MessageBus: the proof uses the abstract queue instead of the channel.
* `ArgvTypes`, `ArgvNothingLeftOver`, `ArgvReturns`, `ArgvSeenAtMostTwice` (Argv_proofs),
  for strings of any length; that the token is empty between two arguments is stated by
  its theorem alone.
* `ArgvSplitsAsMeant` (Argv_proofs): `make_argv` returns what both reference definitions say,
  for every list of arguments and every string of letters and blanks. The invariants say
  where the walk stands. In a plain string the arguments so far are the words up to here
  (`Between`), or up to the start of the word whose beginning is the token (`InWord`). In a
  command line the arguments so far are the first n, and what is left of the string is one of
  four things: from before the quotes of the next argument on, from its (m+1)-th character
  on, from the character behind a backslash on, or from behind the quotes on (`Standing`);
  the token is the first m characters of that argument. So the row for the next character is
  known, and the call can return only when no argument is left.
* `MappingsReach` (Argv_proofs), for any clients, keys without separators and names of chats
  of any characters but NUL. The texts of the identifiers come out of `make_argv` by the
  invariant for command lines. A text is the two pairs with a semicolon between them
  (`SerializeChat`); in it that semicolon alone is not behind a backslash (`Guarded`,
  `EscapedGuarded`), so `chunk_by` cuts there and nowhere else (`TwoChunks`), and a key ends at
  its first colon (`SplitText`). So `deserialize` returns the client, the key and the escaped
  name (`DeserializeChat`). Escaping takes different names to different texts
  (`EscapedSame`), so two chats with one text are one chat (`SameText`).
* `ClientTypes`, `UpdatesInOrder`, `NoUpdateLost`, `NoDiscardedReported`
  (TelegramClient_proofs), for any number of updates, errors and messages and any size of a
  reply. None of the properties is inductive: an
  error forgets the offset, and the server then gives again what was reported. The
  invariant says where the offset can be relied on: during the long polls and while a
  batch is handled everything behind it is later than all that was reported, and from the
  start of the short polls on everything up to it is reported, in the batch, discarded or an edit
  (`OrderInv`, `ConfirmedInv`). The short polls end with an empty reply: then nothing that was
  reported is pending any more, and the long polls may start. Nothing that was discarded is pending behind
  the offset or in the batch (`DiscardedInv`), which makes the last of them.
* `ClientTyped`, `NicksAgree`, `NoNickOutOfRange` (IrcClient_proofs), for any number of nicks,
  channels, PINGs, stalls, lost connections and exits. A nick is on its way as a suspended send, at the
  server, or as the server's answer, and `NickInv` says what may be under way at once: either one
  registration in one place (`Single`), or, when the handler of a PING has skipped a nick,
  several whose nicks are all free (`Clear`, `GoodNicks`), in increasing order (`InOrder`), of
  which the last is the one in the state (`Arrives`). For the range, `RangeInv` counts the
  PINGs under way: each may skip one nick, and together with the nicks skipped they are no
  more than the PINGs the server sent.
* `TerminalTypes`, `ShownAsTaken` (TerminalSink_proofs), for any number of connections and
  restarts and any size of contents, header, queue and wire. The invariant follows the bytes:
  what a client's queue took is what was sent, the message in hand and the queue, unless
  its coroutine has failed, and that only happens on a connection whose other end is closed
  (`QueueInv`); there are places in the stream where the frames start, and the wire holds
  exactly the bytes between what `tcp_worker` has read and `client_worker` has written
  (`StreamInv`); so the size that is read is the size of the next message and the content
  that is read is its content (`ShownInv`).

* `MessageTypes`, `NoLineTooLong`, `EncodeAdvances`, `NothingElseLost`, `LinesReadInOrder`,
  `MessagesRead` (IrcMessage_proofs), for any characters, messages, size of a line and way the lines arrive.
  These are about what functions on sequences compute, as is `ArgvSplitsAsMeant`. The facts
  they share are in SequenceFacts_proofs (`FlattenSeq` of one, of none, with one more at either end,
  `Min`, parts of sequences); those about `Before` and `Drop` come first in the module. Their
  inductions run over a set of numbers (`SetInduction`, from the least
  number that is not in it), because an induction rule with a predicate as parameter
  cannot be used by the provers. A line is a header, a blank, a part of the text and CR LF
  (`EncodeFacts`), so its length is known; the index grows with every line because a part
  is empty only before a linefeed (`AdvanceInv`); the parts together are what is kept of
  the text up to the index, or encode has stepped over a character in the middle of a
  stretch too long for a line (`KeptInv`, `LineKept`). For the reader, a line has its only
  linefeed at its end (`IsLine`), so the first line end in the buffer is that of the first line
  not yet taken (`FirstLine`), and buffer and wire together are the rest of the lines
  (`ReadInv`). What `from_chars` makes of a line follows the line from its front: a part that
  holds nothing of what ends it is cut where it was joined (`PrefixParts`, `LineRead`), the
  parameters are words with blanks between them (`WordsOfParams`), and what is behind the
  first colon is the text (`TailRead`). `LinesInv` says of every line written or received that
  it is made of the parts of the message.

The proofs of the IRC client have found a limit of the code that no run had met. With two
nicks in use the handler of a PING can take the refusal of one for its own message and start
a second registration beside the first; when both are refused, the client goes on to another
nick although the server has welcomed it with the one before. It then takes the wrong name
for its own, or, at the end of its list, reads past it. TLC shows it with nicks 0 and 2 in use
and one PING. `NickAgrees` and `StaysInRange` therefore ask that two refusals cannot meet
(`RefusalsApart`: no PING, or at most one nick in use).

Only model-checked: all liveness (fairness and ENABLED are beyond the prover). Every invariant of
the passing runs is the property of a theorem, and so are the action properties, among them that
JohnBot implements MessageBus (as `BusSpec`).

## 5. Not modelled, and the plan

Not modelled, and why:

* display names (`bot::display_name`), all formatting and logging, the drawing of the
  terminal and its resize events, which are received and dropped
  (`terminal_sink.cpp:240-249`): no state of the program depends on them;
* the SQLite wrapper beyond "a query may fail" and the primary key: it is glue around a
  library. It leaves a statement unfinalized when a row or a step fails
  (`inc/sqlite/detail/query.hpp:107`), which keeps the database from being closed and
  changes no table;
* the JSON readers beyond "can be read or not", TLS and HTTP, which are the library's;
* the generated reply tables, error types, the adaptor of asio and the build files, which
  have no behaviour of their own.

In IrcClient a read yields whole messages; IrcMessage shows that it may. In JohnBot the
handler of the TCP thing is that of a client that answers at once.

Next, in this order:

1. JohnBot with an IrcClient in place of one abstract client.
2. IrcClient with the lines of IrcMessage on its wire, in place of whole messages.
