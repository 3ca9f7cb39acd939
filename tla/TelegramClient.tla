---------------------------- MODULE TelegramClient ----------------------------
(***************************************************************************)
(* telegram::client: the worker that polls a Telegram server for updates   *)
(* and reports them to the bot, and the sending of messages.               *)
(*                                                                         *)
(* A worker first discards what has piled up (short polls, until one comes *)
(* back empty) and then reports what comes (long polls).  Every poll names *)
(* an offset, and the server forgets the updates before it.  An error of   *)
(* any kind ends worker_inner; five seconds later it starts anew, from     *)
(* offset one.                                                             *)
(*                                                                         *)
(* The server is modelled as far as the client depends on it: it keeps the *)
(* updates until they are confirmed by an offset, and keeps only updates   *)
(* of the kinds the last poll asked for.                                   *)
(***************************************************************************)
EXTENDS Integers, Sequences, SequencesExt

CONSTANTS
    Kinds,          \* the kinds of updates people cause
    Limit,          \* updates in a reply (100 in api.cpp)
    Builds,         \* what the build makes of undefined behaviour, see below
    MaxUpdates,     \* there are at most so many updates,
    MaxFailures,    \*   failures of a connection or a request,
    MaxSends        \*   and messages of the bot

\* message   with a sender, a chat and a text
\* unsigned  a message without a sender
\* fatal     a command that make_argv cannot read (Argv, Terminate)
\* edited    an edited_message
\* other     an update of another type, which reader<types::update> refuses
ASSUME KindsAssumption == 
    Kinds \subseteq {"message", "unsigned", "fatal", "edited", "other"}
ASSUME LimitAssumption == Limit \in Nat \ {0}
ASSUME BoundsAssumption == {MaxUpdates, MaxFailures, MaxSends} \subseteq Nat

\* asserts  TRUE when a connect on a stream with an operation under way ends the
\*          program (an assertion in Beast)
\* optional what becomes of reading the sender of an unsigned message
ASSUME BuildsAssumption ==
    Builds \subseteq [asserts : BOOLEAN, optional : {"crash", "garbage"}]

VARIABLES
    build,      \* the build that runs
    worker,     \* where worker and worker_inner are
    asked,      \* get_updates waits for its response
    highest,    \* highest_id
    batch,      \* poll_result: the updates still to be handled
    updates,    \* m_update_connection: not connected, connected, or lost
    messages,   \* m_connection, likewise
    sending,    \* handle() waits for a response
    pending,    \* the ids of the updates the server keeps
    allowed,    \* the kinds of updates the last poll asked for
    kinds,      \* the kind of each update there was; its index is the id
    discarded,  \* the updates short polls returned
    toBot,      \* the updates reported by bot::queue_message
    done        \* how many failures and messages of the bot there were

vars == <<build, worker, asked, highest, batch, updates, messages, sending,
          pending, allowed, kinds, discarded, toBot, done>>

serverVars == <<pending, allowed, kinds>>
sendVars   == <<messages, sending>>

Init ==
    /\ build \in Builds
    /\ worker = "connecting"
    /\ asked = FALSE
    /\ highest = 0
    /\ batch = <<>>
    /\ updates = "new" /\ messages = "new"
    /\ sending = FALSE
    /\ pending = <<>> /\ allowed = "all" /\ kinds = <<>>
    /\ discarded = {}
    /\ toBot = <<>>
    /\ done = [failures |-> 0, sends |-> 0]

Fail ==
    /\ done.failures < MaxFailures
    /\ done' = [done EXCEPT !.failures = @ + 1]

-----------------------------------------------------------------------------
\* connection::init_or_reinit.  Its errors are logged and passed over.  A stream is
\* never closed, and one that was connected, or lost since, cannot be connected
\* again, so a connection gets one chance to come up: a handshake that fails leaves
\* it lost, a connect that fails leaves it new.

Connects(before, after) ==
    \/ before = "new" /\ after = "up" /\ UNCHANGED done
    \/ before = "new" /\ after \in {"new", "lost"} /\ Fail
    \/ before # "new" /\ after = before /\ UNCHANGED done

InitConnection ==
    /\ worker = "connecting"
    /\ \/ /\ Connects(messages, messages')
          /\ worker' = "connecting_updates"
       \/ /\ sending /\ build.asserts
          /\ worker' = "crashed"
          /\ UNCHANGED <<messages, done>>
    /\ UNCHANGED <<build, asked, highest, batch, updates, sending, serverVars,
                   discarded, toBot>>

InitUpdateConnection ==
    /\ worker = "connecting_updates"
    /\ Connects(updates, updates')
    /\ worker' = "short"
    /\ highest' = 0
    /\ UNCHANGED <<build, asked, batch, sendVars, serverVars, discarded, toBot>>

-----------------------------------------------------------------------------
\* api::get_updates, up to the wait for the response.

Polling == worker \in {"short", "long"}

\* The server forgets what the offset leaves behind: what it keeps is in order.
Confirm(offset) ==
    \E n \in 0..Len(pending) :
        /\ \A i \in DOMAIN pending : pending[i] < offset <=> i <= n
        /\ pending' = SubSeq(pending, n + 1, Len(pending))

\* The offset skips the update after the highest.
PollTooFar ==
    /\ Polling /\ ~asked
    /\ updates = "up"
    /\ asked' = TRUE
    /\ allowed' = IF worker = "short" THEN "all" ELSE "messages"
    /\ Confirm(highest + 2)
    /\ UNCHANGED <<build, worker, highest, batch, updates, sendVars, kinds,
                   discarded, toBot, done>>

Poll ==
    /\ Polling /\ ~asked
    /\ updates = "up"
    /\ asked' = TRUE
    /\ allowed' = IF worker = "short" THEN "all" ELSE "messages"
    /\ Confirm(highest + 1)
    /\ UNCHANGED <<build, worker, highest, batch, updates, sendVars, kinds,
                   discarded, toBot, done>>

\* worker_inner ends with an error.
EndWithError ==
    /\ worker' = "sleeping"
    /\ asked' = FALSE
    /\ UNCHANGED <<build, highest, batch, sendVars, serverVars, discarded, toBot>>

PollOnLostConnection ==
    /\ Polling /\ ~asked
    /\ updates # "up"
    /\ EndWithError
    /\ UNCHANGED <<updates, done>>

\* The connection ends, before or after the server has read the request, or the
\* server answers with an error.
PollFails ==
    /\ \/ asked
       \/ Polling /\ updates = "up"
    /\ Fail
    /\ updates' \in {"up", "lost"}
    /\ EndWithError

-----------------------------------------------------------------------------
\* The response, and what worker_inner makes of it.

Reply == SubSeq(pending, 1, IF Len(pending) < Limit THEN Len(pending) ELSE Limit)

\* One update that cannot be read makes the whole reply an error.
Readable == \A i \in 1..Len(Reply) : kinds[Reply[i]] # "other"

ReplyIsRefused ==
    /\ asked
    /\ ~Readable
    /\ EndWithError
    /\ UNCHANGED <<updates, done>>

Received ==
    /\ asked /\ Readable
    /\ asked' = FALSE
    /\ UNCHANGED <<build, updates, sendVars, serverVars, done>>

\* The updates that were waiting are reported like the others.
ReportBacklog ==
    /\ worker = "short"
    /\ Received
    /\ IF Reply = <<>>
       THEN worker' = "long" /\ UNCHANGED <<highest, batch>>
       ELSE highest' = Last(Reply) /\ batch' = Reply /\ worker' = "handling"
    /\ UNCHANGED <<discarded, toBot>>

\* One short poll is taken for all of them, and its offset is forgotten.
DiscardFirstReply ==
    /\ worker = "short"
    /\ Received
    /\ worker' = "long"
    /\ discarded' = discarded \cup ToSet(Reply)
    /\ UNCHANGED <<highest, batch, toBot>>

\* "short polling 'til we get 0 updates"
DiscardBacklog ==
    /\ worker = "short"
    /\ Received
    /\ IF Reply = <<>>
       THEN worker' = "long" /\ UNCHANGED highest
       ELSE highest' = Last(Reply) /\ UNCHANGED worker
    /\ discarded' = discarded \cup ToSet(Reply)
    /\ UNCHANGED <<batch, toBot>>

\* An empty update ends the worker.
TakeUpdatesUntilEmpty ==
    /\ worker = "long"
    /\ Received
    /\ IF Reply = <<>>
       THEN worker' = "returned" /\ UNCHANGED <<highest, batch>>
       ELSE highest' = Last(Reply) /\ batch' = Reply /\ worker' = "handling"
    /\ UNCHANGED <<discarded, toBot>>

\* A long poll comes back with updates, or empty after ten minutes.
TakeUpdates ==
    /\ worker = "long"
    /\ Received
    /\ IF Reply = <<>>
       THEN UNCHANGED <<worker, highest, batch>>
       ELSE highest' = Last(Reply) /\ batch' = Reply /\ worker' = "handling"
    /\ UNCHANGED <<discarded, toBot>>

\* handle_update, and queue_message in it: messages are reported, edited ones are
\* not handled.  queue_message may wait for room; then the update is handled when it
\* gets some, for nothing else is handled meanwhile.
Report(id) ==
    IF kinds[id] \in {"message", "unsigned"}
    THEN toBot' = Append(toBot, id) ELSE UNCHANGED toBot

\* The first update of a reply is taken for the only one.
HandleFirstUpdate ==
    /\ worker = "handling"
    /\ Report(Head(batch))
    /\ batch' = <<>>
    /\ worker' = "long"
    /\ UNCHANGED <<build, asked, highest, updates, sendVars, serverVars, discarded, done>>

\* The program ends in make_argv, or may end where the sender is read.
EndsProgram(id) ==
    kinds[id] = "fatal" \/ (kinds[id] = "unsigned" /\ build.optional = "crash")

HandleUpdate ==
    /\ worker = "handling"
    /\ \/ /\ kinds[Head(batch)] # "fatal"
          /\ Report(Head(batch))
          /\ batch' = Tail(batch)
          /\ worker' = IF Tail(batch) = <<>> THEN "long" ELSE worker
       \/ /\ EndsProgram(Head(batch))
          /\ worker' = "crashed"
          /\ UNCHANGED <<batch, toBot>>
    /\ UNCHANGED <<build, asked, highest, updates, sendVars, serverVars, discarded, done>>

\* client::worker: "reconnecting in 5 seconds"
Reconnect ==
    /\ worker = "sleeping"
    /\ worker' = "connecting"
    /\ UNCHANGED <<build, asked, highest, batch, updates, sendVars, serverVars,
                   discarded, toBot, done>>

-----------------------------------------------------------------------------
\* client::handle with an outgoing_message for this client: the request, and the
\* response or an error.  The bot hands out the next message only after that.

HandleOutgoing ==
    /\ ~sending
    /\ done.sends < MaxSends
    /\ done' = [done EXCEPT !.sends = @ + 1]
    /\ sending' = (messages = "up")
    /\ UNCHANGED <<build, worker, asked, highest, batch, updates, messages,
                   serverVars, discarded, toBot>>

SendReturns ==
    /\ sending
    /\ sending' = FALSE
    /\ \/ UNCHANGED <<messages, done>>
       \/ messages' = "lost" /\ Fail
    /\ UNCHANGED <<build, worker, asked, highest, batch, updates, serverVars,
                   discarded, toBot>>

\* Something happens on Telegram; the server keeps it when it is of a kind the
\* last poll asked for.
SomethingHappens ==
    /\ Len(kinds) < MaxUpdates
    /\ \E kind \in Kinds :
        /\ kind = "other" => allowed = "all"
        /\ kinds' = Append(kinds, kind)
    /\ pending' = Append(pending, Len(kinds'))
    /\ UNCHANGED <<build, worker, asked, highest, batch, updates, sendVars, allowed,
                   discarded, toBot, done>>

-----------------------------------------------------------------------------
Worker ==
    \/ InitConnection \/ InitUpdateConnection
    \/ Poll \/ PollOnLostConnection \/ ReplyIsRefused
    \/ DiscardBacklog \/ TakeUpdates \/ HandleUpdate \/ Reconnect

Next ==
    /\ worker # "crashed"
    /\ Worker \/ PollFails \/ HandleOutgoing \/ SendReturns \/ SomethingHappens

Spec == Init /\ [][Next]_vars

\* The scheduler runs the worker whenever it is ready, and the server answers or
\* drops the connection.
Fairness ==
    WF_vars(worker # "crashed" /\ Worker) /\ WF_vars(worker # "crashed" /\ SendReturns)

FairSpec == Spec /\ Fairness

-----------------------------------------------------------------------------
Connections == {"new", "up", "lost"}

TypeOK ==
    /\ build \in Builds
    /\ worker \in {"connecting", "connecting_updates", "short", "long", "handling",
                   "sleeping", "crashed"}
    /\ asked \in BOOLEAN /\ sending \in BOOLEAN
    /\ kinds \in Seq(Kinds) /\ Len(kinds) <= MaxUpdates
    /\ highest \in 0..Len(kinds)
    /\ {batch, pending, toBot} \subseteq Seq(DOMAIN kinds)
    /\ updates \in Connections /\ messages \in Connections
    /\ allowed \in {"all", "messages"}
    /\ discarded \subseteq DOMAIN kinds
    /\ done \in [failures : 0..MaxFailures, sends : 0..MaxSends]
    /\ worker = "handling" => batch # <<>>

\* No update is reported twice or after a later one, although the server gives the
\* updates of the last poll again when the worker starts anew: the short polls
\* discard them (worker_inner).
ReportedInOrder == \A i, j \in 1..Len(toBot) : i < j => toBot[i] < toBot[j]

\* An update the server has forgotten was reported, is about to be, or was
\* discarded by a short poll; edited messages aside.  The offset confirms updates
\* before they are handled, so this rests on what becomes of the batch.
NoneLost ==
    \A id \in DOMAIN kinds :
        \/ id \in ToSet(pending) \cup ToSet(batch) \cup ToSet(toBot) \cup discarded
        \/ kinds[id] = "edited"

\* A message that arrives during the long polling is reported, however many come at
\* once, unless an error ends that polling (worker_inner).
UpdatesAreReported ==
    \A id \in 1..MaxUpdates :
        (/\ worker = "long" /\ id \in ToSet(pending) \ discarded
         /\ kinds[id] = "message")
            ~> (id \in ToSet(toBot) \/ worker \in {"sleeping", "crashed"})

\* What the short polls threw away stays thrown away: no long poll brings it up again
\* as a new message, also after an error, when the server gives again what only the
\* next offset would have confirmed (worker_inner, the first loop).
DiscardedForGood ==
    [][\A id \in discarded : id \in ToSet(toBot') => id \in ToSet(toBot)]_vars

\* "reconnecting in 5 seconds" (telegram/client.cpp:27): after an error the worker gets back
\* to its long polls.  See the README.
Recovers == worker = "sleeping" ~> worker = "long"

=============================================================================
