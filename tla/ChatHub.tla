------------------------------ MODULE ChatHub ------------------------------
(***************************************************************************)
(* The turn runner of one chat (backend/src/agents/chatHub.ts) on top of   *)
(* the turn store, which it reaches through the database worker thread.    *)
(*                                                                         *)
(* The hub is JavaScript on one event loop: an action is everything one    *)
(* task does up to its next await.  A promise that is already settled      *)
(* resumes its awaiter before any other task runs (Quiet), and so does a   *)
(* synchronous database call when there is no worker (MainFree).           *)
(*                                                                         *)
(* A turn is submitted by the user (Foreground), requested by the backend  *)
(* under a known id (Requested) or started by the runtime on its own       *)
(* (the others).  The runtime may emit, end, fail or hang at any time.     *)
(***************************************************************************)
EXTENDS TurnStore, Sequences, FiniteSets

CONSTANTS
    Foreground,   \* turns of POST /chats/:id/message
    Requested,    \* turns of startRequestedSelfTurn
    Deliveries,   \* requested turns a pending Agent Run delivery retries after a restart
    Attached,     \* turns that bring the session Stop and steer go to
    Titled,       \* foreground turns a sidecar title is generated for
    Stoppable,    \* bound: turns that are stopped
    Steerable,    \* bound: turns that are steered
    EndReasons,   \* what a runtime may report: "completed", or "cancelled" by itself
    BootWorker,   \* the database worker when requests are first served
    SweepPending, \* TRUE: the deferred sweep of a process is still to come
    Faulty,       \* TRUE: a transaction may fail (SQLite error, node gone)
    MaxStops,     \* bound on the Stop requests for one turn
    MaxDeaths,    \* bound on deaths of the database worker
    MaxCrashes    \* bound on crashes of the backend

ASSUME HubAssumption ==
    /\ NoTurn \notin Turns
    /\ Foreground \subseteq HasUser
    /\ Requested \subseteq Turns \ Foreground
    /\ Deliveries \subseteq Requested
    /\ Foreground \cup Requested \subseteq Attached /\ Attached \subseteq Turns
    /\ Titled \subseteq Foreground
    /\ Stoppable \subseteq Turns /\ Steerable \subseteq Turns
    /\ EndReasons \subseteq {"completed", "cancelled"}
    /\ BootWorker \in {"starting", "up"}
    /\ Faulty \in BOOLEAN /\ SweepPending \in BOOLEAN
    /\ MaxStops \in Nat /\ MaxDeaths \in Nat /\ MaxCrashes \in Nat
    /\ MaxSeq >= 3

VARIABLES
    pc,           \* where the async function of a turn is
    log,          \* TurnLog: status, nextSeq, events, finalization, steering, title
    current,      \* turns.get(chatId)
    ownerActive,  \* activeSessions.has(chatId)
    completion,   \* activeTurnCompletions.get(chatId): the turn that claims the chat
    selfQueue,    \* selfTurnQueues: self-turns not over yet; pendingSelfTurns iff not empty
    waitsFor,     \* the completion a self-turn found when its queue position came up
    retained,     \* retainedTurns, until their eviction timer fires
    cancelled,    \* cancelledTurnIds
    expiry,       \* reservation timers that will still remove an id from cancelled
    cancelTimer,  \* cancelTimers.get(chatId): the turn it will force-finish
    forcing,      \* turns whose cancel timer fired and awaits their finalization
    ackPending,   \* turns whose runtime was told to cancel and has not answered
    queue,        \* database calls not executed yet, oldest first
    replies,      \* answers the hub has not received yet
    deferred,     \* checkpoints put off to the next tick because no worker is ready
    worker,       \* "starting", "up" or "dead"
    sweepDue,     \* the deferred recoverInterruptedTurns of this process is still to come
    stops,        \* history: Stop requests so far
    sent,         \* history: turns whose prompt reached the runtime in this process
    quit,         \* history: turns the runtime itself reported as cancelled
    told,         \* history: the outcome subscribers were told
    deaths, crashes

chatVars == <<current, ownerActive, completion, selfQueue, waitsFor, retained>>
stopVars == <<cancelled, expiry, cancelTimer, forcing, ackPending, stops>>
dbVars == <<queue, replies, deferred, worker, deaths>>
historyVars == <<sent, quit, told>>
processVars == <<sweepDue, crashes>>
hubVars == <<pc, log, chatVars, stopVars, dbVars, historyVars, processVars>>
vars == <<storeVars, hubVars>>

Places == {"idle", "queued", "waiting", "beginning", "draining", "streaming",
           "finishing", "over", "refused"}
Kinds == {"start", "delta", "steer", "title", "requested", "acknowledged",
          "settled", "done", "error", "unsaved"}
EndKinds == {"done", "error", "unsaved"}
Events == [seq : 0 .. MaxSeq, kind : Kinds]
Logs == [status : {"none", "active", "ended", "error"},
         fin : {"none", "requested", "committing", "settled"},
         outcome : Terminal, nextSeq : 0 .. MaxSeq + 1, endSeq : SeqNumbers,
         steer : {"none", "asked", "accepted", "rejected"},
         title : {"none", "pending", "shown"}, events : Seq(Events)]
Calls == [op : {"begin", "checkpoint", "finalize"}, turn : Turns, seq : SeqNumbers,
          status : Terminal, steered : BOOLEAN, ok : BOOLEAN]

HubTypeOK ==
    /\ pc \in [Turns -> Places]
    /\ log \in [Turns -> Logs]
    /\ current \in Turns \cup {NoTurn}
    /\ ownerActive \in BOOLEAN
    /\ completion \in Turns \cup {NoTurn}
    /\ selfQueue \in Seq(Turns)
    /\ waitsFor \in [Turns -> Turns \cup {NoTurn}]
    /\ retained \subseteq Turns
    /\ cancelled \subseteq Turns
    /\ expiry \in [Turns -> 0 .. MaxStops]
    /\ cancelTimer \in Turns \cup {NoTurn}
    /\ forcing \subseteq Turns
    /\ ackPending \subseteq Turns
    /\ queue \in Seq(Calls) /\ replies \in Seq(Calls) /\ deferred \in Seq(Calls)
    /\ worker \in {"starting", "up", "dead"}
    /\ sweepDue \in BOOLEAN
    /\ stops \in [Turns -> 0 .. MaxStops]
    /\ sent \subseteq Turns /\ quit \subseteq Turns
    /\ told \in [Turns -> Terminal \cup {"none"}]
    /\ deaths \in 0 .. MaxDeaths /\ crashes \in 0 .. MaxCrashes

NewLog == [status |-> "none", fin |-> "none", outcome |-> "error", nextSeq |-> 0,
           endSeq |-> -1, steer |-> "none", title |-> "none", events |-> <<>>]

\* The memory of a process that has just started, and nothing in the database.
HubInit ==
    /\ Init
    /\ current = NoTurn /\ ownerActive = FALSE /\ completion = NoTurn
    /\ selfQueue = <<>> /\ waitsFor = [t \in Turns |-> NoTurn] /\ retained = {}
    /\ cancelled = {} /\ expiry = [t \in Turns |-> 0]
    /\ cancelTimer = NoTurn /\ forcing = {} /\ ackPending = {}
    /\ queue = <<>> /\ replies = <<>> /\ deferred = <<>> /\ worker = BootWorker
    /\ log = [t \in Turns |-> NewLog]
    /\ sent = {} /\ sweepDue = SweepPending
    /\ pc = [t \in Turns |-> "idle"]
    /\ stops = [t \in Turns |-> 0]
    /\ quit = {} /\ told = [t \in Turns |-> "none"]
    /\ deaths = 0 /\ crashes = 0

-----------------------------------------------------------------------------
(***************************************************************************)
(* The event loop                                                          *)
(***************************************************************************)
\* Mutant: finalization does not wait for the steering request under way.
SteersIgnored(t) == log[t].fin # "none"

\* No steering request of the turn waits for its runtime (pendingSteers).
SteersSettled(t) == log[t].steer # "asked"

Quiet ==
    \A t \in Turns :
        /\ ~(log[t].fin = "requested" /\ SteersSettled(t))
        /\ ~(log[t].fin = "settled" /\ (pc[t] = "finishing" \/ t \in forcing))

MainFree == Quiet /\ (worker = "up" \/ (queue = <<>> /\ replies = <<>>))

(***************************************************************************)
(* stamp and append: number an event, log it and broadcast it.  Room keeps *)
(* the numbers within MaxSeq and leaves some for the end of the turn.      *)
(***************************************************************************)
Room(t) == log[t].nextSeq < MaxSeq - 2

Stamped(l, kind) ==
    [l EXCEPT !.nextSeq = l.nextSeq + 1,
              !.events = Append(l.events, [seq |-> l.nextSeq, kind |-> kind])]

Published(t, kind) == \E i \in 1 .. Len(log[t].events) : log[t].events[i].kind = kind

IsActive == current # NoTurn /\ log[current].status = "active"

\* The chat does not take another foreground turn (turn_active).
ChatBusy == IsActive \/ ownerActive \/ selfQueue # <<>>

\* Mutant: only the identity is compared.
SameTurn(t) == current = t

\* The loop, a timer or a late answer may still act on this turn.
Live(t) == log[t].status = "active" /\ current = t

\* Mutant: the finally block takes the chat for its own.
OwnsAnyChat(t) == pc[t] # "idle"

\* Only the chat's current turn owns its timer and session.
OwnsChat(t) == current = t

\* Mutant: one flag for the chat instead of a set of turns.
AnyStopPending(t) == cancelled # {}
\* Mutant: a Stop counts only once the turn is active.
ActiveStopPending(t) == t \in cancelled /\ Live(t)

StopPending(t) == t \in cancelled

(***************************************************************************)
(* repositoryTurnPersistence: a call goes to the worker when it is ready.  *)
(* Without a worker begin and finalize run at once on the main thread, and *)
(* a checkpoint in the next tick.                                          *)
(***************************************************************************)
Call(op, t, q, s, b) ==
    [op |-> op, turn |-> t, seq |-> q, status |-> s, steered |-> b, ok |-> TRUE]

RequestBegin(t) == queue' = Append(queue, Call("begin", t, -1, "error", FALSE))

RequestFinalize(t, l, q) ==
    queue' = Append(queue, Call("finalize", t, q, l.outcome, l.steer = "accepted"))

Checkpoint(t, l) ==
    LET c == Call("checkpoint", t, l.nextSeq - 1, "error", l.steer = "accepted")
    IN  IF worker = "up" THEN queue' = Append(queue, c) /\ UNCHANGED deferred
                         ELSE deferred' = Append(deferred, c) /\ UNCHANGED queue

MaybeCheckpoint(t, l) == Checkpoint(t, l) \/ UNCHANGED <<queue, deferred>>

-----------------------------------------------------------------------------
(***************************************************************************)
(* The database side                                                       *)
(***************************************************************************)
CounterFull(t) == completionCounter[nodeWorkspace[NodeOf[t]]] = MaxCounter

\* A finalization that must throw: no row, another outcome, or no number left.
Throws(c) ==
    /\ c.op = "finalize"
    /\ turnStatus[c.turn] # c.status
    /\ turnStatus[c.turn] = "active" => Counted(c.turn, c.status) /\ CounterFull(c.turn)

\* runInTransaction: one transaction; ok says whether it returned or threw, and
\* one that throws leaves nothing behind.
Execute(c, ok) ==
    \/ /\ ok /\ c.op = "begin"
       /\ IF turnStatus[c.turn] = "none" THEN BeginTurn(c.turn) ELSE UNCHANGED storeVars
    \/ /\ ok /\ c.op = "checkpoint"
       /\ IF CheckpointApplies(c.turn, c.seq)
          THEN CheckpointTurn(c.turn, c.seq, c.steered) ELSE UNCHANGED storeVars
    \/ /\ ok /\ c.op = "finalize" /\ ~Throws(c)
       /\ IF FinalizeApplies(c.turn)
          THEN FinalizeTurn(c.turn, c.status, c.seq, c.steered) ELSE UNCHANGED storeVars
    \/ /\ ~ok /\ (Faulty \/ Throws(c))
       /\ UNCHANGED storeVars

Answered(c, ok) == [c EXCEPT !.ok = ok]

\* The worker, or the main thread in its place, executes the oldest call.
\* The answer to a checkpoint is not used.
RunCall ==
    /\ queue # <<>>
    /\ \E ok \in BOOLEAN :
           /\ Execute(Head(queue), ok)
           /\ replies' = IF Head(queue).op = "checkpoint" THEN replies
                         ELSE Append(replies, Answered(Head(queue), ok))
    /\ queue' = Tail(queue)
    /\ UNCHANGED <<pc, log, deferred, worker, deaths, chatVars, stopVars, historyVars, processVars>>

\* The tick a checkpoint was put off to.
RunDeferred ==
    /\ MainFree /\ deferred # <<>>
    /\ \E ok \in BOOLEAN : Execute(Head(deferred), ok)
    /\ deferred' = Tail(deferred)
    /\ UNCHANGED <<pc, log, queue, replies, worker, deaths, chatVars, stopVars, historyVars, processVars>>

WorkerReady ==
    /\ MainFree /\ worker = "starting"
    /\ worker' = "up"
    /\ UNCHANGED <<storeVars, pc, log, queue, replies, deferred, deaths, chatVars, stopVars,
                   historyVars, processVars>>

\* clearWorker: every call without an answer is rejected, although it may have
\* been committed; nothing is sent again.
WorkerDies ==
    /\ Quiet /\ worker = "up" /\ deaths < MaxDeaths
    /\ LET pending == replies \o queue
       IN  replies' = [i \in 1 .. Len(pending) |-> Answered(pending[i], FALSE)]
    /\ queue' = <<>>
    /\ worker' = "dead" /\ deaths' = deaths + 1
    /\ UNCHANGED <<storeVars, pc, log, deferred, chatVars, stopVars, historyVars, processVars>>

\* A rejected checkpoint is logged.
CheckpointRejected ==
    /\ Quiet /\ replies # <<>> /\ Head(replies).op = "checkpoint"
    /\ replies' = Tail(replies)
    /\ UNCHANGED <<storeVars, pc, log, queue, deferred, worker, deaths, chatVars, stopVars,
                   historyVars, processVars>>

-----------------------------------------------------------------------------
(***************************************************************************)
(* Submitting turns                                                        *)
(***************************************************************************)

\* Mutant: the chat is claimed only when the turn has begun.
ClaimLater(t) == UNCHANGED completion

\* activeTurnCompletions.set before the first await.
Claim(t) == completion' = t

\* The message route up to the first await of startTurn.  The route's restore
\* lock keeps a second startTurn out until the first has begun or failed.  A
\* turn that was stopped before it started is refused; its claim on the chat
\* replaces whatever claim was left there and is then given up.
StartTurn(t) ==
    /\ MainFree
    /\ t \in Foreground /\ pc[t] = "idle" /\ turnStatus[t] = "none"
    /\ \A u \in Foreground : pc[u] # "beginning"
    /\ ~ChatBusy
    /\ IF StopPending(t)
       THEN /\ cancelled' = cancelled \ {t}
            /\ completion' = NoTurn
            /\ pc' = [pc EXCEPT ![t] = "refused"]
            /\ UNCHANGED queue
       ELSE /\ Claim(t)
            /\ pc' = [pc EXCEPT ![t] = "beginning"]
            /\ RequestBegin(t)
            /\ UNCHANGED cancelled
    /\ UNCHANGED <<storeVars, log, current, ownerActive, selfQueue, waitsFor, retained,
                   expiry, cancelTimer, forcing, ackPending, stops,
                   replies, deferred, worker, deaths, historyVars, processVars>>

\* startSelfTurn and startRequestedSelfTurn: take a place in the chat's queue.
\* A requested turn that already has its outcome is answered from its row.
QueueSelfTurn(t) ==
    /\ MainFree
    /\ t \notin Foreground /\ pc[t] = "idle"
    /\ turnStatus[t] = "none" \/ (t \in Requested /\ turnStatus[t] = "active")
    /\ selfQueue' = Append(selfQueue, t)
    /\ pc' = [pc EXCEPT ![t] = "queued"]
    /\ UNCHANGED <<storeVars, log, current, ownerActive, completion, waitsFor, retained,
                   stopVars, dbVars, historyVars, processVars>>

\* The turn in front is over: look once at who claims the chat now.
ReachHead(t) ==
    /\ MainFree
    /\ pc[t] = "queued" /\ Head(selfQueue) = t
    /\ waitsFor' = [waitsFor EXCEPT ![t] = completion]
    /\ pc' = [pc EXCEPT ![t] = "waiting"]
    /\ UNCHANGED <<storeVars, log, current, ownerActive, completion, selfQueue, retained,
                   stopVars, dbVars, historyVars, processVars>>

\* Mutant: a turn that could not begin never settles its completion.
OnlyOver(t) == pc[t] = "over"

\* The completion a turn put into activeTurnCompletions has settled.
Settled(t) == pc[t] \in {"over", "refused"}

BeginSelfTurn(t) ==
    /\ MainFree
    /\ pc[t] = "waiting"
    /\ waitsFor[t] # NoTurn => Settled(waitsFor[t])
    /\ pc' = [pc EXCEPT ![t] = "beginning"]
    /\ RequestBegin(t)
    /\ UNCHANGED <<storeVars, log, chatVars, stopVars, replies, deferred, worker, deaths,
                   historyVars, processVars>>

\* Mutant: a self-turn that is over keeps its place.
QueueKept(t) == UNCHANGED selfQueue

\* The queue position of a self-turn resolves: the next one is in front.
LeaveQueue(t) == selfQueue' = IF t \in Foreground THEN selfQueue ELSE Tail(selfQueue)

\* The rows are there: the log becomes the chat's current turn, turn_start is
\* published and the prompt goes to the runtime, unless a Stop came first.
\* The runtime's own turn has no prompt and cannot have been named in a Stop.
BeginCommitted(t) ==
    LET stopped == StopPending(t)
        started == Stamped([NewLog EXCEPT !.status = "active",
                                          !.title = IF t \in Titled /\ ~stopped
                                                    THEN "pending" ELSE "none"], "start")
    IN  /\ current' = t
        /\ ownerActive' = (ownerActive \/ t \in Attached)
        /\ IF stopped
           THEN /\ log' = [log EXCEPT ![t] = [started EXCEPT !.fin = "requested",
                                                             !.outcome = "cancelled"]]
                /\ pc' = [pc EXCEPT ![t] = "finishing"]
                /\ UNCHANGED sent
           ELSE /\ log' = [log EXCEPT ![t] = started]
                /\ pc' = [pc EXCEPT ![t] = "streaming"]
                /\ sent' = sent \cup {t}
        /\ UNCHANGED <<completion, selfQueue>>

\* The begin failed.  A foreground turn gives up its claim, a requested one its
\* place in the queue; the runtime's own turn is drained first.
BeginFailed(t) ==
    /\ completion' = IF completion = t THEN NoTurn ELSE completion
    /\ IF t \in Foreground \cup Requested
       THEN /\ pc' = [pc EXCEPT ![t] = "refused"]
            /\ LeaveQueue(t)
       ELSE /\ pc' = [pc EXCEPT ![t] = "draining"]
            /\ UNCHANGED selfQueue
    /\ UNCHANGED <<log, current, ownerActive, sent>>

ReceiveBegin ==
    /\ Quiet /\ replies # <<>> /\ Head(replies).op = "begin"
    /\ IF Head(replies).ok THEN BeginCommitted(Head(replies).turn)
                           ELSE BeginFailed(Head(replies).turn)
    /\ replies' = Tail(replies)
    /\ UNCHANGED <<storeVars, waitsFor, retained, stopVars, queue, deferred, worker, deaths,
                   quit, told, processVars>>

\* The drained iterator of a runtime turn that could not begin has ended.
DrainEnds(t) ==
    /\ MainFree
    /\ pc[t] = "draining"
    /\ pc' = [pc EXCEPT ![t] = "refused"]
    /\ LeaveQueue(t)
    /\ UNCHANGED <<storeVars, log, current, ownerActive, completion, waitsFor, retained,
                   stopVars, dbVars, historyVars, processVars>>

-----------------------------------------------------------------------------
(***************************************************************************)
(* Consuming the runtime's events (runTurn, runSelfTurn)                   *)
(***************************************************************************)

\* The finally block.  Then done resolves: a foreground turn drops its claim, a self-turn
\* leaves the queue.
Leave(t) ==
    /\ cancelled' = cancelled \ {t}
    /\ cancelTimer' = IF OwnsChat(t) THEN NoTurn ELSE cancelTimer
    /\ ownerActive' = (ownerActive /\ ~(OwnsChat(t) /\ t \in Attached))
    /\ retained' = retained \cup {t}
    /\ completion' = IF completion = t THEN NoTurn ELSE completion
    /\ LeaveQueue(t)
    /\ pc' = [pc EXCEPT ![t] = "over"]

\* finalizeOnce: the first caller decides the outcome.
Finish(t, s) == log' = [log EXCEPT ![t].fin = "requested", ![t].outcome = s]

\* A streamed event: published, and checkpointed when it is structural or the
\* interval is over.
Emit(t) ==
    /\ MainFree
    /\ pc[t] = "streaming" /\ Live(t) /\ log[t].fin = "none" /\ Room(t)
    /\ LET l == Stamped(log[t], "delta")
       IN log' = [log EXCEPT ![t] = l] /\ MaybeCheckpoint(t, l)
    /\ UNCHANGED <<storeVars, pc, replies, worker, deaths, chatVars, stopVars, historyVars, processVars>>

\* turn_end, or the end of the iterator.  A pending Stop overrides the reason
\* the runtime gives, which may itself be "cancelled".
EndTurn(t, s) ==
    /\ MainFree
    /\ pc[t] = "streaming" /\ Live(t) /\ log[t].fin = "none"
    /\ Finish(t, IF StopPending(t) THEN "cancelled" ELSE s)
    /\ pc' = [pc EXCEPT ![t] = "finishing"]
    /\ quit' = IF s = "cancelled" THEN quit \cup {t} ELSE quit
    /\ UNCHANGED <<storeVars, chatVars, stopVars, dbVars, sent, told, processVars>>

\* A runtime error is a graceful cancellation if a Stop is pending, unless the
\* runtime needs recovery.
FailTurn(t, recoveryRequired) ==
    /\ MainFree
    /\ pc[t] = "streaming" /\ Live(t) /\ log[t].fin = "none"
    /\ Finish(t, IF StopPending(t) /\ ~recoveryRequired THEN "cancelled" ELSE "error")
    /\ pc' = [pc EXCEPT ![t] = "finishing"]
    /\ UNCHANGED <<storeVars, chatVars, stopVars, dbVars, historyVars, processVars>>

\* Any event, end or error of a turn that the cancel timeout is finalizing:
\* wait for that finalization.
JoinFinalization(t) ==
    /\ MainFree
    /\ pc[t] = "streaming" /\ Live(t) /\ log[t].fin # "none"
    /\ pc' = [pc EXCEPT ![t] = "finishing"]
    /\ UNCHANGED <<storeVars, log, chatVars, stopVars, dbVars, historyVars, processVars>>

\* Any event, end or error of a turn that was force-finished long ago.
LateEvent(t) ==
    /\ MainFree
    /\ pc[t] = "streaming" /\ ~Live(t)
    /\ Leave(t)
    /\ UNCHANGED <<storeVars, log, current, waitsFor, expiry, forcing, ackPending, stops,
                   dbVars, historyVars, processVars>>

FinallyBlock(t) ==
    /\ pc[t] = "finishing" /\ log[t].fin = "settled"
    /\ Leave(t)
    /\ UNCHANGED <<storeVars, log, current, waitsFor, expiry, forcing, ackPending, stops,
                   dbVars, historyVars, processVars>>

\* A generated title arrives; it is dropped when the turn is no longer active.
TitleArrives(t) ==
    /\ MainFree
    /\ log[t].title = "pending"
    /\ IF Live(t)
       THEN /\ Room(t)
            /\ LET l == Stamped([log[t] EXCEPT !.title = "shown"], "title")
               IN log' = [log EXCEPT ![t] = l] /\ Checkpoint(t, l)
       ELSE /\ log' = [log EXCEPT ![t].title = "none"]
            /\ UNCHANGED <<queue, deferred>>
    /\ UNCHANGED <<storeVars, pc, replies, worker, deaths, chatVars, stopVars, historyVars, processVars>>

-----------------------------------------------------------------------------
(***************************************************************************)
(* Steering                                                                *)
(***************************************************************************)
Steer(t) ==
    /\ MainFree
    /\ t \in Steerable /\ log[t].steer = "none" /\ Room(t)
    /\ ownerActive /\ Live(t) /\ log[t].fin = "none"
    /\ log' = [log EXCEPT ![t].steer = "asked"]
    /\ UNCHANGED <<storeVars, pc, chatVars, stopVars, dbVars, historyVars, processVars>>

\* The runtime accepts or rejects the steering message.
SteerSettles(t) ==
    /\ MainFree
    /\ log[t].steer = "asked"
    /\ \/ /\ Room(t)
          /\ LET l == Stamped([log[t] EXCEPT !.steer = "accepted"], "steer")
             IN log' = [log EXCEPT ![t] = l] /\ Checkpoint(t, l)
       \/ /\ log' = [log EXCEPT ![t].steer = "rejected"]
          /\ UNCHANGED <<queue, deferred>>
    /\ UNCHANGED <<storeVars, pc, replies, worker, deaths, chatVars, stopVars, historyVars, processVars>>

-----------------------------------------------------------------------------
(***************************************************************************)
(* Stop (cancel, cancelAndWait, reserveCancellation, scheduleCancelTimeout) *)
(***************************************************************************)

\* scheduleCancelTimeout replaces the chat's timer.
ArmTimer(t) == cancelTimer' = t

\* Stop for the active turn.  The same call is made again by a message that
\* is posted while the turn is being cancelled.
StopActive(t) ==
    /\ MainFree
    /\ t \in Stoppable /\ Live(t) /\ stops[t] < MaxStops /\ Room(t)
    /\ stops' = [stops EXCEPT ![t] = stops[t] + 1]
    /\ cancelled' = cancelled \cup {t}
    /\ LET l == Stamped(log[t], "requested")
       IN log' = [log EXCEPT ![t] = l] /\ MaybeCheckpoint(t, l)
    /\ ackPending' = ackPending \cup {t}
    /\ ArmTimer(t)
    /\ UNCHANGED <<storeVars, pc, expiry, forcing, replies, worker, deaths, chatVars,
                   historyVars, processVars>>

\* Stop for a turn that is not the active one: it has not started yet, or the
\* request is late.  The id is refused until the retention time is over.
ReserveCancellation(t) ==
    /\ MainFree
    /\ t \in Stoppable \cap (Foreground \cup Requested)
    /\ ~(IsActive /\ current = t) /\ stops[t] < MaxStops
    /\ stops' = [stops EXCEPT ![t] = stops[t] + 1]
    /\ cancelled' = cancelled \cup {t}
    /\ expiry' = [expiry EXCEPT ![t] = expiry[t] + 1]
    /\ UNCHANGED <<storeVars, pc, log, cancelTimer, forcing, ackPending, chatVars, dbVars,
                   historyVars, processVars>>

ReservationExpires(t) ==
    /\ MainFree
    /\ expiry[t] > 0
    /\ expiry' = [expiry EXCEPT ![t] = expiry[t] - 1]
    /\ cancelled' = cancelled \ {t}
    /\ UNCHANGED <<storeVars, pc, log, cancelTimer, forcing, ackPending, stops, chatVars, dbVars,
                   historyVars, processVars>>

\* The runtime's answer to cancel() counts only while the turn is active; it
\* may not be an acknowledgement.
CancelAnswered(t) ==
    /\ MainFree
    /\ t \in ackPending
    /\ ackPending' = ackPending \ {t}
    /\ \/ /\ Live(t) /\ Room(t)
          /\ LET l == Stamped(log[t], "acknowledged")
             IN log' = [log EXCEPT ![t] = l] /\ MaybeCheckpoint(t, l)
       \/ UNCHANGED <<log, queue, deferred>>
    /\ UNCHANGED <<storeVars, pc, cancelled, expiry, cancelTimer, forcing, stops,
                   replies, worker, deaths, chatVars, historyVars, processVars>>

\* The timer finalizes a turn the runtime does not end, or joins a
\* finalization that has started.
CancelTimeout ==
    /\ MainFree
    /\ cancelTimer # NoTurn
    /\ cancelTimer' = NoTurn
    /\ LET t == cancelTimer
       IN  IF Live(t)
           THEN /\ IF log[t].fin = "none" THEN Finish(t, "cancelled") ELSE UNCHANGED log
                /\ forcing' = forcing \cup {t}
           ELSE UNCHANGED <<log, forcing>>
    /\ UNCHANGED <<storeVars, pc, cancelled, expiry, ackPending, stops, chatVars, dbVars,
                   historyVars, processVars>>

\* Mutant: the session of a force-finished turn is left to its loop.
SessionKept(t) == UNCHANGED ownerActive

\* Clean up the active session so that the chat is no longer busy.
ReleaseSession(t) == ownerActive' = (ownerActive /\ current # t)

ForceFinished(t) ==
    /\ t \in forcing /\ log[t].fin = "settled"
    /\ forcing' = forcing \ {t}
    /\ ReleaseSession(t)
    /\ retained' = IF current = t THEN retained \cup {t} ELSE retained
    /\ UNCHANGED <<storeVars, pc, log, current, completion, selfQueue, waitsFor,
                   cancelled, expiry, cancelTimer, ackPending, stops, dbVars, historyVars, processVars>>

-----------------------------------------------------------------------------
(***************************************************************************)
(* The durability boundary (persistDone, persistError)                     *)
(***************************************************************************)

\* Once every steering request has settled: settle the Stop, number the
\* terminal event without publishing it, and ask for the final transaction.
Persist(t) ==
    /\ log[t].fin = "requested" /\ SteersSettled(t)
    /\ LET l == IF StopPending(t) /\ ~Published(t, "settled")
                THEN Stamped(log[t], "settled") ELSE log[t]
       IN  /\ log' = [log EXCEPT ![t] = [l EXCEPT !.fin = "committing",
                                                  !.endSeq = l.nextSeq,
                                                  !.nextSeq = l.nextSeq + 1]]
           /\ RequestFinalize(t, l, l.nextSeq)
    /\ UNCHANGED <<storeVars, pc, replies, deferred, worker, deaths, chatVars, stopVars,
                   historyVars, processVars>>

\* The transaction committed: only now is the terminal event published.
FinalizeCommitted(t) ==
    LET failed == log[t].outcome = "error"
        last == [seq |-> log[t].endSeq, kind |-> IF failed THEN "error" ELSE "done"]
    IN  /\ log' = [log EXCEPT ![t] = [log[t] EXCEPT
                       !.fin = "settled",
                       !.status = IF failed THEN "error" ELSE "ended",
                       !.events = Append(log[t].events, last)]]
        /\ told' = [told EXCEPT ![t] = log[t].outcome]

\* Mutant: the failure is logged and the turn reported as over.
FinalizeAssumed(t) == FinalizeCommitted(t)

\* finishWithPersistenceError: a fresh error event says so.
FinalizeFailed(t) ==
    /\ log' = [log EXCEPT ![t] = Stamped([log[t] EXCEPT !.fin = "settled",
                                                       !.status = "error"], "unsaved")]
    /\ UNCHANGED told

ReceiveFinalize ==
    /\ Quiet /\ replies # <<>> /\ Head(replies).op = "finalize"
    /\ IF Head(replies).ok THEN FinalizeCommitted(Head(replies).turn)
                           ELSE FinalizeFailed(Head(replies).turn)
    /\ replies' = Tail(replies)
    /\ UNCHANGED <<storeVars, pc, queue, deferred, worker, deaths, chatVars, stopVars,
                   sent, quit, processVars>>

\* The eviction timer of a finished turn: its log is dropped, unless the
\* turn's own loop, stuck in the runtime, still holds it.
Evict(t) ==
    /\ MainFree
    /\ t \in retained
    /\ retained' = retained \ {t}
    /\ current' = IF current = t THEN NoTurn ELSE current
    /\ log' = IF pc[t] = "over" THEN [log EXCEPT ![t] = NewLog] ELSE log
    /\ UNCHANGED <<storeVars, pc, ownerActive, completion, selfQueue, waitsFor, stopVars,
                   dbVars, historyVars, processVars>>

-----------------------------------------------------------------------------
(***************************************************************************)
(* Restart                                                                 *)
(***************************************************************************)
Sweep(preserve) ==
    \/ RecoverInterruptedTurns(preserve)
    \/ /\ \A t \in Turns \ preserve : turnStatus[t] # "active"
       /\ UNCHANGED storeVars

\* The backend dies and starts again.  All memory and every call that is not
\* committed is lost.  Before it serves requests the new process ends the turns
\* its predecessor left active, except those a pending delivery will resume.
\* A send without a row may be sent again.
Restart ==
    /\ crashes < MaxCrashes
    /\ crashes' = crashes + 1
    /\ Sweep(Deliveries)
    /\ current' = NoTurn /\ ownerActive' = FALSE /\ completion' = NoTurn
    /\ selfQueue' = <<>> /\ waitsFor' = [t \in Turns |-> NoTurn] /\ retained' = {}
    /\ cancelled' = {} /\ expiry' = [t \in Turns |-> 0]
    /\ cancelTimer' = NoTurn /\ forcing' = {} /\ ackPending' = {}
    /\ queue' = <<>> /\ replies' = <<>> /\ deferred' = <<>> /\ worker' = BootWorker
    /\ log' = [t \in Turns |-> NewLog]
    /\ sent' = {} /\ sweepDue' = SweepPending
    /\ pc' = [t \in Turns |-> IF t \in Deliveries \/ turnStatus[t] = "none"
                              THEN "idle" ELSE "over"]
    /\ UNCHANGED <<stops, quit, told, deaths>>

\* Mutant: the sweep spares the turns that will be resumed and no others.
OnlyDeliveries == Deliveries

\* pendingAgentDeliveryTurnIds and the turns the hub has as active.
Spared == Deliveries \cup {t \in Turns : current = t /\ log[t].status = "active"}

\* server.ts, after the Agent Run recovery audit: the same sweep again, now
\* sparing the active turns too.  Requests are served meanwhile.
DeferredSweep ==
    /\ MainFree
    /\ sweepDue
    /\ sweepDue' = FALSE
    /\ Sweep(Spared)
    /\ UNCHANGED <<pc, log, chatVars, stopVars, dbVars, historyVars, crashes>>

-----------------------------------------------------------------------------
Microtask(t) == Persist(t) \/ FinallyBlock(t) \/ ForceFinished(t)

\* What the backend does by itself.
Backend ==
    \/ RunCall \/ RunDeferred \/ WorkerReady
    \/ ReceiveBegin \/ ReceiveFinalize \/ CheckpointRejected
    \/ CancelTimeout
    \/ \E t \in Turns :
           \/ ReachHead(t) \/ BeginSelfTurn(t) \/ Microtask(t)
           \/ SteerSettles(t) \/ CancelAnswered(t) \/ TitleArrives(t)
           \/ ReservationExpires(t) \/ Evict(t)

\* What the user's windows and other parts of the backend ask for.
Client ==
    \E t \in Turns : StartTurn(t) \/ QueueSelfTurn(t) \/ Steer(t)
                        \/ StopActive(t) \/ ReserveCancellation(t)

\* What the runtime does with the turn it was given.
Runtime(t) ==
    \/ Emit(t) \/ JoinFinalization(t) \/ LateEvent(t) \/ DrainEnds(t)
    \/ \E s \in EndReasons : EndTurn(t, s)
    \/ \E r \in BOOLEAN : FailTurn(t, r)

Faults == WorkerDies \/ Restart \/ DeferredSweep

HubNext == Backend \/ Client \/ (\E t \in Turns : Runtime(t)) \/ Faults

HubSpec == HubInit /\ [][HubNext]_vars

\* The event loop, the database, timers and the answers to cancel and steer
\* requests (which time out) make progress.
HubFairness ==
    /\ WF_vars(RunCall) /\ WF_vars(RunDeferred) /\ WF_vars(WorkerReady)
    /\ WF_vars(ReceiveBegin) /\ WF_vars(ReceiveFinalize) /\ WF_vars(CheckpointRejected)
    /\ WF_vars(CancelTimeout)
    /\ \A t \in Turns : /\ WF_vars(ReachHead(t)) /\ WF_vars(BeginSelfTurn(t))
                        /\ WF_vars(Microtask(t)) /\ WF_vars(SteerSettles(t))

\* The runtime ends every turn it was given.
RuntimeFairness ==
    \A t \in Turns :
        WF_vars((\E s \in EndReasons : EndTurn(t, s))
                \/ JoinFinalization(t) \/ LateEvent(t) \/ DrainEnds(t))

FairSpec == HubSpec /\ HubFairness
ResponsiveSpec == FairSpec /\ RuntimeFairness

-----------------------------------------------------------------------------
(***************************************************************************)
(* Properties                                                              *)
(***************************************************************************)
Running(t) == pc[t] = "beginning" \/ log[t].status = "active"

\* Turn histories are serial (the comments in startTurn and startSelfTurn): at
\* most one turn of the chat is between its begin and its end, and an active
\* log is always the chat's current one, never overwritten by a later begin.
OneLiveTurn ==
    /\ \A t, u \in Turns : Running(t) /\ Running(u) => t = u
    /\ \A t \in Turns : log[t].status = "active" => current = t

\* The session that Stop and steer reach belongs to the turn that is active:
\* neither the finally block of an earlier turn nor its force-finish removes
\* it, and none stays behind once its turn is over.
SessionFollowsTurn ==
    /\ IsActive => (ownerActive <=> current \in Attached)
    /\ ownerActive => /\ current # NoTurn
                      /\ \/ log[current].status = "active"
                         \/ pc[current] = "finishing" \/ current \in forcing

\* The durability boundary: a terminal event is published only when the same
\* outcome is in the turn's row, and stays there over restarts.
DoneIsDurable == \A t \in Turns : told[t] # "none" => turnStatus[t] = told[t]

\* Commit accepted input before done or error: steering the user was told is
\* accepted is in the transcript when the turn is reported as over.
SteeringIsSaved ==
    \A t \in Turns : told[t] # "none" /\ Published(t, "steer")
        => messageSeq[t]["steer"] # Absent

\* What the hub makes of its logs, calls, timers and sweeps, as TurnService
\* speaks of it.
Service == INSTANCE TurnService WITH
    Resumed <- Deliveries,
    running <- {t \in Turns : Running(t)},
    row     <- turnStatus,
    asked   <- {t \in Turns : stops[t] > 0 \/ t \in quit},
    verdict <- [t \in Turns |-> IF log[t].status = "active" /\ log[t].fin # "none"
                                THEN log[t].outcome ELSE "none"]

\* Although every call is decided in one state and executed in another, may
\* fail, be lost with its worker after it was committed or be swept away, the
\* chat keeps its promises: serial turns, prompts only for turns on disk, one
\* judgement per turn that alone becomes its outcome and is told as it is on
\* disk, and sweeps that spare what the runtime works on (startTurn,
\* finalizeOnce, persistDone, recoverInterruptedTurns, the sweep of server.ts).
HubImplementsService == Service!ServiceSpec

\* A turn's stream ends with its terminal event; no late acknowledgement,
\* title, steering answer or streamed event follows it.
NothingAfterEnd ==
    \A t \in Turns : \A i \in 1 .. Len(log[t].events) :
        log[t].events[i].kind \in EndKinds => i = Len(log[t].events)

\* A turn is reported cancelled only if a Stop named it or its runtime said
\* so: a late Stop or timer of one turn never cancels another.
CancelledWasAsked ==
    \A t \in Turns : told[t] = "cancelled" => stops[t] > 0 \/ t \in quit

\* While a Stop that beat its turn's start is held, the turn's prompt does not
\* reach the runtime (reserveCancellation).
StopIsHonoured == [][\A t \in sent' \ sent : expiry[t] = 0]_vars

\* After a Stop the chat accepts messages again, whether or not the runtime
\* reacts.
StopFreesChat ==
    \A t \in Turns : (Live(t) /\ Published(t, "requested")) ~> ~ChatBusy

\* A self-turn that was queued gets its turn and is over some day.
SelfTurnsFinish == \A t \in Turns : pc[t] = "queued" ~> pc[t] \in {"over", "refused"}

\* The chat does not stay busy: claims, sessions and queue places of turns that
\* are over are all given up.
ChatGetsFree == []<>~ChatBusy
=============================================================================
