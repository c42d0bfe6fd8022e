# Michi: a TLA+ verification project

Michi is a local application in which a user branches conversations with coding
agents on a canvas. A React window (`src/frontend`) talks to a Node backend
(`src/backend`), which drives agent processes through a runtime layer
(`src/runtime`) and keeps everything in one SQLite database.

The behaviour the rest of the program leans on is the **life of a chat turn**:
a message is posted, the backend writes provisional rows, sends the prompt to a
runtime, numbers and broadcasts what comes back, checkpoints it, and ends the
turn with a final transaction; meanwhile the user stops or steers it, other
turns queue up behind it, the database worker or the whole backend dies, and
windows lose and resume their streams. The project models that life from the
rows up to the window, and around it the parts that start turns by themselves
or read finished ones: scheduled jobs, background agent runs and their delivery
to a parent chat, the sessions of the agent processes, and automatic memory.

| module | what it is |
|---|---|
| `TurnStore.tla` | the rows of a turn and the transactions on them |
| `TurnStoreProofs.tla` | theorems about `TurnStore` |
| `ChatHub.tla` | the turn runner of one chat, the database worker, boot; extends `TurnStore` |
| `TurnService.tla` | abstract: what a chat promises about its turns; implemented by `ChatHub` |
| `ChatHubProofs.tla` | the calls of the hub and the store's promises below it; extends `TurnStoreProofs` |
| `ChatTurnProofs.tla` | `ChatHub` implements `TurnService`, and its safety properties; extends `ChatHubProofs` |
| `TurnViewer.tla` | a window following one turn of the hub; extends `ChatHub` |
| `TurnViewerProofs.tla` | what the window shows is saved; extends `ChatTurnProofs` |
| `CompletionFeed.tla` | abstract: what readers of finished turns may rely on; implemented by `TurnStore` |
| `MemoryExtraction.tla` | automatic memory, a reader of the feed; extends `CompletionFeed` |
| `MemoryExtractionProofs.tla` | theorems about `MemoryExtraction` |
| `ExclusiveWork.tla` | abstract: what admission of scheduled work promises; implemented by `JobScheduler` |
| `JobScheduler.tla` | the scheduler of several processes that share the database |
| `JobSchedulerProofs.tla` | `JobScheduler` implements `ExclusiveWork`, and its safety properties |
| `AgentRuns.tla` | one background agent run, its attempts, leases and coordinators |
| `AgentRunDelivery.tla` | the Watch on the run and the continuation of the parent chat; extends `AgentRuns` |
| `AgentRunProofs.tla` | theorems about `AgentRuns` and `AgentRunDelivery` |
| `SessionAcquisition.tla` | the two maps that serialize creation and release of a session id |
| `ClaudeSessions.tla` | the Claude session manager and its warm pool; extends `SessionAcquisition` |
| `ClaudeSessionsProofs.tla` | theorems about `SessionAcquisition` and `ClaudeSessions` |
| `MC*.tla` | values of function-valued constants and symmetries for TLC |

`PROJECT.json` lists the components, the runs, the mutants, the source lines of
every definition, the findings, the hazards and the theorems.

## 1. Inventory

For each part: the state it keeps, its operations, what it exchanges with the
others, what is hard about it, and what makes it correct.

**Turn store** (`services/turnPersistence.core.ts`, `.recipes.ts`, and two
operations of `dbRepository.ts`). State: rows of `turns` (status, last_seq,
completion_seq), `messages` (position within the node), `nodes` (status, last
applied turn and number, workspace), `trees`, and one completion counter per
workspace in `meta`. Operations: begin, checkpoint, finalize,
`recoverInterruptedTurns`, `moveTreeToWorkspace`; each is one SQLite transaction.
The same recipes run on the main thread and in the worker. Hard: writes that are
late, repeated or reordered; a tree that changes workspace while its turns run;
a steering message that is inserted into the middle of a transcript. Correct:
an outcome is final, no node is left streaming, completion numbers are unique
per workspace and never appear behind a reader, a turn's messages are one block.

**Chat hub** (`agents/chatHub.ts`). State, per chat: the current turn log
(status, next number, events, finalization, pending steers), the active session,
the claim of the running turn, the self-turn queue, retained logs, cancelled
ids with reservation timers, the cancel timer. Operations: `startTurn`,
`startSelfTurn`, `startRequestedSelfTurn`, `cancel`, `cancelAndWait`,
`reserveCancellation`, `steer`, subscription, eviction; and one async function
per turn that consumes the runtime's events. Hard: everything between two
awaits interleaves. A Stop before, during or after a turn, its timer, the turn's
own end and its finally block, the next turn's begin. Correct: turns of a chat
are serial, the late cleanup of one does not touch the next, a Stop reaches the
turn it names and no other, nothing is published after the end, the end is
published only when it is saved.

**Database worker** (`services/dbWorkerClient.ts`, `dbWorkerThread.ts`). State:
pending calls by id. Operations: call, answer, death, startup; when it is not
ready callers fall back to the main thread. Hard: a death rejects calls that are
already committed. Correct: what the hub tells subscribers agrees with the rows.

**Routes** (`routes/michi.ts`, `chatStreamEvents.ts`, `chatReplay.ts`) turn
requests into hub calls; the message route decides whether a chat is busy and
subscribes the posting window.

**Window stream client** (`services/api/stream.ts`, `state/chatStreamRunner.ts`,
`state/turnErrorRecovery.ts`). State: the connection, the last accepted number,
what is shown. Operations: post, receive, reattach, read the saved turn,
observe from a snapshot. Hard: the stream breaks anywhere, a replay overlaps or
is gone, the backend restarts. Correct: the window settles, and what it shows
is saved.

**Backend boot** (`server.ts`). Two recovery sweeps: one before requests are
served, one after the Agent Run audit while they are. Hard: the second one
shares the database with live turns.

**Scheduled jobs** (`services/scheduledJobs/`). State: jobs, runs, execution
claims and one lease row in the database; in each process the lease it thinks it
holds and its active runs. Operations: the tick (acquire the lease, reap, admit
due jobs), run now, start and end of an execution, timeout and grace timer,
cancel, edit, delete, purge, confirm stopped, stop. Hard: a lease that expires
under its holder, agent turns that go on after their row has ended or their
process is gone, results that cannot be written. Correct: one execution of a job
at a time and never more than the limit, a result is final, a one-shot runs once,
a page of conversation turns is consumed once, a due job is served.

**Agent runs** (`agents/runs/*`, `services/agentRunsRepository.ts`). State: the
run's row with lease and active attempt, the attempts, and in every process the
live attempts. Operations: claim, open, report, ask, answer, retry, cancel,
administrative deletion, heartbeat, recovery, shutdown. Hard: leases are renewed
only for opened attempts, outcomes are applied to whatever attempt is live, a
deletion waits for the runtime. Correct: one result, an ended run has no lease,
and no lease stays for ever.

**Watches and parent delivery** (`agents/runs/agentRunWatchCoordinator.ts`,
`agents/agentRunParentDelivery.ts`, `agents/agentRunAssembly.ts`). State: the
watch and its delivery status. Hard: the process that recorded the end may die
before it evaluated the watch, or between the turn and its receipt. Correct: the
end reaches the parent, its turn runs once, "delivered" means that it ran.

**Sessions** (`runtime/src/core/sessionAcquisition.ts`,
`adapters/claude/ClaudeSessionManager.ts`, `ClaudeWarmPool.ts`). State: creations
and releases by id, sessions by id, the warm pool, reserved spawns. Operations:
acquire, release, reclaim, warm up, dispose. Hard: creations, releases and
reclaims of one id overlap, and a disposal may not be able to confirm that the
process is gone. Correct: one provider per id, nobody gets a session that was
released or whose cleanup is unconfirmed, the budget holds, every call returns.

**Conversation updates** (`services/conversationUpdates.ts`): a reader pages
through finished turns by completion number. State: none but a cursor of its
caller. Correct: finished turns are numbered once, in order, by their workspace.

**Automatic memory** (`services/memory/`). State: a cursor per workspace,
executions with source turns, receipts and staged candidates, memories, and
tombstones of removed ones. Operations: enrol, switch the mode, plan a batch, the
agent's tools, settle, fail; save and remove. Hard: all of this interleaves with
turns that finish or move and with the scheduler losing the run. Correct: no turn
is lost, what a switch back to automatic memory has skipped is not read later, and
what the user removed does not come back.

**Background replay, workspace sync** (`frontend/src/state/*`): the all-chats
event feed with its gap reconciliation, and the write-behind queue of the
window. Not modelled yet.

**Pane inspection** (`services/paneInspection*.ts`): a bounded ring with cursors
and gap reports. Not modelled yet.

**Runtime core** (`runtime/src/core`): event queue, async gate, approvals. Not
modelled yet: the hub's runtime is free to emit, end, fail or hang at any time,
which includes whatever these do.

**Other runtime adapters, MCP host, pages, meta agent, remote access, desktop
shell, user interface**: not planned. Protocol translation for external
programs, sequential CRUD, I/O and rendering (reasons in `PROJECT.json`).

## 2. How the modules correspond to the code

### TurnStore

One action per transaction: `BeginTurn`, `CheckpointTurn`, `FinalizeTurn`,
`RecoverInterruptedTurns`, `MoveTreeToWorkspace`. Arguments are arbitrary (any
turn, outcome, event number, steering or not, in any order), so what holds here
holds for every caller. A message is its position; texts, blocks, titles and
follow-ups are left out, and a turn has at most one steering message. A
transaction that throws is rolled back, hence a stuttering step. `messages.seq`
is kept as the code computes it: `NextSeq` is `MAX(seq) + 1` of the node, and
`WriteSteeredMessages` shifts everything from the assistant's position on. The
completion counter stops at `MaxCounter`, as the code throws at
`Number.MAX_SAFE_INTEGER`.

### ChatHub

The hub runs on one JavaScript thread. An action is all that one task does up to
its next `await`:

* a promise that is already settled resumes its awaiter before any other task;
  `Quiet` says that no such continuation is due, and every task that is not
  itself one requires it;
* a call to the worker is an entry of `queue` and its answer an entry of
  `replies`; `RunCall` is the worker and interleaves with everything;
* without a ready worker the same call is synchronous: `MainFree` then keeps all
  other tasks out until it is executed and answered. Checkpoints are put off to
  the next tick (`deferred`), in the order they were made.

`pc[t]` is the place of the async function of turn `t`: `queued` and `waiting`
(a self-turn behind other self-turns, then behind the completion it found),
`beginning` (awaits the begin), `streaming` (awaits the runtime), `finishing`
(awaits the finalization), `draining` (the runtime's own turn could not begin and
its iterator is read to its end), `over` and `refused`.

| code | actions |
|---|---|
| `startTurn`, message route | `StartTurn`, `ReceiveBegin` |
| `startSelfTurn`, `startRequestedSelfTurn` | `QueueSelfTurn`, `ReachHead`, `BeginSelfTurn`, `ReceiveBegin`, `DrainEnds` |
| `runTurn`, `runSelfTurn` | `Emit`, `EndTurn`, `FailTurn`, `JoinFinalization`, `LateEvent`, `FinallyBlock` |
| `finishWithDone`, `finishWithError`, `persistDone`, `persistError` | `Finish` (first caller), `Persist`, `ReceiveFinalize` |
| `cancel`, `cancelAndWait`, `scheduleCancelTimeout` | `StopActive`, `CancelAnswered`, `CancelTimeout`, `ForceFinished` |
| `reserveCancellation` | `ReserveCancellation`, `ReservationExpires` |
| `steer` | `Steer`, `SteerSettles` |
| `maybeGenerateTitle` | `TitleArrives` |
| `scheduleEvict` | `Evict` |
| worker thread and client | `RunCall`, `RunDeferred`, `WorkerReady`, `WorkerDies`, `CheckpointRejected` |
| boot in `server.ts` | `Restart`, `DeferredSweep` |

`Execute` runs a call with `TurnStore`'s actions; a transaction that throws is
rolled back by SQLite and leaves the rows alone. `Throws` are the finalizations
the code refuses (no row, another outcome already there, counter at its limit);
with `Faulty` any transaction may fail. A call is decided from the log when it is
made, takes effect later, and its answer may be late or lost. `Spared` are the
turns the deferred sweep leaves alone.

That the rows change only as `TurnStore` allows therefore holds by construction,
and carries the store's theorems over to a running hub (`HubKeepsStore`). What the
hub itself has to get right is `TurnService`, written without any of its
machinery: a set of running turns, a row, a prompt, a verdict and a report for
each. `Open` wants no other turn running; `Send` wants the turn on disk and not
judged; `Judge` happens once, as "cancelled" only for a turn somebody asked to
stop; `Record` writes that judgement and nothing else; `End` tells what is on disk
or nothing; `Abandon` and `Crash` end only turns nobody runs. The refinement
mapping reads `running` from the places of the async functions and the pending
finalization's outcome as the verdict, so `HubImplementsService` says that calls
decided in one state, executed in another and answered in a third add up to that
simple chat.

`stops`, `sent`, `quit` and `told` are history variables for the properties.

### TurnViewer

A step of the hub is also a step of the window: the frames it publishes are
received in that step if the window is connected (a connection that breaks
earlier loses them just the same). `Accepts` is the filter of `onEnvelope`:
only numbers beyond the last accepted one. `Resume` is `resumeForeground` with
the replay the hub still has; `ReadSavedTurn` is what follows a 410.
`TakeSnapshot` is an observer that joins an active turn with the cursor of
`getSnapshot`. The Stop in this composition is another window's; what the
stopping window itself does (`cancelChatAndObserve`) is not modelled yet.

### JobScheduler and ExclusiveWork

A process is one event loop; a handler is one step up to its next `await`, and
between `TickBegin` and `TickEnd` (or `StartNowBegin` and its launch) the process
is in that handler while other processes go on. `lease.live` stands for
`expires_at > now` and is cleared by `LeaseExpires` at any time. `claimed` and
`claim` are `scheduler_execution_claims`, `active` is the in-memory map of the
process that launched the run, and `executing` says whether an agent turn really
goes on, which no process knows for certain: `StartTurn`, `TurnEnds`, `OrphanEnds`.

`jobs` are the rows, `seen[p]` the records that the handler under way in `p` has
read: `tickOnce` lists the due jobs once and `startNow` reads its job, then both
await, and another process may edit, run or delete the job meanwhile. What they
do after the await uses `seen`, as the code does: a launched run takes its range
from the record's cursor, and a tick that finds a job not due writes the next time
it computed from the record. `CanAdvance` is the compare-and-set of the cursor in
`finishRun`, which such a run can lose. `Record` is `finalize`: the result of the
run (`finishRun`) and then the job (`updateFinishedJob`), the second of which may
fail and is only logged.

| code | actions |
|---|---|
| `tickOnce` | `TickBegin`, `TickLaunch`, `TickSkip`, `TickEnd` |
| `startNow` | `StartNowBegin`, `StartNowLaunch`, `StartNowRefused` |
| `launch`, `execute` | `StartFails`, `StartTurn`, `HandleReturned`, `AttachFails`, `Settle`, `Attention` |
| timers | `Timeout`, `Grace` |
| user | `CancelRun`, `DeleteJob`, `PurgeWorkspace`, `EditJob`, `ConfirmStopped`, `TrashWorkspace` |
| process and clock | `Stop`, `Crash`, `Boot`, `LeaseExpires`, `BecomesDue`, `TurnCompleted` |

`ExclusiveWork` is the abstract specification: the set of executions that really
go on, `Begin` only when the job has none and there is room. The refinement
mapping takes `work` from `executing`, the fact the code cannot see.

### AgentRuns and AgentRunDelivery

`row` and `attempts` are the database; `task[a]` is what the coordinator awaits
for an attempt, `live`, `answering` and `deleting` its maps. A claim takes the
lease and creates the attempt in one stretch of the event loop, so a token and
its attempt share a number. `Transitions` is the table of `shared/agentRuns.ts`.
`Start`, `Reclaim`, `Heartbeat` and `LeaseExpires` are the timer and the clock;
`Opened`, `OpenFails`, `SettleIgnored`, `SettleWaiting`, `SettleEnded` and
`SettleRetry` are the continuations of `execute` and `settleOutcome`; `Respond`,
`Answered`, `CancelQueued`, `CancelRow`, `DeleteBegins`, `DeleteEnds` and
`DeleteIdle` the requests; `Shutdown`, `Exit`, `Crash`, `Boot` the process.

`AgentRunDelivery` adds one Watch. Every step of a run that commits an event
makes its process `dirty`, as does boot; `Evaluate` fires the watch by
compare-and-set or takes up a delivery that has no receipt; `Continue`,
`TurnEnds`, `Mark`, `NoParent` and `DeliveryThrows` are the delivery. The turn is
kept by its requested id, which is what `ChatHub` shows of it.

### SessionAcquisition and ClaudeSessions

`pending` and `releases` are the two maps of `PendingSessionAcquisitions`; a
promise is named by the call whose work it is, and the reactions to a settled
promise run in one drain of the microtask queue and are one step (`WorkSettles`).
`ClaudeSessions` supplies what creation and cleanup do: `FindExisting`,
`TakeWarm`, `Evict`, `Reclaim`, `EndSearch`, `NoCapacity`, `Spawn`, `Spawned`,
`SpawnFails`; `ReleaseSession` and `Cleanup`; `Retired`, the end of a disposal,
confirmed or not, and `LateExit`; `WarmStart` to `WarmExpires`.

### CompletionFeed and MemoryExtraction

`CompletionFeed` keeps for every turn its workspace and its number, and a counter
for every workspace. `Complete` numbers a turn, `EndUntold` ends turns that no
reader is told of, `Move` takes turns to another workspace and their numbers
away. `TurnStore` implements it (`StoreImplementsFeed`) with `place` read from the
node, and `number` from the turn once it has an outcome.

`MemoryExtraction` runs on the feed, whose steps (`FeedStep`) interleave with the
consumer of one workspace: `Enroll`, `SwitchOff`; `SwitchOn`, which commits the
mode, and `RestartCursors`, the listener that moves the cursors in a transaction of
its own afterwards, or `LoseListener` when the process ends or the listener throws
in between; `Plan` and `PlanSkips` (`planMemoryExtractionRun`); `ReadSource`, `Propose`, `NoChange` (the
agent's tools); `Settle`, `SettleFails`, `LoseRun`; `SaveMemory`, `RemoveMemory`.
From `JobScheduler` it takes that one execution of the job runs at a time and
that an execution may stop owning its run at any moment. `passed` (the turns an
enrolment or a listener has put behind the cursor) and `settled` are history
variables.

## 3. Runs

The runs of the hub use one chat; chats share nothing in the hub but the
database, and the transactions of different chats commute except for the
completion counter, which `store_rows` covers with two trees and two workspaces.

| run | question | bounds | distinct states |
|---|---|---|---|
| `store_rows` | Do the row invariants survive every order of transactions, and are the rows a completion feed? | 3 turns (two on one node), 2 trees, 2 workspaces, event numbers 0..1, counter to 2 | 214 000 |
| `hub_user` | Are submitted turns cleaned up separately, stopped and steered correctly, and does a Stop free the chat when the runtime never reacts? | 2 turns, one with a Stop, steering and a title, numbers to 5 | 170 000 |
| `hub_self` | Are a submitted, a requested and a runtime turn serial, is a Stop that comes first honoured, and does everybody get a turn when begins may fail? | 3 turns, Stops of turns that have not started, numbers to 3 | 65 000 |
| `hub_crash` | Do rows and reports agree over failing transactions, a worker death, the fallback, a restart and the deferred sweep, and is the hub a `TurnService`? | a submitted turn and a redelivered one, 1 death, 1 crash | 294 000 |
| `view_window` | Does a window or observer always settle, and is what it shows saved? | 2 turns, 1 Stop before its turn streams, 1 death, 1 crash | 78 000 |
| `sched_fencing` | Does fencing hold when the lease expires under its holder? | 2 processes, one one-shot job that consumes turns, 2 runs, 2 generations by expiry, 1 exit, 1 edit, failing writes | 1 847 000 |
| `sched_serve` | Are the claims of the dead reaped, those of the living kept, and due jobs served? | 2 processes, 2 jobs, room for 1, 2 runs, 1 exit | 155 000 |
| `agent_runs` | One result, no eternal lease, one delivery? | 2 processes, 2 attempts, 1 exit, 1 request | 209 000 |
| `session_pool` | Is a session id exclusive over overlapping acquisitions and releases, and does everyone return? | 2 ids, 2 callers, 2 releases of 2 owners, 1 slot, 1 warm session, 2 spawns | 161 000 |
| `memory_extraction` | Was every turn read that the cursor has passed, is what a switch skipped never read, and do removals win? | 2 turns, 2 workspaces, 2 texts, 2 executions, 2 switches, 2 edits, symmetry | 628 000 |
| `stuck_self_turn`, `stop_at_end` | violations, section 6 | 1 or 2 turns | |

Why the bounds suffice for the cases that matter: hazards between turns need a
turn and its successor, so two turns of the kinds involved; the self-turn queue
needs one in front, one behind and a foreground turn that claims the chat, so
three. `Room` keeps numbers for the end of a turn, so that a bound never
stops a turn from ending: with `MaxSeq = 5` two events fit between `turn_start`
and the end, e.g. a Stop and its acknowledgement, or steering and an
output, or a title. With `MaxSeq = 3` none fits: in `hub_self` and `view_window` a
turn starts and ends, which is what these two are about, and only a Stop that comes
before its turn streams can be taken. A Stop of a streaming turn is in `hub_user`
and `stuck_self_turn`, and with a window in `stop_at_end`. One death and one crash reach every state in which a single failure can
strike; the rows are what a second failure would meet, and `TurnStore` (and the
proofs) cover any rows. `store_rows` needs two numbers to tell a stale snapshot
from a newer one, and a counter that reaches its limit.

The scheduler's hazards are between the holder of the lease and the next one, so
two processes and two runs (a lost one and its successor); `sched_fencing` gives
them the same job, `sched_serve` two jobs that compete for one place. A run of an
agent needs an attempt and the one that follows it. `session_pool` has two
owners that dispute one id while a second id competes for the budget. In
`memory_extraction` two turns make a batch that is shorter than the feed, two
executions a lost one and its successor, and two switches an off time.

Larger instances of the same models that were checked once: `agent_runs` with a
lease that runs out although it is renewed (`MaxLapses = 1`, 388 000 states) and
with three attempts (safety); `session_pool` with a contended owner (safety,
952 000 states); `memory_extraction` with three turns (837 000 states with one
text and a counter of 2), with three executions, and with four switches. The
type invariants (`TypeOK`, `HubTypeOK`, `ViewTypeOK`, `SchedTypeOK`,
`DeliveryTypeOK`, `SessionTypeOK`) hold under the same configurations; they are
not among the runs' properties.

`CHECK_DEADLOCK FALSE` is set in all runs but `store_rows`: a turn, run, attempt,
spawn or execution id is used once, so a finite set of them ends in a state in
which everything is idle and nothing is left to do.

Every property of a passing run has a mutant: a bug one could plausibly write at
that place (a dropped guard, a swapped order, a missing reset), defined next to
the operator it replaces, that makes TLC find the property violated.

### Fairness

`HubFairness`: weak fairness of the worker and the synchronous fallback, of the
answers' continuations, of the cancel timer, and of the steps of the self-turn
queue. These are the event loop, `setTimeout` and SQLite. `SteerSettles` is fair
because every adapter bounds its steering request with a timeout (Codex and ACP
requests) or answers at once (Claude). The
runtime itself is **not** fair there: it may hang, which is the point of
`StopFreesChat`. `RuntimeFairness` (every turn given to the
runtime ends, and its drained iterator too) is added only in `hub_self`,
where the question is whether the hub leaves something behind.

`ViewFairSpec`: the hub's own steps and the end of the watched turn, its
eviction timer, a server that ends the response of a turn that is over, and a
window that keeps retrying (`resumeForeground` has a retry loop without a limit
while the backend answers). Connections that break while the turn streams are
not fair: they may or may not happen.

`JobScheduler!FairSpec`: ticks and handlers go on (`tick` rearms its timer in a
`finally`), a timer that is set fires even if the run keeps changing (strong
fairness of `Timeout`), and the lease of a process that is gone runs out. Agent
turns are not fair: a job behind one that never ends counts as served when the
blocked execution is reported.

`FairDeliverySpec`: the recovery timer starts and reclaims runs, sessions open or
fail, agents report (an assumption on the runtime), a lease nobody renews runs out,
evaluations and deliveries proceed. Processes, users and leases that are renewed
are not fair.

`FairSessionSpec`: reactions run, and spawns and disposals end by their own
deadlines. Whether a disposal is confirmed is not fair.

## 4. What is proved

`TurnStoreProofs`, for every set of turns, nodes, trees and workspaces and all
bounds, from `TurnAssumption` (a turn has a node, a node a tree) and
`BoundAssumption`:

* `StoreInvariant`: `Spec => []StoreInv`, with the corollaries `TypeCorrect`,
  `CompletionNumbersUnique`, `NoOrphanSpinner`, `TranscriptInBlocks`;
* `CompletionsAreAhead` and `OutcomesAreFinal`, action properties;
* `StoreIsFeed`: `Spec => StoreImplementsFeed`, i.e. the rows of the store are a
  behaviour of `CompletionFeed`. So what `memory_extraction` shows of a reader on
  the feed applies to the rows.

The invariants are not inductive by themselves. *Completion numbers*: a move
keeps the numbers of a tree that stays in its workspace, so it must be known that
the nodes of a tree are in the tree's workspace (`NodesFollowTree`). *Messages*:
that the rows of a turn are placed behind all others needs the existence of the
next free position (`NextSeqExists`; `NextSeq` is a `CHOOSE`), and that steering
has a place to go to needs that a turn with a receipt has an assistant row
(`RowsWithReceipt`). *Spinner*: a node streams only because of a begin or a
checkpoint, both of which leave their turn active; a finalization, which may end
the last active turn of the node, rewrites the node itself; a sweep rewrites
every streaming node it takes a turn from. *Feed*: a turn that a sweep ends
appears in the feed as ended without a number, which needs that a turn without
an outcome has none (`UnfinishedUnnumbered`); a move is a step of the feed
because all nodes of the tree come from one workspace (`NodesFollowTree`).

`ChatHubProofs`, for every set of turns of each kind and any number of Stops,
deaths and crashes, with `HubAssumption` in addition:

* `HubLeavesNoOrphanSpinner`, `HubOutcomesAreFinal`: what the store promises holds
  below a running hub. They rest on the lemma `HubKeepsStore`, `HubSpec => Spec`,
  which is no result about the hub: its transactions are the store's actions by
  definition, and the invariant (`CallsInv`) only keeps the event numbers within
  the model's bound.

`ChatTurnProofs`, from the same assumptions (`HubAssumption` says among others
that `NoTurn` is not the id of a turn): `TurnsAreSerial` (`OneLiveTurn`),
`SessionIsTheTurns` (`SessionFollowsTurn`), `StreamsEnd` (`NothingAfterEnd`),
`CancellationsWereAsked`, `OutcomesAreDurable` (`DoneIsDurable`), and the two
below that hold under a condition. They rest on one inductive invariant of the
turns, `TurnInv`, and on smaller ones on top of it:

* `TurnInv` says who may still act on a turn at each stage of it. `LogsInv` and
  `ControlInv` tie a log to the loop of its turn. `CallsDiffer` and `CallsFit` say
  that no two begins or finalizations of a turn are under way and that each is
  the one the hub waits for; without them an answer could settle another turn's
  finalization. `QueueInv` says that only the front of the self-turn queue is
  under way. `SerialInv` is the reason why a self-turn never begins beside a
  submitted one: a submitted turn claims the chat before its first `await`, and a
  self-turn that comes to the front meanwhile waits for exactly that claim.
  `SessionInv` adds that a session is only held for a turn that has one.
* `AskedInv`: whatever remembers a Stop (the cancelled ids, the cancel timer, the
  outcome of a log) names a turn that was stopped.
* `DurableInv`: a row is undecided until the final transaction of its turn is
  executed, and from there on row, answer in flight and report agree. This
  needs the store's invariant below the hub (`HubKeepsStore`): outcomes are
  final, and a turn with a receipt has an assistant row, so that steering has
  a place.
* `PromiseInv` carries the refinement `HubKeepsPromises`, `HubSpec =>
  HubImplementsService`. Which turns run, how they were judged and what is on disk
  is not enough to see that a step of the hub is one of `TurnService`: it must be
  known that a turn has its prompt exactly from the place "streaming" on, that the
  row exists when the answer to its begin says so (the answer may be another
  process's begin, resumed), and that a turn that comes to the front is new or is
  a delivery that is resumed. Each group of hub steps is then one service step
  (`SeenOpen`, `SeenAsk`, `SeenJudge`, `SeenQuit`, `SeenEnd`) or unseen (`Unseen`).
  The judgement of a turn and its row are tied by `CallsFit` and `DurableInv`; a
  sweep spares what was sent because such a turn is among the active ones.
* `HoldInv`: no more reservations run than there were Stops, and with one Stop
  the reservation and its timer go together.

Two properties are proved under a condition because they are false without it,
which the proof attempts brought out and TLC confirmed:

* `SteeringIsDurable`: `SteeringIsSaved`, if no deferred sweep is pending.
  `SteeringSavedUnlessSwept` says without a condition what is left: accepted
  steering may be missing only from a turn that is told as an error in a process
  that started with a sweep to do (section 6).
* `SingleStopsAreHonoured`: `StopIsHonoured`, if `MaxStops <= 1`.
  `HeldTurnsAreNotSent` is the same for each turn that was stopped at most once,
  whatever the bound.

`TurnViewerProofs`, with `ViewerAssumption` (the watched turn is a submitted one):
`ShownOutcomesAreSaved`. A step of the window's specification is one of the hub's
or leaves the hub alone (`ViewIsHub`), so the hub's invariants hold. A window
learns an outcome from a live frame, from a replay or from the saved turn; the
first two are events of a log, and `DoneInv` says that a log with a "done" event
has ended and that its outcome is what was told, hence `DoneIsDurable` applies.

`MemoryExtractionProofs`, from `ExtractionAssumption` (finitely many turns and
executions): `NoTurnIsSkipped`, `RestartsAreFinal`, `RemovalsWin`. The
inductive invariant `ReaderInv` relates a batch to its range: numbers and cursor
do not exceed the counter (`NumbersGivenOut`, `CursorGivenOut`), each readable turn
in the range of an active batch is among its sources (`BatchComplete`), and the
turns an enrolment or a listener has passed over have finished and stay behind the
cursor, whatever moves or settles later (`PassedIsBehind`). `BatchComplete` is the
heart: moving the cursor to the end of a batch skips nothing because a later
completion is numbered behind that end. That a batch has a last turn needs the greatest number of a finite set,
which is proved by well-founded induction (the maximum operators of the
libraries have no theorems).

`AgentRunProofs`, from `RunConstants`: `DeliveryTypesHold`, `AtMostOneResult`,
`EndedRunsAreUnleased`, `DeliveredMeansDone`, `ContinuationIsRunOnce`. `OneResult`
is not inductive: a second result is kept out because an attempt that completed
leaves the run without a lease and in no status from which another attempt is
claimed (`ResultIsFenced`), and only a run that is under way is leased
(`LeasedIsUnderWay`). `WatchSafe` adds to `DeliveredIsDone` that a delivery is under
way only for a watch that fired.

`ClaudeSessionsProofs`, from `AcquisitionConstants` and `SessionConstants`:
`BudgetIsKept`, `OneProviderPerId`, `ReleasesAreThorough`, `NoneIsGivenAway`.
`AcquisitionInv` is about the two maps alone: they hold exactly the creations
under way (`CreationsAreMapped`), releases of an id are a chain in the order
of their calls in which each waits for the one before (`NumberedInOrder`,
`LatestIsMapped`, `WaitsForPrevious`), a release that found a creation waits for
it (`WaitsForCreation`), and a failure is handed on until a cleanup repairs it
(`FailuresInherited`, `FailuresRepaired`). `SessionInv` adds who a session belongs
to at every stage of its life, and that the reservations are exactly the spawns
under way (`ReservationsCounted`), from which the budget follows.

`JobSchedulerProofs`, from `SchedulerConstants`: `AdmissionImplementsExclusiveWork`
(the refinement), `NoRunIsLost`, `TurnsAreConsumedOnce`, `OneShotsRunOnce`, and the
action properties `ResultsAreFinal` and `StoppedRunsNeverSucceed`. `ClaimInv`
carries the refinement: every agent turn that goes on has a claim, also when its
process is gone (`TurnsAreClaimed`); claims that processes took are never two of
one job and never more than the limit (`ClaimsExclude`); a run in memory has its
claim (`ActiveIsClaimed`) and the claim of a living process has its run in memory
(`ClaimsAreKnown`), so that reaping and confirming free only what has ended.
`SeenInv` bounds the cursors that handlers have read and not used yet; they may be
of any age, so that no batch is consumed twice and no cursor goes back
(`ResultsAdvance`) rests on the compare-and-set alone. `RowInv` is about what runs
consume: cursors and batches stay behind the turns
there are (`BatchesAreRead`), what was consumed is behind the job's cursor
(`ConsumedIsBehind`), and a one-shot has no more runs, the one to come included,
than times it was set (`OneShotsCounted`).

**Only model-checked.** The liveness properties: `StopFreesChat`,
`SelfTurnsFinish`, `ChatGetsFree`, `WindowSettles`, `DueJobIsServed`, `LeaseEnds`,
`EndIsDelivered`, `CallsEnd` (fairness and `ENABLED` are beyond the prover). The
violations are TLC's as well. Every invariant, action property and refinement of
a passing run is stated by a theorem, with the two conditions above.

## 5. Abstractions

* One chat; at most one steering message and one title per turn; a Stop is
  bounded by `MaxStops`.
* A turn id is submitted once per process. After a restart a send without a row
  may be sent again, and a delivery resumes its turn.
* `MaybeCheckpoint` is a free choice: the interval, the structural events and
  the size rule only decide when a checkpoint is made.
* The restore of a native session before `startTurn` is the guard that keeps a
  second start out; it is I/O otherwise.
* Permission and user-input cards, plans, page and memory context, branch
  overviews, background subscribers and the shutdown marker are not modelled.
* The hub's map of retained logs is the set `retained`; the log of an evicted
  turn is reset unless its own loop still holds it.

* Scheduler: clocks are the environment's; the calendar arithmetic of schedules,
  notifications, maintenance sweeps and the pruning of old run rows (`pruneRuns`)
  are left out. `Record` joins the two writes of `finalize`, which follow each other
  without an await (the second may fail); its failure count is the one of the
  record at that moment. A run with nothing to read ends inside `Launch`, where no
  write fails.
* Agent runs: one run with one Watch of kind "all"; spawning, policies,
  profiles, worktrees and retention are left out.
* Sessions: shutdown, crashes of a process in use, and the choice among warm
  sessions by workspace and model are left out; a slot may be filled or emptied
  at any time.
* Feed and memory: archive and Trash visibility of turns, pauses and token
  budgets (they only keep executions from being planned), and the creation of
  the consumer's job are left out. So are two checks of `memory_propose` that only
  refuse or drop a candidate: the limit of candidates per source, and the one for a
  proposal that is already committed (`extractionTools.ts:187`,
  `extractionRun.ts:343`). The latter never fires in the model: its source turn was
  in an execution that succeeded, and no later batch holds such a turn.

## 6. Findings

1. **A stopped self-turn can block its chat** (`stuck_self_turn`,
   `chatHub.ts:895`). The cancel timeout ends the turn but not its queue place;
   if the runtime hangs, every later message is refused with `turn_active`.
2. **A Stop during the final transaction hides the end from the window**
   (`stop_at_end`, `chatStreamRunner.ts:179`). The terminal event has the lower
   number and comes second, so it is dropped; the window settles only when the
   log has been evicted and the saved turn is read (`WindowSettles` shows that it
   does).

Noticed while modelling, without a run of their own:

* The deferred sweep can end a live turn (`server.ts:461`): a turn whose begin is
  committed but not answered is not among `activeDurableTurnIds()`. It is marked
  as an error, its finalization is refused, and the window is told that the turn
  could not be saved; a steering message it accepted is lost as well. The comment
  of `recoverInterruptedTurns` speaks of turns "left active by a previous
  process". `DoneIsDurable` holds with that sweep (run `hub_crash`).
  The proof of `SteeringIsSaved` brought out a variant in which nobody is told:
  if such a turn streams, accepts steering and then *fails*, its finalization asks
  for the outcome the sweep has already written, `coreFinalizeTurn` returns the
  terminal row without writing anything (`turnPersistence.core.ts:318`), and the
  error is reported as saved although output and accepted steering are not in
  the transcript. `hub_user` with `SweepPending = TRUE` shows it in 12 states.
* A second Stop before the start loses its reservation (`chatHub.ts:857`): every
  reservation starts a timer of its own, and the first timer removes the id while
  the second is still to be kept. `StopIsHonoured` fails with `MaxStops = 2`.
* A begin that commits before the worker dies leaves an active row for a refused
  turn until the next boot (`chatHub.ts:609`); a title applied during the final
  transaction is missing from the terminal snapshot (`chatHub.ts:1632`); a resumed
  requested turn numbers its events from 0 again (`chatHub.ts:1238`).
* A one-shot job that gets a new time during its run is turned off by the end of
  that run (`scheduler.ts:1078`).
* An answer that races a shutdown leaves a run "running" without a lease, which
  the recovery skips (`agentRunAssembly.ts:537`). An outcome that arrives during
  an administrative deletion is dropped, and if the deletion then times out the
  attempt is renewed until the deletion is repeated; `LeaseEnds` excepts it.
  `Reclaim` does not look at `maxAttempts`.
* A session whose spawn failed and whose disposal is not confirmed is forgotten,
  and the next creation of the id may start beside its process
  (`ClaudeSessionManager.ts:254`); `OneProvider` leaves such processes out
  (`Stray`). A session that a reclaim is disposing of can still be handed out, and
  the reservation of a warm session ends just before its pool entry counts.
* `setMemorySettings` commits the mode before its listener moves the cursors
  (`memoryService.ts:275`, `281`). Between the two, or for good when the process
  crashes or the listener throws (which is only logged), the turns of the off time
  can be read, against the comment in `extractionService.ts` ("Conversations from
  while memory was off or explicit-only are never read"). The model has it in five
  steps: the consumer enrols, the mode goes off, a turn completes, the mode is
  committed as auto, and before the listener runs another process plans a batch that
  holds the turn. So no property of the project says what that comment says.
  `PassedIsNeverPicked` says what is left: once a listener has run, nothing it
  passed over is picked.
* `restartExtractionAt` raises a revision that `advanceExtractionCursor` does not
  compare; comparing the cursor suffices, because a batch ends at or before the
  counter that the restart moves to.
* A Stop after the "settled" event of the same turn publishes a second
  "requested" after it, while a test is titled as if the phases were in order
  (`chatHubHarness.test.ts:194`).
* `toObservationSnapshot` takes the last *assigned* number as cursor
  (`chatHub.ts:536`). During the final transaction that covers the terminal
  event which is not published yet; the observer then settles as in finding 2.
* The comment at `turnPersistence.core.ts:279` says a checkpoint is a no-op "if the
  snapshot's seq is not ahead"; the code writes when it is equal. Harmless: the
  write is idempotent.

## 7. Plan

Done: `TurnStore`, `ChatHub` and `TurnViewer`, because every other part reads or
writes turns; then `JobScheduler`, `AgentRuns` with `AgentRunDelivery`,
`SessionAcquisition` with `ClaudeSessions`, and `MemoryExtraction` on
`CompletionFeed`.

Every safety property and refinement of the passing runs is a theorem (section 4).
What is left to prove:

1. type correctness of `ChatHub`, `TurnViewer`, `JobScheduler` and
   `ClaudeSessions` as those modules state it (`HubTypeOK`, `ViewTypeOK`,
   `SchedTypeOK`, `SessionTypeOK`); the proofs use the parts of it that they need;
2. `StopIsHonoured` for a second Stop up to the first timer, i.e. exactly when a
   reservation is lost;
3. `MemoryExtraction` on the rows instead of the feed: the composition of
   `StoreIsFeed` with the theorems about the reader.

Modelling that is left, by weight: workspace sync and background replay in the
window, the window's own Stop, the pane inspection ring, the event queue of the
runtime core, the generations of the database worker's startup, and the
maintenance sweeps of Pages.
