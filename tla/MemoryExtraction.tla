-------------------------- MODULE MemoryExtraction --------------------------
(***************************************************************************)
(* Automatic memory: the consumer of a workspace's completed turns that    *)
(* proposes memories (services/memory/extraction*.ts), on the feed that    *)
(* TurnStore implements, whose steps interleave with everything here.      *)
(*                                                                         *)
(* An execution is planned from the completion feed, its agent reads the   *)
(* source turns and leaves receipts and staged candidates through tools,   *)
(* and settling it commits the candidates and the cursor together.  Between *)
(* these steps turns finish and change workspace, the user switches the    *)
(* mode off and on again, saves and removes memories, and the scheduler    *)
(* loses the run.                                                          *)
(*                                                                         *)
(* One owner and one workspace with a consumer.  The scheduler's part is   *)
(* what JobScheduler shows of it: one execution of the job at a time, and  *)
(* an execution that may stop owning its run at any moment.  Pauses and    *)
(* budgets only keep executions from being planned; tool calls that are    *)
(* refused and runs that are cancelled end like any other failure.  Two    *)
(* checks of memory_propose that only drop or refuse are left out: the     *)
(* limit of candidates per source, and the one for a proposal that is      *)
(* already committed, whose source turn was read by an execution that      *)
(* succeeded and is in no later batch.                                     *)
(***************************************************************************)
EXTENDS CompletionFeed, FiniteSets

CONSTANTS
    Home,          \* the workspace whose turns are consumed
    Bodies,        \* memory texts, as memoryBodyHash tells them apart
    Executions,    \* execution identifiers
    MaxSources,    \* MEMORY_EXTRACTION_LIMITS.maxSourcesPerExecution
    MaxSwitches,   \* bound: mode changes
    MaxEdits,      \* bound: memories saved or removed by the user
    NoSource       \* a memory without a source turn

ASSUME ExtractionAssumption ==
    /\ Home \in Workspaces /\ NoSource \notin Turns
    /\ IsFiniteSet(Turns) /\ IsFiniteSet(Executions)
    /\ MaxSources \in Nat \ {0} /\ MaxSwitches \in Nat /\ MaxEdits \in Nat

VARIABLES
    auto,        \* the owner's memory mode is "auto"
    newer,       \* the workspace was created after enabled_at
    listeners,   \* committed switches to auto whose listener has not run yet
    cursor,      \* memory_extraction_cursors.completion_cursor, NoCursor without a row
    exec,        \* memory_extraction_runs with their sources and candidates
    memories,    \* memories the extraction looks at: active or pending
    tombstones,  \* removals: source turn, body, and the turns completed before
    switches, edits,   \* counters of the bounds
    passed,      \* history: turns a start or restart put behind the cursor
    settled      \* history: turns with a receipt in an execution that succeeded

modeVars == <<auto, newer, listeners, switches>>
memoryVars == <<memories, tombstones, edits>>
readVars == <<passed, settled>>
extractionVars == <<modeVars, cursor, exec, memoryVars, readVars>>
readerVars == <<feedVars, extractionVars>>

NoCursor == -1

NoExecution == [state |-> "unused", owned |-> FALSE, after |-> 0, through |-> 0,
                sources |-> {}, read |-> {}, noChange |-> {}, candidates |-> {}, staged |-> {}]

ExtractionInit ==
    /\ FeedInit
    /\ auto = TRUE /\ newer \in BOOLEAN /\ listeners = 0
    /\ cursor = NoCursor
    /\ exec = [x \in Executions |-> NoExecution]
    /\ memories = {} /\ tombstones = {}
    /\ switches = 0 /\ edits = 0
    /\ passed = {} /\ settled = {}

-----------------------------------------------------------------------------
(* The completion feed (conversationUpdates.ts) *)

Counter == counter[Home]

\* READABLE: the numbered turns of the workspace in a range.
Readable(after, through) ==
    {t \in Turns : place[t] = Home /\ after < number[t] /\ number[t] <= through}

\* The first n turns of the feed behind the cursor, in completion order.
Page(after, n) ==
    {t \in Readable(after, Counter) :
        Cardinality(Readable(after, number[t])) <= n}

Last(S) == CHOOSE q \in {number[t] : t \in S} : \A t \in S : number[t] <= q

\* A step of the store, perhaps on the database worker.
FeedStep == FeedNext /\ UNCHANGED extractionVars

-----------------------------------------------------------------------------
(* Enrolment and the mode (extractionService.ts) *)

\* enrollMemoryExtraction: a workspace older than auto mode starts at its
\* current position, a newer one at its beginning.
StartAt == IF newer THEN 0 ELSE Counter

\* Called from each scheduler tick, and at the end of onSettingsChanged.
Enroll ==
    /\ auto /\ cursor = NoCursor
    /\ cursor' = StartAt
    /\ passed' = passed \cup Readable(0, StartAt)
    /\ UNCHANGED <<feedVars, modeVars, exec, memoryVars, settled>>

\* setMemorySettings to another mode; its run is asked to cancel, which ends it
\* sooner or later like any other loss.
SwitchOff ==
    /\ auto /\ switches < MaxSwitches
    /\ auto' = FALSE
    /\ switches' = switches + 1
    /\ UNCHANGED <<feedVars, newer, listeners, cursor, exec, memoryVars, readVars>>

\* setMemorySettings to auto: the mode is committed first, on its own.
SwitchOn ==
    /\ ~auto /\ switches < MaxSwitches
    /\ auto' = TRUE
    /\ switches' = switches + 1
    /\ listeners' = listeners + 1
    /\ UNCHANGED <<feedVars, newer, cursor, exec, memoryVars, readVars>>

\* restartExtractionAt moves a cursor that is there, and never back.
RestartAt == IF cursor = NoCursor \/ cursor > Counter THEN cursor ELSE Counter

\* onSettingsChanged, after that commit: enabled_at is now and the cursors move.
RestartCursors ==
    /\ listeners > 0
    /\ listeners' = listeners - 1
    /\ newer' = FALSE
    /\ cursor' = RestartAt
    /\ passed' = passed \cup Readable(0, RestartAt)
    /\ UNCHANGED <<feedVars, auto, switches, exec, memoryVars, settled>>

\* The process ends before its listener ran, or the listener throws, which
\* setMemorySettings only logs.
LoseListener ==
    /\ listeners > 0
    /\ listeners' = listeners - 1
    /\ UNCHANGED <<feedVars, auto, newer, switches, cursor, exec, memoryVars, readVars>>

-----------------------------------------------------------------------------
(* Planning (planMemoryExtractionRun) *)

\* Mutant: the batch claims the whole feed it was picked from.
ThroughFeed(picked) == Counter

\* The end of the range a batch answers for: every turn up to it is in the
\* batch or unreadable.
Through(picked) == IF picked = Readable(cursor, Counter) THEN Counter ELSE Last(picked)

\* finishExtractionRun: what a finished execution leaves is only its outcome.
Finished(outcome) == [NoExecution EXCEPT !.state = outcome]

\* failOrphanedExtractionRuns.
OrphansFailed == [y \in Executions |-> IF exec[y].state = "active" THEN Finished("failed") ELSE exec[y]]

\* memoryExtractionHasWork, and the scheduler has no execution of this job.
MayPlan ==
    /\ auto /\ cursor # NoCursor /\ Counter > cursor
    /\ \A y \in Executions : ~exec[y].owned

\* A batch: a prefix of one page, cut by the token budget or after an execution
\* that ran out of it.
Plan(x) ==
    /\ MayPlan /\ exec[x].state = "unused"
    /\ \E n \in 1 .. MaxSources :
          LET picked == Page(cursor, n)
          IN  /\ Cardinality(picked) = n
              /\ exec' = [OrphansFailed EXCEPT ![x] =
                    [NoExecution EXCEPT !.state = "active", !.owned = TRUE, !.after = cursor,
                                        !.through = Through(picked), !.sources = picked]]
    /\ UNCHANGED <<feedVars, modeVars, cursor, memoryVars, readVars>>

\* Nothing readable behind the cursor: it moves past without an execution.
PlanSkips ==
    /\ MayPlan
    /\ Readable(cursor, Counter) = {}
    /\ cursor' = Counter
    /\ exec' = OrphansFailed
    /\ UNCHANGED <<feedVars, modeVars, memoryVars, readVars>>

-----------------------------------------------------------------------------
(* The agent's tools (extractionTools.ts) *)

\* authorize: the execution is active, owns its scheduler run, and the mode is on.
Authorized(x) == exec[x].state = "active" /\ exec[x].owned /\ auto

Decided(e) == e.noChange \cup {c.turn : c \in e.candidates}

\* tombstoneBlocks: a removal from the same source turn, or of the same text
\* after the source turn completed.
TombstoneBlocks(c) == \E d \in tombstones : d.turn = c.turn \/ (d.body = c.body /\ c.turn \in d.before)

FindSameBody(b) == \E m \in memories : m.body = b

\* memory_read_source; a turn that is gone gets its receipt at once.
ReadSource(x, t, gone) ==
    /\ Authorized(x) /\ t \in exec[x].sources \ exec[x].read
    /\ exec' = [exec EXCEPT ![x].read = @ \cup {t},
                            ![x].noChange = IF gone THEN @ \cup {t} ELSE @]
    /\ UNCHANGED <<feedVars, modeVars, cursor, memoryVars, readVars>>

\* memory_propose: staged, or dropped when it is already known to be unwanted.
\* Either is the turn's receipt.
Propose(x, t, b) ==
    LET c == [turn |-> t, body |-> b]
    IN  /\ Authorized(x) /\ t \in exec[x].read \ exec[x].noChange /\ c \notin exec[x].candidates
        /\ exec' = [exec EXCEPT ![x].candidates = @ \cup {c},
                                ![x].staged = IF TombstoneBlocks(c) \/ FindSameBody(b) THEN @ ELSE @ \cup {c}]
        /\ UNCHANGED <<feedVars, modeVars, cursor, memoryVars, readVars>>

\* memory_no_change.
NoChange(x, t) ==
    /\ Authorized(x) /\ t \in exec[x].read \ Decided(exec[x])
    /\ exec' = [exec EXCEPT ![x].noChange = @ \cup {t}]
    /\ UNCHANGED <<feedVars, modeVars, cursor, memoryVars, readVars>>

-----------------------------------------------------------------------------
(* Settling (settleMemoryExtractionRun, failMemoryExtractionRun) *)

\* Mutant: the cursor is written whatever it is now.
CursorUnchecked(x) == TRUE

\* advanceExtractionCursor compares the cursor with the one the batch began at.
CursorHeld(x) == cursor = exec[x].after

\* Mutant: what was staged is committed as it was staged.
StagedUnchecked(x) == exec[x].staged

\* commitCandidate: a removal or a memory that came meanwhile wins.
Committable(x) == {c \in exec[x].staged : ~TombstoneBlocks(c) /\ ~FindSameBody(c.body)}

\* The turn completed, every source has a receipt, the run is still owned: the
\* candidates and the cursor commit together, one candidate for each text.
Settle(x) ==
    /\ exec[x].state = "active" /\ exec[x].owned /\ auto
    /\ exec[x].sources \subseteq Decided(exec[x])
    /\ CursorHeld(x)
    /\ \E C \in SUBSET Committable(x) :
          /\ \A c \in Committable(x) : Cardinality({d \in C : d.body = c.body}) = 1
          /\ memories' = memories \cup C
    /\ cursor' = exec[x].through
    /\ exec' = [exec EXCEPT ![x] = Finished("succeeded")]
    /\ settled' = settled \cup exec[x].sources
    /\ UNCHANGED <<feedVars, modeVars, tombstones, edits, passed>>

\* Every other end that is recorded: the turn failed, was cancelled or timed
\* out, a receipt is missing, the cursor moved, the transaction failed.
SettleFails(x) ==
    /\ exec[x].state = "active" /\ exec[x].owned
    /\ exec' = [exec EXCEPT ![x] = Finished("failed")]
    /\ UNCHANGED <<feedVars, modeVars, cursor, memoryVars, readVars>>

\* The scheduler lost the run or the process ended: nothing is recorded.
LoseRun(x) ==
    /\ exec[x].state = "active" /\ exec[x].owned
    /\ exec' = [exec EXCEPT ![x].owned = FALSE]
    /\ UNCHANGED <<feedVars, modeVars, cursor, memoryVars, readVars>>

-----------------------------------------------------------------------------
(* The user's memories (memoryService.ts) *)

\* createMemory by the user or a chat: no source turn of this feed.
SaveMemory(b) ==
    /\ edits < MaxEdits
    /\ memories' = memories \cup {[turn |-> NoSource, body |-> b]}
    /\ edits' = edits + 1
    /\ UNCHANGED <<feedVars, modeVars, cursor, exec, tombstones, readVars>>

\* deleteMemory or rejectMemory with its hook writeTombstone.
RemoveMemory(m) ==
    /\ m \in memories /\ edits < MaxEdits
    /\ memories' = memories \ {m}
    /\ tombstones' = tombstones \cup
           {[turn |-> m.turn, body |-> m.body, before |-> {t \in Turns : number[t] # Unfinished}]}
    /\ edits' = edits + 1
    /\ UNCHANGED <<feedVars, modeVars, cursor, exec, readVars>>

ExtractionNext ==
    \/ FeedStep
    \/ Enroll \/ SwitchOff \/ SwitchOn \/ RestartCursors \/ LoseListener \/ PlanSkips
    \/ \E x \in Executions :
          \/ Plan(x) \/ Settle(x) \/ SettleFails(x) \/ LoseRun(x)
          \/ \E t \in Turns :
                \/ \E gone \in BOOLEAN : ReadSource(x, t, gone)
                \/ \E b \in Bodies : Propose(x, t, b)
                \/ NoChange(x, t)
    \/ \E b \in Bodies : SaveMemory(b)
    \/ \E m \in memories : RemoveMemory(m)

ExtractionSpec == ExtractionInit /\ [][ExtractionNext]_readerVars

-----------------------------------------------------------------------------
(* Properties *)

\* No finished turn is lost: one that the cursor has passed had a receipt in an
\* execution that succeeded, or finished before the consumer (re)started,
\* whatever failed, was lost, moved or was switched off in between.
NoTurnSkipped ==
    \A t \in Readable(0, cursor) : t \in settled \cup passed

\* "leaving auto mode and returning skips what happened meanwhile"
\* (enrollMemoryExtraction): once the listener of a switch has run, no batch is
\* picked that holds a turn it passed over, although executions planned before
\* the switch settle, fail or are lost after it.
PassedIsNeverPicked ==
    [][\A x \in Executions : (exec'[x].sources \ exec[x].sources) \cap passed = {}]_readerVars

\* "A removal while this execution ran (or before it) wins over the candidate":
\* what the user removed is not proposed again from a turn that had completed
\* by then, although the candidate was staged before the removal.
RemovalWins ==
    [][\A m \in memories' \ memories : m.turn # NoSource => ~TombstoneBlocks(m)]_readerVars
=============================================================================
