---------------------------- MODULE JobScheduler ----------------------------
(***************************************************************************)
(* Scheduled jobs: several backend processes that share one database, each *)
(* with a ScheduledJobScheduler (scheduledJobs/scheduler.ts) on the tables *)
(* of ScheduledJobsRepository (scheduledJobs/repository.ts).               *)
(*                                                                         *)
(* A scheduler_lease row with a generation elects the process that admits  *)
(* runs.  The lease can expire under its holder, so every write of a run   *)
(* is fenced by holder and generation, and an execution claim is kept from *)
(* admission until the execution has really ended: cancelling, timing out, *)
(* deleting the job or losing the lease never frees it.                    *)
(*                                                                         *)
(* A process is one event loop: a handler runs without interruption up to  *)
(* its next await, and processes interleave between database transactions. *)
(* Clocks are abstracted: the lease expires and a job becomes due by       *)
(* actions of the environment.                                             *)
(***************************************************************************)
EXTENDS Integers, FiniteSets

CONSTANTS
    Instances,     \* processes, each with its own holder name and pid
    NoOne,         \* lease holder before the first acquisition
    Jobs,          \* jobs of execution kind "scheduled"
    OneShot,       \* the jobs whose schedule is of kind "at"
    Consumers,     \* the jobs with conversationUpdates
    Trashable,     \* jobs whose workspace may be moved to Trash
    Runs,          \* run identifiers
    MaxConcurrent, \* maxConcurrentRuns
    PauseAfter,    \* SCHEDULED_JOB_LIMITS.autoPauseThreshold
    PageLimit,     \* turns of one conversation batch
    ExitSafe,      \* executor.processExitStopsExecution
    Faulty,        \* database writes may fail
    MaxGen,        \* bound: generations an unforced expiry may lead to
    MaxCounter,    \* bound: completed conversation turns
    MaxExits,      \* bound: processes that stop or crash
    MaxEdits       \* bound: edits, cancellations and deletions by the user

ASSUME SchedulerConstants ==
    /\ NoOne \notin Instances
    /\ IsFiniteSet(Runs)
    /\ OneShot \subseteq Jobs /\ Consumers \subseteq Jobs /\ Trashable \subseteq Jobs
    /\ MaxConcurrent \in Nat \ {0} /\ PauseAfter \in Nat \ {0} /\ PageLimit \in Nat \ {0}
    /\ ExitSafe \in BOOLEAN /\ Faulty \in BOOLEAN
    /\ MaxGen \in Nat /\ MaxCounter \in Nat /\ MaxExits \in Nat /\ MaxEdits \in Nat

VARIABLES
    lease,      \* scheduler_lease: holder, gen, and live (expires_at > now)
    jobs,       \* scheduled_jobs
    runs,       \* scheduled_job_runs
    claimed,    \* runs that have a row in scheduler_execution_claims
    claim,      \* those rows: holder, gen, quarantined
    proc,       \* state of each process
    held,       \* this.lease of each process: its generation, 0 for null
    step,       \* handler a process is in: none, tickOnce's loop or startNow
    seen,       \* the cursors of the job records that handler has read and not used
    active,     \* this.active of the process that launched the run
    executing,  \* runs with an agent turn really going on
    counter,    \* completed conversation turns of the workspace
    trashed,    \* jobs whose workspace is in Trash
    consumed,   \* history: the batches a finished run consumed
    edits, exits  \* counters of the bounds

dbVars   == <<lease, jobs, runs, claimed, claim, consumed>>
memVars  == <<proc, held, step, seen, active>>
envVars  == <<executing, counter, trashed, edits, exits>>
schedVars == <<dbVars, memVars, envVars>>

-----------------------------------------------------------------------------
(* State *)

NoCursor == -1
Unread == -2
Terminal == {"succeeded", "failed", "cancelled", "timed_out", "interrupted"}
Outcomes == {"succeeded", "partial", "failed"}
Phases == {"none", "starting", "begun", "live", "ended"}

Job == [row : BOOLEAN, enabled : BOOLEAN, paused : BOOLEAN, failures : Nat,
        next : {"none", "later", "due"}, cursor : Int, armed : Nat]

Run == [status : {"unused", "running", "deleted"} \cup Terminal, job : Jobs,
        trigger : {"scheduled", "manual"}, attention : BOOLEAN]

Claim == [holder : Instances \cup {NoOne}, gen : Nat, quarantined : BOOLEAN]

ActiveRun == [phase : Phases, owner : Instances \cup {NoOne}, gen : Nat,
              aborted : BOOLEAN, cancelled : BOOLEAN, timedOut : BOOLEAN,
              finalized : BOOLEAN, attention : BOOLEAN,
              after : Int, nextAfter : Int, outcome : Outcomes \cup {"none"}]

NoActive == [phase |-> "none", owner |-> NoOne, gen |-> 0,
             aborted |-> FALSE, cancelled |-> FALSE, timedOut |-> FALSE,
             finalized |-> FALSE, attention |-> FALSE,
             after |-> NoCursor, nextAfter |-> NoCursor, outcome |-> "none"]

NoClaim == [holder |-> NoOne, gen |-> 0, quarantined |-> FALSE]

-----------------------------------------------------------------------------
(* Queries *)

Alive(i) == proc[i] \in {"up", "stopped"}

\* The process may start a handler: it is not between the transactions of one.
Free(i) == Alive(i) /\ step[i] = "idle"

ActiveOf(i) == {r \in Runs : active[r].phase # "none" /\ active[r].owner = i}

\* The run still has the claim its process took for it.
HoldsClaim(r) ==
    /\ r \in claimed
    /\ claim[r].holder = active[r].owner
    /\ claim[r].gen = active[r].gen

OwnsLease(i, gen) == lease.holder = i /\ lease.gen = gen /\ lease.live

OwnsRun(r) ==
    /\ OwnsLease(active[r].owner, active[r].gen)
    /\ HoldsClaim(r)
    /\ runs[r].status = "running"

\* Mutant: a one-shot time stays scheduled until the run is finished.
NextRunAgain(j) == "later"

\* computeNextRun: a one-shot time that has come has no next occurrence.
NextRun(j) == IF j \in OneShot THEN "none" ELSE "later"

Due(j) == jobs[j].row /\ jobs[j].enabled /\ ~jobs[j].paused /\ jobs[j].next = "due"

Unused == {r \in Runs : runs[r].status = "unused"}

DueJobs == {j \in Jobs : Due(j)}

\* The jobs whose record the handler of process i has still to use.
Listed(i) == {j \in Jobs : seen[i][j] # Unread}

NothingRead == [j \in Jobs |-> Unread]

\* A claim of another process or generation, or one that is quarantined.
Unresolved(i, gen) ==
    \E r \in claimed : \/ claim[r].holder # i
                       \/ claim[r].gen # gen
                       \/ claim[r].quarantined

JobRunning(j) ==
    \/ \E r \in Runs : runs[r].job = j /\ runs[r].status = "running"
    \/ \E r \in claimed : runs[r].job = j

\* readConversationUpdates: one bounded page after the cursor.
PageEnd(after) == IF counter > after + PageLimit THEN after + PageLimit ELSE counter
-----------------------------------------------------------------------------
(* Writes.  Each operator below stands for one repository call or helper    *)
(* and is used by the handlers with the other variables left alone.         *)

\* quarantineExecution for the runs of S that still have their claim.
Quarantined(S) ==
    [r \in Runs |-> IF r \in S /\ HoldsClaim(r)
                    THEN [claim[r] EXCEPT !.quarantined = TRUE] ELSE claim[r]]

\* The rows interruptExecution marks, for the runs of S.
Interrupted(S) ==
    [r \in Runs |-> IF r \in S /\ HoldsClaim(r) /\ runs[r].status = "running"
                    THEN [runs[r] EXCEPT !.status = "interrupted"] ELSE runs[r]]

\* requestCancel, and the finalized flag loseOwnership sets, for the runs of S.
Fenced(S) ==
    [r \in Runs |-> IF r \in S
                    THEN [active[r] EXCEPT !.finalized = TRUE, !.aborted = TRUE]
                    ELSE active[r]]

LoseOwnership(S) ==
    /\ active' = Fenced(S)
    /\ claim' = Quarantined(S)
    /\ runs' = Interrupted(S)

\* Mutant: the cursor is set whatever has become of it since it was read.
AdvancesAlways(r) == ~runs[r].attention

\* The compare-and-set of the conversation cursor.
CanAdvance(r) ==
    jobs[runs[r].job].cursor = active[r].after /\ ~runs[r].attention

\* What finishRun leaves as the cursor of the job.
CursorAfter(r, advance) ==
    IF advance THEN active[r].nextAfter ELSE jobs[runs[r].job].cursor

\* A run by the schedule uses up the time of a one-shot job.
Spends(j, trigger) == trigger = "scheduled" /\ j \in OneShot

\* updateFinishedJob for a run that ended; a one-shot job turns itself off.
JobAfter(job, spent, status) ==
    LET failed == status \in {"failed", "timed_out"}
        count  == IF status = "succeeded" THEN 0
                  ELSE IF failed THEN job.failures + 1 ELSE job.failures
    IN  [job EXCEPT !.failures = count,
                    !.paused   = @ \/ (failed /\ count >= PauseAfter),
                    !.enabled  = @ /\ ~spent,
                    !.next     = IF spent THEN "none" ELSE @]

\* finalize of a run whose ownership holds: finishRun, then the update of the
\* job, a second write that may fail (its error is only logged).
Record(r, status, consume) ==
    LET j       == runs[r].job
        advance == consume /\ CanAdvance(r)
        final   == IF consume /\ ~advance THEN "failed" ELSE status
        job     == [jobs[j] EXCEPT !.cursor = CursorAfter(r, advance)]
    IN  /\ runs' = [runs EXCEPT ![r].status = final]
        /\ \/ jobs' = [jobs EXCEPT ![j] = JobAfter(job, Spends(j, runs[r].trigger), final)]
           \/ Faulty /\ jobs' = [jobs EXCEPT ![j] = job]
        /\ consumed' = IF advance /\ active[r].nextAfter > active[r].after
                       THEN consumed \cup {[job |-> j, run |-> r,
                              after |-> active[r].after, nextAfter |-> active[r].nextAfter]}
                       ELSE consumed

\* Mutant: ownership is not checked before the result is written.
FinalizeUnfenced(r, status, consume) ==
    \/ /\ active[r].finalized
       /\ UNCHANGED <<runs, jobs, consumed>>
    \/ /\ ~active[r].finalized
       /\ Record(r, status, consume)

\* finalize: once per run; a run that is no longer owned is only interrupted;
\* a failed write is logged and leaves the row as it is.
Finalize(r, status, consume) ==
    \/ /\ active[r].finalized
       /\ UNCHANGED <<runs, jobs, consumed>>
    \/ /\ ~active[r].finalized /\ ~OwnsRun(r)
       /\ runs' = Interrupted({r})
       /\ UNCHANGED <<jobs, consumed>>
    \/ /\ ~active[r].finalized /\ OwnsRun(r)
       /\ \/ Record(r, status, consume)
          \/ Faulty /\ UNCHANGED <<runs, jobs, consumed>>

\* releaseEndedExecution: the execution is known to have ended.  When the row
\* cannot be deleted the run waits for the next tick.
Release(r) ==
    \/ /\ claimed' = IF HoldsClaim(r) THEN claimed \ {r} ELSE claimed
       /\ claim'   = IF HoldsClaim(r) THEN [claim EXCEPT ![r] = NoClaim] ELSE claim
       /\ active'  = [active EXCEPT ![r] = NoActive]
    \/ /\ Faulty
       /\ claim'   = Quarantined({r})
       /\ active'  = [active EXCEPT ![r].phase = "ended", ![r].finalized = TRUE]
       /\ UNCHANGED claimed
-----------------------------------------------------------------------------
(* Ownership: acquireOwnership.  "ended" are the runs whose claim the tick  *)
(* has just released.                                                       *)

KeptClaims(ended) == claimed \ {r \in ended : HoldsClaim(r)}

\* Another process holds an unexpired lease: whatever this one runs is lost.
LeaseRefused(i, ended) ==
    LET lost == ActiveOf(i) \ ended
    IN  /\ lease.holder # i /\ lease.live
        /\ held' = [held EXCEPT ![i] = 0]
        /\ active' = [r \in Runs |-> IF r \in ended THEN NoActive ELSE Fenced(lost)[r]]
        /\ claimed' = KeptClaims(ended)
        /\ claim' = [r \in Runs |-> IF r \in claimed \ KeptClaims(ended)
                                    THEN NoClaim ELSE Quarantined(lost)[r]]
        /\ runs' = Interrupted(lost)
        /\ UNCHANGED lease

\* interruptStaleRuns: rows recorded as running without a claim of this lease.
\* Mutant: rows without any claim are left as they are.
StaleRunsClaimed(mine) == {r \in claimed : runs[r].status = "running"} \ mine

StaleRuns(mine) == {r \in Runs : runs[r].status = "running"} \ mine

\* reapExitedExecutions: claims of processes that are gone and whose exit is
\* known to have ended their executions.
\* Mutant: the process of the claim is not looked up.
ExitedAny(i, S) == {r \in S : ExitSafe /\ claim[r].gen # 0 /\ claim[r].holder # i}

Exited(i, S) ==
    {r \in S : /\ ExitSafe /\ claim[r].gen # 0
               /\ claim[r].holder # i /\ ~Alive(claim[r].holder)}

\* acquireLease, loseOwnership of the runs of an older generation,
\* interruptStaleRuns and reapExitedExecutions.
LeaseAcquired(i, ended) ==
    LET gen     == IF lease.holder = i /\ lease.live THEN lease.gen ELSE lease.gen + 1
        lost    == IF held[i] \in {0, gen} THEN {} ELSE ActiveOf(i) \ ended
        kept    == KeptClaims(ended)
        mine    == {r \in kept : claim[r].holder = i /\ claim[r].gen = gen}
        stale   == StaleRuns(mine)
        strays  == stale \ kept
    IN  /\ lease.holder = i \/ ~lease.live
        /\ lease' = [holder |-> i, gen |-> gen, live |-> TRUE]
        /\ held' = [held EXCEPT ![i] = gen]
        /\ active' = [r \in Runs |-> IF r \in ended THEN NoActive ELSE Fenced(lost)[r]]
        /\ runs' = [r \in Runs |-> IF r \in stale
                                   THEN [runs[r] EXCEPT !.status = "interrupted"]
                                   ELSE runs[r]]
        \* A reused pid keeps a claim, so any part of the exited ones is reaped.
        /\ \E reaped \in SUBSET Exited(i, kept \ mine) :
             /\ claimed' = (kept \cup strays) \ reaped
             /\ claim' = [r \in Runs |->
                   IF r \in strays THEN [NoClaim EXCEPT !.quarantined = TRUE]
                   ELSE IF r \notin kept \/ r \in reaped THEN NoClaim
                   ELSE IF r \in mine THEN claim[r]
                   ELSE [claim[r] EXCEPT !.quarantined = TRUE]]

\* The lease of this handler, as claimRun finds it at the handler's own "now".
StillHolder(i) == lease.holder = i /\ lease.gen = held[i]

-----------------------------------------------------------------------------
(* Admission *)

\* claimRun finds nothing against a run of job j.
Admits(i, j) ==
    /\ StillHolder(i)
    /\ jobs[j].row
    /\ ~Unresolved(i, held[i])
    /\ ~JobRunning(j)
    /\ Cardinality(claimed) < MaxConcurrent

\* launch: the claim and the run row of one transaction, then the part of
\* execute before its first await.  It reads after the cursor of the record the
\* handler has, which another process may have changed since.  A consumer with
\* nothing new to read is finished there, without an executor and without a
\* claim left.
Launch(i, j, r, trigger) ==
    LET after == seen[i][j]
        empty == after # NoCursor /\ PageEnd(after) = after
        job   == [jobs[j] EXCEPT !.next = IF trigger = "scheduled" THEN NextRun(j) ELSE @]
        row   == [status |-> "running", job |-> j, trigger |-> trigger, attention |-> FALSE]
        end   == IF ~lease.live THEN "interrupted"
                 ELSE IF jobs[j].cursor = after THEN "succeeded" ELSE "failed"
    IN  /\ Admits(i, j)
        /\ r \in Unused
        /\ \/ /\ ~empty
              /\ runs' = [runs EXCEPT ![r] = row]
              /\ jobs' = [jobs EXCEPT ![j] = job]
              /\ claimed' = claimed \cup {r}
              /\ claim' = [claim EXCEPT ![r] =
                             [holder |-> i, gen |-> held[i], quarantined |-> FALSE]]
              /\ active' = [active EXCEPT ![r] =
                             [NoActive EXCEPT !.phase = "starting", !.owner = i, !.gen = held[i],
                                              !.after = after,
                                              !.nextAfter = IF after = NoCursor THEN NoCursor
                                                            ELSE PageEnd(after)]]
           \/ /\ empty
              /\ runs' = [runs EXCEPT ![r] = [row EXCEPT !.status = end]]
              /\ jobs' = [jobs EXCEPT ![j] = IF lease.live THEN JobAfter(job, Spends(j, trigger), end)
                                             ELSE job]
              /\ UNCHANGED <<claimed, claim, active>>
        /\ UNCHANGED <<lease, consumed, proc, held, envVars>>

\* tickOnce up to its loop, which goes over the due jobs as they are read here.
TickBegin(i) ==
    LET ended == {r \in ActiveOf(i) : active[r].phase = "ended"}
    IN  /\ proc[i] = "up" /\ Free(i)
        /\ \/ /\ LeaseAcquired(i, ended)
              /\ step' = [step EXCEPT ![i] = "sweep"]
              /\ seen' = [seen EXCEPT ![i] = [j \in Jobs |-> IF Due(j) THEN jobs[j].cursor ELSE Unread]]
           \/ LeaseRefused(i, ended) /\ UNCHANGED <<step, seen>>
        /\ UNCHANGED <<jobs, consumed, proc, envVars>>

TickLaunch(i, j, r) ==
    /\ step[i] = "sweep" /\ j \in Listed(i)
    /\ Due(j) /\ j \notin trashed
    /\ Cardinality(ActiveOf(i)) < MaxConcurrent
    /\ Launch(i, j, r, "scheduled")
    /\ seen' = [seen EXCEPT ![i][j] = Unread]
    /\ UNCHANGED step

\* A job in Trash (or held by the assistant's guard, with the same effect), one
\* that is no longer due, and one that still runs lose this occurrence.
TickSkip(i, j) ==
    /\ step[i] = "sweep" /\ j \in Listed(i)
    /\ Cardinality(ActiveOf(i)) < MaxConcurrent
    /\ \/ j \in trashed
       \/ StillHolder(i) /\ ~Due(j)
       \/ StillHolder(i) /\ ~Unresolved(i, held[i]) /\ JobRunning(j)
    /\ jobs' = [jobs EXCEPT ![j].next = IF jobs[j].row THEN NextRun(j) ELSE @]
    /\ seen' = [seen EXCEPT ![i][j] = Unread]
    /\ UNCHANGED <<lease, runs, claimed, claim, consumed, proc, held, step, active, envVars>>

\* The loop ends with no job left, no room, or an admission that is refused.
TickEnd(i) ==
    /\ step[i] = "sweep"
    /\ \/ Listed(i) = {}
       \/ Cardinality(ActiveOf(i)) >= MaxConcurrent
       \/ \E j \in Listed(i) \ trashed :
             \/ ~StillHolder(i)
             \/ Due(j) /\ Unresolved(i, held[i])
             \/ Due(j) /\ ~JobRunning(j) /\ Cardinality(claimed) >= MaxConcurrent
    /\ step' = [step EXCEPT ![i] = "idle"]
    /\ seen' = [seen EXCEPT ![i] = NothingRead]
    /\ UNCHANGED <<dbVars, proc, held, active, envVars>>

\* startNow up to its claimRun, by the user: the record of the job is read
\* before the lease is asked for.
StartNowBegin(i, j) ==
    /\ proc[i] = "up" /\ Free(i)
    /\ jobs[j].row /\ j \notin trashed
    /\ edits < MaxEdits /\ Cardinality(Unused) > Cardinality(DueJobs)
    /\ \/ /\ LeaseAcquired(i, {})
          /\ step' = [step EXCEPT ![i] = "now"]
          /\ seen' = [seen EXCEPT ![i][j] = jobs[j].cursor]
       \/ LeaseRefused(i, {}) /\ UNCHANGED <<step, seen>>
    /\ edits' = edits + 1
    /\ UNCHANGED <<jobs, consumed, proc, executing, counter, trashed, exits>>

StartNowLaunch(i, j, r) ==
    /\ step[i] = "now" /\ j \in Listed(i)
    /\ Cardinality(Unused) > Cardinality(DueJobs)
    /\ Launch(i, j, r, "manual")
    /\ step' = [step EXCEPT ![i] = "idle"]
    /\ seen' = [seen EXCEPT ![i] = NothingRead]

StartNowRefused(i) ==
    /\ step[i] = "now"
    /\ \/ \E j \in Listed(i) : ~Admits(i, j)
       \/ Cardinality(Unused) <= Cardinality(DueJobs)
    /\ step' = [step EXCEPT ![i] = "idle"]
    /\ seen' = [seen EXCEPT ![i] = NothingRead]
    /\ UNCHANGED <<dbVars, proc, held, active, envVars>>
-----------------------------------------------------------------------------
(* Execution of a run: execute, and the executor it drives                  *)

\* A continuation of run r can run: its process is alive and between handlers.
Running(r, phases) ==
    /\ active[r].phase \in phases
    /\ Free(active[r].owner)

\* isCurrent, which the executor asserts after every await of its start.
IsCurrent(r) == ~active[r].finalized /\ ~active[r].aborted /\ OwnsRun(r)

\* Mutant: the cancelled flag is not looked at.
StopStatusLate(r, otherwise) ==
    IF active[r].timedOut THEN "timed_out" ELSE otherwise

\* What the outcome of execute is called when the run was stopped.
StopStatus(r, otherwise) ==
    IF active[r].timedOut THEN "timed_out"
    ELSE IF active[r].cancelled THEN "cancelled" ELSE otherwise

\* executor.start rejects: nothing it began is left.
StartFails(r) ==
    /\ Running(r, {"starting"})
    /\ Finalize(r, StopStatus(r, "failed"), FALSE)
    /\ Release(r)
    /\ UNCHANGED <<lease, proc, held, step, seen, envVars>>

\* The executor starts the agent turn, after its last check.
StartTurn(r) ==
    /\ Running(r, {"starting"})
    /\ IsCurrent(r)
    /\ executing' = executing \cup {r}
    /\ active' = [active EXCEPT ![r].phase = "begun"]
    /\ UNCHANGED <<dbVars, proc, held, step, seen, counter, trashed, edits, exits>>

\* executor.start resolves: the run is attached to its target, unless it was
\* stopped or lost meanwhile; then its turn is cancelled.
HandleReturned(r) ==
    LET live == [active EXCEPT ![r].phase = "live"]
    IN  /\ Running(r, {"begun"})
        /\ \/ /\ active[r].finalized \/ OwnsRun(r)
              /\ active' = live
              /\ UNCHANGED <<runs, claim>>
           \/ /\ ~active[r].finalized /\ ~OwnsRun(r)
              /\ active' = [live EXCEPT ![r].finalized = TRUE, ![r].aborted = TRUE]
              /\ claim' = Quarantined({r})
              /\ runs' = Interrupted({r})
        /\ UNCHANGED <<lease, jobs, claimed, consumed, proc, held, step, seen, envVars>>

\* attachRunTarget throws: the turn is cancelled and the run failed, and the
\* claim waits for the turn.
AttachFails(r) ==
    /\ Faulty
    /\ Running(r, {"begun"})
    /\ IsCurrent(r)
    /\ active' = [active EXCEPT ![r].phase = "live", ![r].finalized = TRUE, ![r].aborted = TRUE]
    /\ claim' = Quarantined({r})
    /\ Finalize(r, "failed", FALSE)
    /\ UNCHANGED <<lease, claimed, proc, held, step, seen, envVars>>

\* The agent turn ends (a turn that is cancelled counts as failed); execute
\* sees it when the handle is there.
TurnEnds(r, outcome) ==
    /\ r \in executing
    /\ active[r].phase \in {"begun", "live"}
    /\ outcome = "partial" => active[r].after # NoCursor
    /\ executing' = executing \ {r}
    /\ active' = [active EXCEPT ![r].outcome = outcome]
    /\ UNCHANGED <<dbVars, proc, held, step, seen, counter, trashed, edits, exits>>

\* The turn of a process that is gone ends by itself.
OrphanEnds(r) ==
    /\ r \in executing
    /\ active[r].phase = "none"
    /\ executing' = executing \ {r}
    /\ UNCHANGED <<dbVars, memVars, counter, trashed, edits, exits>>

\* execute after "await done": a batch counts as consumed only when all of it
\* was confirmed and nobody was asked for help.
Settle(r) ==
    LET a       == active[r]
        batch   == a.after # NoCursor
        whole   == a.outcome = "succeeded" /\ ~a.attention
        outcome == IF a.outcome = "failed" THEN "failed"
                   ELSE IF batch /\ ~whole THEN "failed" ELSE "succeeded"
        status  == StopStatus(r, outcome)
    IN  /\ Running(r, {"live"})
        /\ a.outcome # "none"
        /\ Finalize(r, status, batch /\ status = "succeeded")
        /\ Release(r)
        /\ UNCHANGED <<lease, proc, held, step, seen, envVars>>

\* onAttention: the turn asks for an approval or an input.
Attention(r) ==
    /\ Running(r, {"begun", "live"})
    /\ r \in executing
    /\ ~active[r].finalized /\ ~active[r].attention
    /\ \/ /\ OwnsRun(r)
          /\ active' = [active EXCEPT ![r].attention = TRUE]
          /\ runs' = [runs EXCEPT ![r].attention = TRUE]
          /\ UNCHANGED claim
       \/ /\ ~OwnsRun(r)
          /\ LoseOwnership({r})
    /\ UNCHANGED <<lease, jobs, claimed, consumed, proc, held, step, seen, envVars>>

\* Mutant: the claim is not quarantined when the time is over.
TimeoutUnreported(r) ==
    /\ Running(r, {"starting", "begun", "live"})
    /\ ~active[r].finalized /\ ~active[r].timedOut
    /\ active' = [active EXCEPT ![r].timedOut = TRUE, ![r].aborted = TRUE]
    /\ UNCHANGED <<lease, jobs, runs, claimed, claim, consumed, proc, held, step, seen, envVars>>

\* The timeout timer of execute.
Timeout(r) ==
    /\ Running(r, {"starting", "begun", "live"})
    /\ ~active[r].finalized /\ ~active[r].timedOut
    /\ active' = [active EXCEPT ![r].timedOut = TRUE, ![r].aborted = TRUE]
    /\ claim' = Quarantined({r})
    /\ UNCHANGED <<lease, jobs, runs, claimed, consumed, proc, held, step, seen, envVars>>

\* Mutant: the claim goes with the row of a timed-out run.
GraceReleases(r) ==
    /\ Running(r, {"starting", "begun", "live"})
    /\ active[r].timedOut /\ ~active[r].finalized
    /\ Finalize(r, "timed_out", FALSE)
    /\ active' = Fenced({r})
    /\ claimed' = claimed \ {r}
    /\ claim' = [claim EXCEPT ![r] = NoClaim]
    /\ UNCHANGED <<lease, proc, held, step, seen, envVars>>

\* The grace timer it sets: the row is finished, the claim is kept.
Grace(r) ==
    /\ Running(r, {"starting", "begun", "live"})
    /\ active[r].timedOut /\ ~active[r].finalized
    /\ Finalize(r, "timed_out", FALSE)
    /\ active' = Fenced({r})
    /\ claim' = Quarantined({r})
    /\ UNCHANGED <<lease, claimed, proc, held, step, seen, envVars>>

-----------------------------------------------------------------------------
(* Controls of the user, in some process                                    *)

Edit == edits < MaxEdits /\ edits' = edits + 1

\* cancelActiveRun.
CancelRun(i, j) ==
    LET hit == {r \in ActiveOf(i) : runs[r].job = j /\ ~active[r].finalized}
    IN  /\ Edit /\ Free(i) /\ hit # {}
        /\ active' = [r \in Runs |-> IF r \in hit
                         THEN [active[r] EXCEPT !.cancelled = TRUE, !.aborted = TRUE]
                         ELSE active[r]]
        /\ claim' = Quarantined(hit)
        /\ UNCHANGED <<lease, jobs, runs, claimed, consumed, proc, held, step, seen,
                       executing, counter, trashed, exits>>

\* The rows that go with a job row; its claims stay.
Deleted(j) ==
    [r \in Runs |-> IF runs[r].job = j /\ runs[r].status # "unused"
                    THEN [runs[r] EXCEPT !.status = "deleted"] ELSE runs[r]]

\* deleteJob.
DeleteJob(i, j) ==
    LET hit == {r \in ActiveOf(i) : runs[r].job = j}
    IN  /\ Edit /\ Free(i) /\ jobs[j].row
        /\ active' = [r \in Runs |-> IF r \in hit
                         THEN [active[r] EXCEPT !.cancelled = TRUE, !.aborted = TRUE,
                                                !.finalized = TRUE]
                         ELSE active[r]]
        /\ claim' = Quarantined(hit)
        /\ jobs' = [jobs EXCEPT ![j].row = FALSE]
        /\ runs' = Deleted(j)
        /\ UNCHANGED <<lease, claimed, consumed, proc, held, step, seen,
                       executing, counter, trashed, exits>>

\* purgeScheduledJobsForWorkspace: only cancels before the rows go.
PurgeWorkspace(i, j) ==
    LET hit == {r \in ActiveOf(i) : runs[r].job = j /\ ~active[r].finalized}
    IN  /\ Edit /\ Free(i) /\ jobs[j].row
        /\ active' = [r \in Runs |-> IF r \in hit
                         THEN [active[r] EXCEPT !.cancelled = TRUE, !.aborted = TRUE]
                         ELSE active[r]]
        /\ jobs' = [jobs EXCEPT ![j].row = FALSE]
        /\ runs' = Deleted(j)
        /\ UNCHANGED <<lease, claimed, claim, consumed, proc, held, step, seen,
                       executing, counter, trashed, exits>>

\* updateJob: off, on again (or with a new time), and the conversation consumer,
\* which cannot change while a run of the job is recorded as running.
EditJob(j) ==
    /\ Edit /\ jobs[j].row
    /\ \/ /\ jobs[j].enabled
          /\ jobs' = [jobs EXCEPT ![j].enabled = FALSE, ![j].next = "none"]
       \/ /\ ~jobs[j].enabled \/ jobs[j].paused
          /\ jobs' = [jobs EXCEPT ![j].enabled = TRUE, ![j].paused = FALSE, ![j].failures = 0,
                                  ![j].next = "later", ![j].armed = @ + 1]
       \/ /\ jobs[j].enabled /\ ~jobs[j].paused
          /\ jobs' = [jobs EXCEPT ![j].next = "later", ![j].armed = @ + 1]
       \/ /\ j \in Consumers
          /\ \A r \in Runs : runs[r].job = j => runs[r].status # "running"
          /\ jobs' = [jobs EXCEPT ![j].cursor = IF @ = NoCursor THEN counter ELSE NoCursor]
    /\ UNCHANGED <<lease, runs, claimed, claim, consumed, memVars,
                   executing, counter, trashed, exits>>

\* confirmExecutionStopped: the process of the claim is gone and the user
\* confirms that its agent has stopped.
ConfirmStopped(r) ==
    /\ Edit
    /\ r \in claimed /\ claim[r].quarantined
    /\ claim[r].gen # 0 => ~Alive(claim[r].holder)
    /\ r \notin executing
    /\ claimed' = claimed \ {r}
    /\ claim' = [claim EXCEPT ![r] = NoClaim]
    /\ UNCHANGED <<lease, jobs, runs, consumed, memVars, executing, counter, trashed, exits>>
-----------------------------------------------------------------------------
(* Processes and the environment                                            *)

\* stop(): every run of the process is recorded as interrupted, asked to
\* cancel and quarantined; the lease is given up, the claims are not.
Stop(i) ==
    LET mine == ActiveOf(i)
        open == {r \in mine : ~active[r].finalized}
        spent(j) == \E r \in open : /\ OwnsRun(r) /\ runs[r].job = j
                                    /\ j \in OneShot /\ runs[r].trigger = "scheduled"
    IN  /\ proc[i] = "up" /\ Free(i)
        /\ exits < MaxExits /\ exits' = exits + 1
        /\ proc' = [proc EXCEPT ![i] = "stopped"]
        /\ runs' = Interrupted(open)
        /\ jobs' = [j \in Jobs |-> IF spent(j) THEN [jobs[j] EXCEPT !.enabled = FALSE, !.next = "none"]
                                   ELSE jobs[j]]
        /\ active' = Fenced(mine)
        /\ claim' = Quarantined(mine)
        /\ lease' = IF held[i] # 0 /\ StillHolder(i) THEN [lease EXCEPT !.live = FALSE] ELSE lease
        /\ held' = [held EXCEPT ![i] = 0]
        /\ UNCHANGED <<claimed, consumed, step, seen, executing, counter, trashed, edits>>

\* The process is gone, and with it its memory.  What it had running outside
\* goes on, unless the executor lives inside the process.
Crash(i) ==
    /\ Alive(i)
    /\ proc[i] = "up" => exits < MaxExits
    /\ exits' = IF proc[i] = "up" THEN exits + 1 ELSE exits
    /\ proc' = [proc EXCEPT ![i] = "dead"]
    /\ held' = [held EXCEPT ![i] = 0]
    /\ step' = [step EXCEPT ![i] = "idle"]
    /\ seen' = [seen EXCEPT ![i] = NothingRead]
    /\ active' = [r \in Runs |-> IF r \in ActiveOf(i) THEN NoActive ELSE active[r]]
    /\ executing' = IF ExitSafe THEN executing \ ActiveOf(i) ELSE executing
    /\ UNCHANGED <<dbVars, counter, trashed, edits>>

\* start() of a process; its pid and holder name are new.
Boot(i) ==
    /\ proc[i] = "off"
    /\ proc' = [proc EXCEPT ![i] = "up"]
    /\ UNCHANGED <<dbVars, held, step, seen, active, envVars>>

\* The holder did not renew the lease in time: it is gone, or was too slow.
LeaseExpires ==
    /\ lease.live
    /\ lease.gen < MaxGen \/ ~Alive(lease.holder)
    /\ lease' = [lease EXCEPT !.live = FALSE]
    /\ UNCHANGED <<jobs, runs, claimed, claim, consumed, memVars, envVars>>

\* The due time of a job comes; bounded by the run identifiers left.
BecomesDue(j) ==
    /\ jobs[j].row /\ jobs[j].next = "later"
    /\ Cardinality(Unused) > Cardinality(DueJobs)
    /\ jobs' = [jobs EXCEPT ![j].next = "due"]
    /\ UNCHANGED <<lease, runs, claimed, claim, consumed, memVars, envVars>>

\* A conversation turn of the workspace completes.
TurnCompleted ==
    /\ counter < MaxCounter
    /\ counter' = counter + 1
    /\ UNCHANGED <<dbVars, memVars, executing, trashed, edits, exits>>

\* The workspace of a job is moved to Trash.
TrashWorkspace(j) ==
    /\ j \in Trashable \ trashed
    /\ trashed' = trashed \cup {j}
    /\ UNCHANGED <<dbVars, memVars, executing, counter, edits, exits>>

-----------------------------------------------------------------------------
Init ==
    /\ lease = [holder |-> NoOne, gen |-> 0, live |-> FALSE]
    /\ jobs = [j \in Jobs |-> [row |-> TRUE, enabled |-> TRUE, paused |-> FALSE, failures |-> 0,
                               next |-> "later", armed |-> 1,
                               cursor |-> IF j \in Consumers THEN 0 ELSE NoCursor]]
    /\ runs \in [Runs -> {[status |-> "unused", job |-> CHOOSE j \in Jobs : TRUE,
                           trigger |-> "manual", attention |-> FALSE]}]
    /\ claimed = {} /\ claim = [r \in Runs |-> NoClaim]
    /\ proc = [i \in Instances |-> "off"]
    /\ held = [i \in Instances |-> 0]
    /\ step = [i \in Instances |-> "idle"]
    /\ seen = [i \in Instances |-> NothingRead]
    /\ active = [r \in Runs |-> NoActive]
    /\ executing = {} /\ counter = 0 /\ trashed = {} /\ consumed = {}
    /\ edits = 0 /\ exits = 0

\* Timer-driven and event-loop steps of one process.
TickStep(i) ==
    \/ TickBegin(i)
    \/ TickEnd(i)
    \/ \E j \in Jobs : TickSkip(i, j)
    \/ \E j \in Jobs, r \in Runs : TickLaunch(i, j, r)

StartNowStep(i) ==
    \/ StartNowRefused(i)
    \/ \E j \in Jobs, r \in Runs : StartNowLaunch(i, j, r)

ExecuteStep(r) ==
    \/ StartFails(r)
    \/ StartTurn(r)
    \/ HandleReturned(r)
    \/ AttachFails(r)
    \/ Settle(r)
    \/ Attention(r)
    \/ Timeout(r)
    \/ Grace(r)
    \/ OrphanEnds(r)
    \/ \E outcome \in Outcomes : TurnEnds(r, outcome)

UserStep ==
    \/ \E i \in Instances, j \in Jobs : StartNowBegin(i, j)
    \/ \E i \in Instances, j \in Jobs : CancelRun(i, j)
    \/ \E i \in Instances, j \in Jobs : DeleteJob(i, j)
    \/ \E i \in Instances, j \in Jobs : PurgeWorkspace(i, j)
    \/ \E j \in Jobs : EditJob(j)
    \/ \E r \in Runs : ConfirmStopped(r)

WorldStep ==
    \/ \E i \in Instances : Boot(i)
    \/ \E i \in Instances : Stop(i)
    \/ \E i \in Instances : Crash(i)
    \/ LeaseExpires
    \/ TurnCompleted
    \/ \E j \in Jobs : BecomesDue(j)
    \/ \E j \in Jobs : TrashWorkspace(j)

Next ==
    \/ \E i \in Instances : TickStep(i)
    \/ \E i \in Instances : StartNowStep(i)
    \/ \E r \in Runs : ExecuteStep(r)
    \/ UserStep
    \/ WorldStep

Spec == Init /\ [][Next]_schedVars

(* Fairness: the tick timer is always rearmed, handlers run to their end,   *)
(* the timeout timer fires, and the lease of a process that is gone runs    *)
(* out.  Nothing is assumed of executors, users, or agent turns.            *)
Fairness ==
    /\ \A i \in Instances : WF_schedVars(TickStep(i)) /\ WF_schedVars(StartNowStep(i))
    /\ \A r \in Runs : SF_schedVars(Timeout(r))
    /\ WF_schedVars(LeaseExpires /\ ~Alive(lease.holder))

FairSpec == Spec /\ Fairness

-----------------------------------------------------------------------------
(* Properties *)

\* Every variable stays in its type.
SchedTypeOK ==
    /\ lease \in [holder : Instances \cup {NoOne}, gen : Nat, live : BOOLEAN]
    /\ jobs \in [Jobs -> Job]
    /\ runs \in [Runs -> Run]
    /\ claimed \subseteq Runs /\ claim \in [Runs -> Claim]
    /\ proc \in [Instances -> {"off", "up", "stopped", "dead"}]
    /\ held \in [Instances -> Nat]
    /\ step \in [Instances -> {"idle", "sweep", "now"}]
    /\ seen \in [Instances -> [Jobs -> Int]]
    /\ active \in [Runs -> ActiveRun]
    /\ executing \subseteq Runs
    /\ counter \in Nat /\ trashed \subseteq Jobs /\ edits \in Nat /\ exits \in Nat
    /\ consumed \subseteq [job : Jobs, run : Runs, after : Int, nextAfter : Int]

\* Admission implements ExclusiveWork: whatever expires, crashes, times out or
\* is deleted, a job never has two agent turns going on and no more than
\* maxConcurrentRuns go on together.
Work == INSTANCE ExclusiveWork WITH
            Limit <- MaxConcurrent,
            work <- {<<r, runs[r].job>> : r \in executing}

AdmissionIsExclusive == Work!Spec

\* A recorded result is final: neither a fenced process that finishes late nor
\* a takeover rewrites it; only deleting the job removes it.
ResultIsFinal ==
    [][\A r \in Runs : runs[r].status \in Terminal
                          => runs'[r].status \in {runs[r].status, "deleted"}]_schedVars

\* No conversation turn is consumed by two runs of a job, and only recorded
\* successes that asked for no help consume.
BatchesApart ==
    /\ \A a, b \in consumed :
          a.job = b.job /\ a.run # b.run => a.nextAfter <= b.after \/ b.nextAfter <= a.after
    /\ \A a \in consumed :
          /\ runs[a.run].status \in {"succeeded", "deleted"}
          /\ ~runs[a.run].attention

\* A result takes the cursor forward, and never that of a consumer the user has
\* turned off meanwhile, or has turned off and on again and thereby set further.
ResultsAdvance ==
    \A a \in consumed' \ consumed :
        /\ jobs[a.job].cursor # NoCursor
        /\ jobs[a.job].cursor <= jobs'[a.job].cursor

\* The turns of a consumer are consumed once, through edits of the job, records
\* read too early, takeovers and late results (finishRun).
TurnsConsumedOnce == []BatchesApart /\ [][ResultsAdvance]_schedVars

\* A run that was cancelled, timed out or lost never ends as a success.
StoppedNeverSucceeds ==
    [][\A r \in Runs : /\ runs[r].status = "running"
                       /\ active[r].cancelled \/ active[r].timedOut \/ active[r].finalized
                       => runs'[r].status # "succeeded"]_schedVars

\* A one-shot job is started by its schedule at most once per time it was set.
OneShotOnce ==
    \A j \in OneShot :
        Cardinality({r \in Runs : /\ runs[r].status # "unused" /\ runs[r].job = j
                                  /\ runs[r].trigger = "scheduled"}) <= jobs[j].armed

\* A run recorded as running belongs to the process that runs it or to a lease
\* that is over: nothing is left "running" under the current holder.
NoLostRun ==
    \A r \in Runs, i \in Instances :
        runs[r].status = "running" /\ step[i] = "sweep" /\ StillHolder(i)
            => r \in ActiveOf(i)

\* A due job is served, unless no scheduler is up or an execution is reported
\* as blocked (quarantined, what the status route shows to the user).
DueJobIsServed ==
    \A j \in Jobs :
        Due(j) ~> (\/ ~Due(j)
                   \/ \E r \in claimed : claim[r].quarantined
                   \/ \A i \in Instances : proc[i] # "up")
=============================================================================
