----------------------------- MODULE AgentRuns -----------------------------
(***************************************************************************)
(* One background Agent Run: its row and attempts in AgentRunsRepository   *)
(* (services/agentRunsRepository.ts) and the AgentRunCoordinator           *)
(* (agents/runs/agentRunCoordinator.ts) of each backend process that       *)
(* shares the database, with the recovery timer of agentRunAssembly.ts.    *)
(*                                                                         *)
(* A claim takes a lease with a fresh token and creates an attempt in the  *)
(* same stretch of the event loop, so an attempt and its token share one   *)
(* number.  The coordinator renews leases only of attempts in its "live"   *)
(* map: an attempt whose session is still opening, or one that waits for   *)
(* an answer, can lose its lease although its process is well.             *)
(*                                                                         *)
(* Each action is the code between two awaits.  Events other than those    *)
(* that change the row, results, budgets and profiles are left out.        *)
(***************************************************************************)
EXTENDS Integers, FiniteSets

CONSTANTS
    Instances,     \* backend processes; a restart is another one
    MaxAttempts,   \* permissionPolicy.maxAttempts
    MaxClaims,     \* bound: attempts that can be created
    MaxLapses,     \* bound: leases that run out although their holder renews them
    MaxExits,      \* bound: processes that shut down or crash
    MaxRequests    \* bound: answers, cancellations and deletions by the user

ASSUME RunConstants ==
    /\ MaxAttempts \in Nat \ {0} /\ MaxClaims \in Nat \ {0}
    /\ MaxLapses \in Nat /\ MaxExits \in Nat /\ MaxRequests \in Nat

VARIABLES
    row,         \* agent_runs: status, lease token, expired, active attempt, pending interaction
    attempts,    \* agent_run_attempts: status of each
    task,        \* what the coordinator awaits for an attempt, and in which process
    live,        \* this.live of each process: the attempt, 0 for none
    answering,   \* respondInteraction awaits the handle of this attempt, 0 for none
    deleting,    \* administrativeQuiescing: the attempt whose cancellation is awaited
    proc,        \* state of each process
    bounds       \* counters of the bounds

rowVars == <<row, attempts>>
runVars == <<row, attempts, task, live, answering, deleting, proc, bounds>>

-----------------------------------------------------------------------------
Attempts == 1 .. MaxClaims
None == 0   \* no attempt, no process
NoTask == [at |-> "none", by |-> None]
Ended == {"completed", "failed", "cancelled"}

\* The table of shared/agentRuns.ts, for events of type run_status_changed.
Transitions ==
    [queued     |-> {"preparing", "cancelled"},
     preparing  |-> {"running", "recovering", "failed", "cancelled"},
     running    |-> {"waiting", "recovering"} \cup Ended,
     waiting    |-> {"running", "recovering", "failed", "cancelled"},
     recovering |-> {"preparing", "running", "waiting"} \cup Ended,
     completed  |-> {}, failed |-> {}, cancelled |-> {}]

CanBecome(status) == status \in Transitions[row.status]

Alive(i) == proc[i] \in {"up", "stopping"}

Created == {a \in Attempts : attempts[a] # "none"}

\* The attempt the next claim creates, while the bound allows one.
Fresh == Attempts \cap {Cardinality(Created) + 1}

Within(counter, limit) ==
    bounds[counter] < limit /\ bounds' = [bounds EXCEPT ![counter] = @ + 1]

\* Nobody renews the lease: heartbeat knows live attempts only, and no run
\* that waits.
Unrenewed ==
    \/ row.status = "waiting"
    \/ \A i \in Instances : proc[i] # "up" \/ live[i] # row.lease

-----------------------------------------------------------------------------
(* Repository: rows before and after, as functions of the row               *)

Unleased(r) == [r EXCEPT !.lease = None, !.expired = FALSE]

ClaimedRow(r, n) ==
    [r EXCEPT !.status = "preparing", !.lease = n, !.expired = FALSE, !.active = n]

\* claimRun finds a run it may take.
Claimable(r) ==
    r.status \in {"queued", "recovering"} /\ (r.lease = None \/ r.expired)

\* finalizeAttempt and finishAttemptForRecovery: the attempt is the active one,
\* has the lease, and is not finished.
Fenced(a) == row.active = a /\ row.lease = a /\ attempts[a] = "preparing"

\* Mutant: a finished attempt does not free the lease.
FinishedLeased(r, status) == [r EXCEPT !.status = status]

FinishedRow(r, status) == [Unleased(r) EXCEPT !.status = status]

\* AgentRunInteractions.request: an event of another type, so the table of
\* transitions is not consulted.
AskingRow(r) == [r EXCEPT !.status = "waiting", !.pending = TRUE]

\* Mutant: the run is finished without a look at the lease.
FinalizeUnfenced(a, status) ==
    IF CanBecome(status)
    THEN /\ row' = FinishedRow(row, status)
         /\ attempts' = [attempts EXCEPT ![a] = status]
    ELSE UNCHANGED rowVars

\* finalize: throws, and changes nothing, unless the attempt is fenced and the
\* transition is in the table.
Finalize(a, status) ==
    IF Fenced(a) /\ CanBecome(status)
    THEN /\ row' = FinishedRow(row, status)
         /\ attempts' = [attempts EXCEPT ![a] = status]
    ELSE UNCHANGED rowVars

-----------------------------------------------------------------------------
(* Claims and recovery *)

\* claimRun, and executeClaimed up to its first await, in process i, on the row,
\* attempts and tasks that the caller leaves: the attempt is created; when its
\* capability bindings are gone it is failed at once, else its session is opened.
Execute(i, r, rows, tasks) ==
    \E n \in Fresh :
        \/ /\ row' = ClaimedRow(r, n)
           /\ attempts' = [rows EXCEPT ![n] = "preparing"]
           /\ task' = [tasks EXCEPT ![n] = [at |-> "opening", by |-> i]]
        \/ /\ row' = FinishedRow(ClaimedRow(r, n), "failed")
           /\ attempts' = [rows EXCEPT ![n] = "failed"]
           /\ task' = tasks

\* start, from spawn or from recoverRunnableRuns.
Start(i) ==
    /\ proc[i] = "up"
    /\ Claimable(row)
    /\ Execute(i, row, attempts, task)
    /\ UNCHANGED <<live, answering, deleting, proc, bounds>>

\* Mutant: an attempt that never opened is not reclaimed.
ExpiredRunning(r) == r.status = "running" /\ r.lease # None /\ r.expired

Expired(r) == r.status \in {"preparing", "running"} /\ r.lease # None /\ r.expired

\* reclaimExpired, from recoverRunnableRuns; start follows.
Reclaim(i) ==
    /\ proc[i] = "up"
    /\ Expired(row)
    /\ row' = FinishedRow(row, "recovering")
    /\ attempts' = [a \in Attempts |-> IF a = row.active /\ attempts[a] = "preparing"
                                       THEN "failed" ELSE attempts[a]]
    /\ UNCHANGED <<task, live, answering, deleting, proc, bounds>>

\* heartbeatAll.
Heartbeat(i) ==
    /\ proc[i] = "up"
    /\ row.lease # None /\ row.expired /\ live[i] = row.lease
    /\ row.status \in {"preparing", "running", "recovering"}
    /\ row' = [row EXCEPT !.expired = FALSE]
    /\ UNCHANGED <<attempts, task, live, answering, deleting, proc, bounds>>

LeaseExpires ==
    /\ row.lease # None /\ ~row.expired
    /\ IF Unrenewed THEN UNCHANGED bounds ELSE Within("lapses", MaxLapses)
    /\ row' = [row EXCEPT !.expired = TRUE]
    /\ UNCHANGED <<attempts, task, live, answering, deleting, proc>>

-----------------------------------------------------------------------------
(* An attempt *)

\* executor.start resolves: the run is running, whoever has the lease now,
\* unless the table forbids it; then the session is left to itself.
Opened(a) ==
    /\ task[a].at = "opening" /\ Alive(task[a].by)
    /\ IF CanBecome("running")
       THEN /\ row' = [row EXCEPT !.status = "running", !.active = a]
            /\ live' = [live EXCEPT ![task[a].by] = a]
            /\ task' = [task EXCEPT ![a].at = "running"]
       ELSE /\ task' = [task EXCEPT ![a] = NoTask]
            /\ UNCHANGED <<row, live>>
    /\ UNCHANGED <<attempts, answering, deleting, proc, bounds>>

\* executor.start rejects, and start with it: the row waits for its lease to
\* run out.
OpenFails(a) ==
    /\ task[a].at = "opening" /\ Alive(task[a].by)
    /\ task' = [task EXCEPT ![a] = NoTask]
    /\ UNCHANGED <<rowVars, live, answering, deleting, proc, bounds>>

\* The handle of attempt a reports an outcome: settleOutcome applies it to the
\* attempt that is live now.
Reports(a, next) ==
    /\ task[a].at = "running" /\ Alive(task[a].by)
    /\ task' = [task EXCEPT ![a] = next]

\* The live entry is gone, or a deletion will decide.
SettleIgnored(a) ==
    /\ Reports(a, NoTask)
    /\ live[task[a].by] = None \/ deleting[task[a].by] # None
    /\ UNCHANGED <<rowVars, live, answering, deleting, proc, bounds>>

Settles(a, next) ==
    Reports(a, next) /\ live[task[a].by] # None /\ deleting[task[a].by] = None

SettleWaiting(a) ==
    /\ Settles(a, [task[a] EXCEPT !.at = "asked"])
    /\ row' = AskingRow(row)
    /\ UNCHANGED <<attempts, live, answering, deleting, proc, bounds>>

\* completed, cancelled, or failed for good.
SettleEnded(a, status) ==
    /\ Settles(a, NoTask)
    /\ live' = [live EXCEPT ![task[a].by] = None]
    /\ Finalize(live[task[a].by], status)
    /\ UNCHANGED <<answering, deleting, proc, bounds>>

\* A failure that may be retried: finishAttemptForRecovery, then the question to
\* the user when a side effect is in doubt, or the next claim.
SettleRetry(a) ==
    LET i    == task[a].by
        l    == live[i]
        rows == [attempts EXCEPT ![l] = "failed"]
        free == FinishedRow(row, "recovering")
        over == [task EXCEPT ![a] = NoTask]
    IN  /\ task[a].at = "running" /\ Alive(i)
        /\ l # None /\ deleting[i] = None
        /\ Cardinality(Created) < MaxAttempts
        /\ live' = [live EXCEPT ![i] = None]
        /\ \/ ~Fenced(l) /\ task' = over /\ UNCHANGED rowVars
           \/ /\ Fenced(l)
              /\ row' = AskingRow(free) /\ attempts' = rows /\ task' = over
           \/ Fenced(l) /\ Execute(i, free, rows, over)
        /\ UNCHANGED <<answering, deleting, proc, bounds>>

-----------------------------------------------------------------------------
(* Requests of the user *)

\* respondInteraction, or input while a question is open, up to its await.
Respond(i) ==
    /\ Alive(i) /\ live[i] # None /\ answering[i] = None /\ row.pending
    /\ Within("requests", MaxRequests)
    /\ answering' = [answering EXCEPT ![i] = live[i]]
    /\ UNCHANGED <<rowVars, task, live, deleting, proc>>

\* The handle took the answer: the interaction is resolved, once, the run is
\* running again and the handle continues.  The handle may also refuse it.
Answered(i) ==
    /\ Alive(i) /\ answering[i] # None
    /\ answering' = [answering EXCEPT ![i] = None]
    /\ \/ /\ row.pending
          /\ row' = [row EXCEPT !.status = "running", !.pending = FALSE]
          /\ task' = [a \in Attempts |-> IF a = answering[i] /\ task[a].at = "asked"
                                         THEN [task[a] EXCEPT !.at = "running"] ELSE task[a]]
       \/ UNCHANGED <<row, task>>
    /\ UNCHANGED <<attempts, live, deleting, proc, bounds>>

\* cancel of a queued run; with a live handle the handle reports, else only the
\* request is recorded.
CancelQueued(i) ==
    /\ proc[i] = "up" /\ row.status = "queued"
    /\ Within("requests", MaxRequests)
    /\ row' = [row EXCEPT !.status = "cancelled"]
    /\ UNCHANGED <<attempts, task, live, answering, deleting, proc>>

\* administrativelyCancelRun.
CancelRow ==
    /\ row' = [FinishedRow(row, "cancelled") EXCEPT !.pending = FALSE]
    /\ attempts' = [a \in Attempts |-> IF a = row.active /\ attempts[a] = "preparing"
                                       THEN "cancelled" ELSE attempts[a]]

\* quiesceForAdministrativeDeletion: with a live handle it awaits its
\* cancellation first; a run leased elsewhere is left alone.
DeleteBegins(i) ==
    /\ proc[i] = "up" /\ live[i] # None /\ deleting[i] = None
    /\ Within("requests", MaxRequests)
    /\ deleting' = [deleting EXCEPT ![i] = live[i]]
    /\ UNCHANGED <<rowVars, task, live, answering, proc>>

DeleteEnds(i) ==
    /\ Alive(i) /\ deleting[i] # None
    /\ deleting' = [deleting EXCEPT ![i] = None]
    /\ \/ /\ row.status \notin Ended /\ row.lease = deleting[i]
          /\ CancelRow
          /\ live' = [live EXCEPT ![i] = None]
       \/ /\ row.status \in Ended /\ row.lease = None
          /\ live' = [live EXCEPT ![i] = None]
          /\ UNCHANGED rowVars
       \/ UNCHANGED <<rowVars, live>>
    /\ UNCHANGED <<task, answering, proc, bounds>>

DeleteIdle(i) ==
    /\ proc[i] = "up" /\ live[i] = None
    /\ row.status \notin Ended /\ (row.lease = None \/ row.expired)
    /\ Within("requests", MaxRequests)
    /\ CancelRow
    /\ UNCHANGED <<task, live, answering, deleting, proc>>

-----------------------------------------------------------------------------
(* Processes *)

\* shutdown: checkpointForShutdown of the live attempt; an attempt that cannot
\* be checkpointed gives its lease back.
Shutdown(i) ==
    LET l == live[i]
    IN  /\ proc[i] = "up"
        /\ Within("exits", MaxExits)
        /\ proc' = [proc EXCEPT ![i] = "stopping"]
        /\ live' = [live EXCEPT ![i] = None]
        /\ IF l = None \/ row.status \in Ended \cup {"recovering"} THEN UNCHANGED rowVars
           ELSE IF Fenced(l)
           THEN /\ row' = FinishedRow(row, "recovering")
                /\ attempts' = [attempts EXCEPT ![l] = "failed"]
           ELSE /\ row' = IF row.lease = l THEN Unleased(row) ELSE row
                /\ UNCHANGED attempts
        /\ UNCHANGED <<task, answering, deleting>>

Gone(i) ==
    /\ proc' = [proc EXCEPT ![i] = "dead"]
    /\ live' = [live EXCEPT ![i] = None]
    /\ answering' = [answering EXCEPT ![i] = None]
    /\ deleting' = [deleting EXCEPT ![i] = None]
    /\ task' = [a \in Attempts |-> IF task[a].by = i THEN NoTask ELSE task[a]]
    /\ UNCHANGED rowVars

\* The process of a shutdown ends, or a running one crashes.
Exit(i) == proc[i] = "stopping" /\ Gone(i) /\ UNCHANGED bounds

Crash(i) == proc[i] = "up" /\ Within("exits", MaxExits) /\ Gone(i)

Boot(i) ==
    /\ proc[i] = "off"
    /\ proc' = [proc EXCEPT ![i] = "up"]
    /\ UNCHANGED <<rowVars, task, live, answering, deleting, bounds>>

-----------------------------------------------------------------------------
RunInit ==
    /\ row = [status |-> "queued", lease |-> None, expired |-> FALSE, active |-> None,
              pending |-> FALSE]
    /\ attempts = [a \in Attempts |-> "none"]
    /\ task = [a \in Attempts |-> NoTask]
    /\ live = [i \in Instances |-> None]
    /\ answering = [i \in Instances |-> None]
    /\ deleting = [i \in Instances |-> None]
    /\ proc = [i \in Instances |-> "off"]
    /\ bounds = [lapses |-> 0, exits |-> 0, requests |-> 0]

\* What an attempt does by itself.
AttemptStep(a) ==
    \/ Opened(a)
    \/ OpenFails(a)
    \/ SettleIgnored(a)
    \/ SettleWaiting(a)
    \/ SettleRetry(a)
    \/ \E status \in Ended : SettleEnded(a, status)

\* What process i does, apart from its end.
CoordinatorStep(i) ==
    \/ Start(i)
    \/ Reclaim(i)
    \/ Heartbeat(i)
    \/ Answered(i)
    \/ DeleteEnds(i)

RequestStep(i) ==
    \/ Respond(i)
    \/ CancelQueued(i)
    \/ DeleteBegins(i)
    \/ DeleteIdle(i)

ProcessStep(i) == Boot(i) \/ Shutdown(i) \/ Exit(i) \/ Crash(i)

RunNext ==
    \/ \E a \in Attempts : AttemptStep(a)
    \/ \E i \in Instances : CoordinatorStep(i) \/ RequestStep(i) \/ ProcessStep(i)
    \/ LeaseExpires

RunSpec == RunInit /\ [][RunNext]_runVars
=============================================================================
