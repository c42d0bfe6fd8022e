--------------------------- MODULE AgentRunProofs ---------------------------
(***************************************************************************)
(* Theorems about AgentRunDelivery, for any number of processes, attempts, *)
(* lapses of leases, exits and requests.                                   *)
(***************************************************************************)
EXTENDS AgentRunDelivery, FiniteSetTheorems, TLAPS

(***************************************************************************)
(* The table of transitions, one fact for each use of it.                  *)
(***************************************************************************)
Statuses == {"queued", "preparing", "running", "waiting", "recovering"} \cup Ended

LEMMA TransitionTable ==
    /\ DOMAIN Transitions = Statuses
    /\ row.status \in Statuses /\ CanBecome("completed") => row.status \in {"running", "recovering"}
    /\ row.status \in Statuses /\ CanBecome("running") => row.status \notin Ended \cup {"queued"}
BY DEF Transitions, Statuses, CanBecome, Ended

RunRow == [status : Statuses, lease : Attempts \cup {None}, expired : BOOLEAN,
           active : Attempts \cup {None}, pending : BOOLEAN]

AttemptRows == [Attempts -> {"none", "preparing"} \cup Ended]

Tasks == {NoTask} \cup [at : {"opening", "running", "asked"}, by : Instances]

\* The type invariant with its sets named.
RunTypes ==
    /\ row \in RunRow /\ attempts \in AttemptRows
    /\ task \in [Attempts -> Tasks]
    /\ live \in [Instances -> Attempts \cup {None}]
    /\ answering \in [Instances -> Attempts \cup {None}]
    /\ deleting \in [Instances -> Attempts \cup {None}]
    /\ proc \in [Instances -> {"off", "up", "stopping", "dead"}]
    /\ bounds \in [lapses : 0 .. MaxLapses, exits : 0 .. MaxExits, requests : 0 .. MaxRequests]

WatchTypes ==
    /\ watch \in {"active", "fired"} /\ delivery \in {"pending", "delivered", "undeliverable"}
    /\ turn \in {"none", "active"} \cup TurnEnded
    /\ dirty \subseteq Instances /\ excused \in BOOLEAN
    /\ sink \in [Instances -> {"idle", "fired", "retry", "turn", "ended"}]

LEMMA TypesAreTypes == DeliveryTypeOK <=> RunTypes /\ WatchTypes
BY TransitionTable DEF DeliveryTypeOK, RunTypes, WatchTypes, RunRow, AttemptRows, Tasks

(***************************************************************************)
(* What the repository writes into a row.                                  *)
(***************************************************************************)
LEMMA RowsWritten ==
    ASSUME NEW r \in RunRow
    PROVE  /\ \A s \in Statuses :
                 /\ FinishedRow(r, s) \in RunRow /\ FinishedRow(r, s).status = s
                 /\ FinishedRow(r, s).lease = None /\ FinishedRow(r, s).active = r.active
           /\ \A n \in Attempts :
                 /\ ClaimedRow(r, n) \in RunRow /\ ClaimedRow(r, n).status = "preparing"
                 /\ ClaimedRow(r, n).lease = n /\ ClaimedRow(r, n).active = n
           /\ /\ AskingRow(r) \in RunRow /\ AskingRow(r).status = "waiting"
              /\ AskingRow(r).lease = r.lease /\ AskingRow(r).active = r.active
           /\ /\ Unleased(r) \in RunRow /\ Unleased(r).status = r.status
              /\ Unleased(r).lease = None /\ Unleased(r).active = r.active
<1>1. /\ Unleased(r) \in RunRow /\ Unleased(r).status = r.status
      /\ Unleased(r).lease = None /\ Unleased(r).active = r.active
  BY DEF Unleased, RunRow
<1>2. ASSUME NEW s \in Statuses
      PROVE  /\ FinishedRow(r, s) \in RunRow /\ FinishedRow(r, s).status = s
             /\ FinishedRow(r, s).lease = None /\ FinishedRow(r, s).active = r.active
  BY <1>1 DEF FinishedRow, RunRow
<1>3. ASSUME NEW n \in Attempts
      PROVE  /\ ClaimedRow(r, n) \in RunRow /\ ClaimedRow(r, n).status = "preparing"
             /\ ClaimedRow(r, n).lease = n /\ ClaimedRow(r, n).active = n
  BY DEF ClaimedRow, RunRow, Statuses
<1>4. /\ AskingRow(r) \in RunRow /\ AskingRow(r).status = "waiting"
      /\ AskingRow(r).lease = r.lease /\ AskingRow(r).active = r.active
  BY DEF AskingRow, RunRow, Statuses
<1> QED BY <1>1, <1>2, <1>3, <1>4

-----------------------------------------------------------------------------
(***************************************************************************)
(* The invariant of the row.  Once an attempt is recorded as completed the *)
(* run is leased to nobody and in no state from which it can be claimed;   *)
(* so no second attempt passes the fence of finalizeAttempt.               *)
(***************************************************************************)
ResultIsFenced ==
    /\ \A a \in Attempts : attempts[a] = "completed" =>
          row.lease = None /\ row.status \notin {"queued", "preparing", "recovering"}
    /\ \A a, b \in Attempts : attempts[a] = "completed" /\ attempts[b] = "completed" => a = b
    /\ row.status = "completed" => row.active \in Attempts /\ attempts[row.active] = "completed"

\* A run that was not claimed yet, or has ended, is leased by nobody.
LeasedIsUnderWay == row.status \in Ended \cup {"queued"} => row.lease = None

RunSafe == ResultIsFenced /\ LeasedIsUnderWay

(***************************************************************************)
(* The kinds of writes to the row and the attempts.                        *)
(***************************************************************************)

\* No claim and no result.
Keeps ==
    /\ \A a \in Attempts : attempts'[a] = "completed" => attempts[a] = "completed"
    /\ row'.lease \in {row.lease, None}
    /\ row'.status \in Ended => row'.lease = None
    /\ row'.status \in {"preparing", "recovering"} => row'.status = row.status \/ row.lease # None
    /\ row'.status = "queued" => row.status = "queued"
    /\ row'.status = "completed" =>
          row.status = "completed" /\ row'.active = row.active /\ attempts' = attempts

\* A claim, of a run that is queued, recovering or leased.
Claims ==
    /\ row.status \in {"queued", "recovering"} \/ row.lease # None
    /\ \A a \in Attempts : attempts'[a] = "completed" => attempts[a] = "completed"
    /\ row'.status \in {"preparing", "failed"}
    /\ row'.status = "failed" => row'.lease = None

\* A result of the attempt that has the lease.
Completes ==
    /\ row.lease \in Attempts
    /\ row'.status = "completed" /\ row'.lease = None /\ row'.active = row.lease
    /\ attempts' = [attempts EXCEPT ![row.lease] = "completed"]

LEMMA KindsKeepSafe ==
    ASSUME RunTypes, RunSafe, RunTypes', Keeps \/ Claims \/ Completes
    PROVE  RunSafe'
<1> USE DEF RunSafe, ResultIsFenced, LeasedIsUnderWay
<1>1. None \notin Attempts
  BY DEF None, Attempts
<1>2. CASE Keeps
  BY <1>2 DEF Keeps, Ended
<1>3. CASE Claims
  BY <1>3 DEF Claims, Ended
<1>4. CASE Completes
  BY <1>1, <1>4 DEF Completes, RunTypes, AttemptRows, Ended
<1> QED BY <1>2, <1>3, <1>4

(***************************************************************************)
(* A step of the coordinators is of one of these kinds, and keeps the      *)
(* types.                                                                  *)
(***************************************************************************)
LEMMA Unwritten ==
    ASSUME RunTypes, RunSafe, UNCHANGED rowVars
    PROVE  row' \in RunRow /\ attempts' \in AttemptRows /\ Keeps
BY DEF RunTypes, RunSafe, LeasedIsUnderWay, Keeps, rowVars

LEMMA FinalizeKinds ==
    ASSUME RunTypes, RunSafe, NEW l \in Attempts, NEW status \in Ended, Finalize(l, status)
    PROVE  row' \in RunRow /\ attempts' \in AttemptRows /\ (Keeps \/ Completes)
<1>1. CASE Fenced(l) /\ CanBecome(status)
  <2>1. /\ row.active = l /\ row.lease = l /\ row \in RunRow /\ status \in Statuses
        /\ row' = FinishedRow(row, status) /\ attempts' = [attempts EXCEPT ![l] = status]
    BY <1>1 DEF Finalize, Fenced, RunTypes, Statuses
  <2>2. /\ row' \in RunRow /\ row'.status = status /\ row'.lease = None /\ row'.active = l
    BY <2>1, RowsWritten
  <2>3. attempts' \in AttemptRows /\ \A b \in Attempts : attempts'[b] = IF b = l THEN status ELSE attempts[b]
    BY <2>1 DEF RunTypes, AttemptRows
  <2>4. CASE status = "completed"
    BY <2>1, <2>2, <2>3, <2>4 DEF Completes
  <2>5. CASE status # "completed"
    BY <2>2, <2>3, <2>5 DEF Keeps, Ended
  <2> QED BY <2>2, <2>3, <2>4, <2>5
<1>2. CASE ~(Fenced(l) /\ CanBecome(status))
  BY <1>2, Unwritten DEF Finalize
<1> QED BY <1>1, <1>2

LEMMA ExecuteKinds ==
    ASSUME NEW r \in RunRow, NEW rows \in AttemptRows, NEW tasks \in [Attempts -> Tasks],
           NEW i \in Instances, Execute(i, r, rows, tasks),
           row.status \in {"queued", "recovering"} \/ row.lease # None,
           \A a \in Attempts : rows[a] = "completed" => attempts[a] = "completed"
    PROVE  /\ row' \in RunRow /\ attempts' \in AttemptRows /\ task' \in [Attempts -> Tasks]
           /\ Claims
<1>1. PICK n \in Fresh :
        \/ /\ row' = ClaimedRow(r, n)
           /\ attempts' = [rows EXCEPT ![n] = "preparing"]
           /\ task' = [tasks EXCEPT ![n] = [at |-> "opening", by |-> i]]
        \/ /\ row' = FinishedRow(ClaimedRow(r, n), "failed")
           /\ attempts' = [rows EXCEPT ![n] = "failed"]
           /\ task' = tasks
  BY DEF Execute
<1>2. n \in Attempts
  BY DEF Fresh
<1>3. ClaimedRow(r, n) \in RunRow /\ ClaimedRow(r, n).status = "preparing"
  BY ZenonT(40), <1>2, RowsWritten
<1>4. "failed" \in Statuses
  BY DEF Statuses, Ended
<1>5. /\ FinishedRow(ClaimedRow(r, n), "failed") \in RunRow
      /\ FinishedRow(ClaimedRow(r, n), "failed").status = "failed"
      /\ FinishedRow(ClaimedRow(r, n), "failed").lease = None
  BY <1>3, <1>4, RowsWritten
<1>6. row' \in RunRow /\ row'.status \in {"preparing", "failed"} /\ (row'.status = "failed" => row'.lease = None)
  BY <1>1, <1>3, <1>5
<1>7. attempts' \in AttemptRows /\ \A a \in Attempts : attempts'[a] = "completed" => attempts[a] = "completed"
  BY <1>1, <1>2 DEF AttemptRows, Ended
<1>8. task' \in [Attempts -> Tasks]
  BY <1>1, <1>2 DEF Tasks
<1> QED BY <1>6, <1>7, <1>8 DEF Claims

LEMMA CancelKinds ==
    ASSUME RunTypes, CancelRow
    PROVE  row' \in RunRow /\ attempts' \in AttemptRows /\ Keeps
<1> DEFINE free == FinishedRow(row, "cancelled")
<1>1. free \in RunRow /\ free.status = "cancelled" /\ free.lease = None
  BY RowsWritten DEF RunTypes, Statuses, Ended
<1>2. row' = [free EXCEPT !.pending = FALSE]
  BY DEF CancelRow
<1>3. row' \in RunRow /\ row'.status = "cancelled" /\ row'.lease = None
  <2> HIDE DEF free
  <2> QED BY <1>1, <1>2 DEF RunRow
<1>4. attempts' \in AttemptRows /\ \A a \in Attempts : attempts'[a] = "completed" => attempts[a] = "completed"
  BY DEF CancelRow, RunTypes, AttemptRows, Ended
<1> QED BY <1>3, <1>4 DEF Keeps, Ended

-----------------------------------------------------------------------------
(***************************************************************************)
(* The bound of a counter is kept.                                         *)
(***************************************************************************)
BoundTypes == [lapses : 0 .. MaxLapses, exits : 0 .. MaxExits, requests : 0 .. MaxRequests]

LEMMA WithinBound ==
    ASSUME bounds \in BoundTypes,
           Within("lapses", MaxLapses) \/ Within("exits", MaxExits) \/ Within("requests", MaxRequests)
    PROVE  bounds' \in BoundTypes
BY RunConstants DEF Within, BoundTypes

RunKept == RunTypes' /\ (Keeps \/ Claims \/ Completes)

(***************************************************************************)
(* What an attempt does by itself.                                         *)
(***************************************************************************)
LEMMA AttemptStepKept ==
    ASSUME RunTypes, RunSafe, NEW a \in Attempts, AttemptStep(a)
    PROVE  RunKept
<1> USE DEF RunKept
<1> DEFINE i == task[a].by
<1>1. task[a].at # "none" => /\ i \in Instances /\ task[a] \in [at : {"opening", "running", "asked"}, by : Instances]
                             /\ live[i] \in Attempts \cup {None}
  BY DEF RunTypes, Tasks, NoTask
<1>2. NoTask \in Tasks /\ row \in RunRow /\ attempts \in AttemptRows
  BY DEF Tasks, RunTypes
<1>3. CASE Opened(a)
  <2>1. CASE CanBecome("running")
    <3>1. row.status \notin Ended \cup {"queued"}
      BY <2>1, TransitionTable DEF RunTypes, RunRow
    <3>2. row' = [row EXCEPT !.status = "running", !.active = a] /\ attempts' = attempts
      BY <1>3, <2>1 DEF Opened
    <3>3. row' \in RunRow /\ row'.status = "running" /\ row'.lease = row.lease
      BY <1>2, <3>2 DEF RunRow, Statuses
    <3>4. Keeps
      BY <3>2, <3>3 DEF Keeps, Ended
    <3>5. /\ task' = [task EXCEPT ![a].at = "running"] /\ live' = [live EXCEPT ![i] = a]
          /\ UNCHANGED <<answering, deleting, proc, bounds>> /\ task[a].at = "opening"
      BY <1>3, <2>1 DEF Opened
    <3>6. [task[a] EXCEPT !.at = "running"] \in Tasks
      BY <1>1, <3>5 DEF Tasks
    <3>7. task' = [task EXCEPT ![a] = [task[a] EXCEPT !.at = "running"]]
      BY <3>5
    <3>8. task' \in [Attempts -> Tasks]
      BY <3>6, <3>7 DEF RunTypes
    <3> QED BY <1>1, <1>2, <3>2, <3>3, <3>4, <3>5, <3>8 DEF RunTypes
  <2>2. CASE ~CanBecome("running")
    <3>1. /\ task' = [task EXCEPT ![a] = NoTask] /\ row' = row /\ attempts' = attempts /\ live' = live
          /\ UNCHANGED <<answering, deleting, proc, bounds>>
      BY <1>3, <2>2 DEF Opened
    <3> QED BY <1>2, <3>1, Unwritten DEF RunTypes, rowVars
  <2> QED BY <2>1, <2>2
<1>4. CASE OpenFails(a)
  <2>1. /\ task' = [task EXCEPT ![a] = NoTask] /\ row' = row /\ attempts' = attempts /\ live' = live
        /\ UNCHANGED <<answering, deleting, proc, bounds>>
    BY <1>4 DEF OpenFails, rowVars
  <2> QED BY <1>2, <2>1, Unwritten DEF RunTypes, rowVars
<1>5. CASE SettleIgnored(a)
  <2>1. /\ task' = [task EXCEPT ![a] = NoTask] /\ row' = row /\ attempts' = attempts /\ live' = live
        /\ UNCHANGED <<answering, deleting, proc, bounds>>
    BY <1>5 DEF SettleIgnored, Reports, rowVars
  <2> QED BY <1>2, <2>1, Unwritten DEF RunTypes, rowVars
<1>6. CASE SettleWaiting(a)
  <2>1. /\ task' = [task EXCEPT ![a] = [task[a] EXCEPT !.at = "asked"]] /\ row' = AskingRow(row)
        /\ attempts' = attempts /\ task[a].at = "running"
        /\ UNCHANGED <<live, answering, deleting, proc, bounds>>
    BY <1>6 DEF SettleWaiting, Settles, Reports
  <2>2. [task[a] EXCEPT !.at = "asked"] \in Tasks
    BY <1>1, <2>1 DEF Tasks
  <2>3. row' \in RunRow /\ row'.status = "waiting" /\ row'.lease = row.lease
    BY <1>2, <2>1, RowsWritten
  <2>4. Keeps
    BY <2>1, <2>3 DEF Keeps, Ended
  <2> QED BY <1>2, <2>1, <2>2, <2>3, <2>4 DEF RunTypes
<1>7. ASSUME NEW status \in Ended, SettleEnded(a, status) PROVE RunKept
  <2>1. /\ task' = [task EXCEPT ![a] = NoTask] /\ task[a].at = "running" /\ live[i] # None
        /\ live' = [live EXCEPT ![i] = None] /\ Finalize(live[i], status)
        /\ UNCHANGED <<answering, deleting, proc, bounds>>
    BY <1>7 DEF SettleEnded, Settles, Reports
  <2>2. live[i] \in Attempts
    BY <1>1, <2>1
  <2>3. row' \in RunRow /\ attempts' \in AttemptRows /\ (Keeps \/ Completes)
    BY <2>1, <2>2, FinalizeKinds
  <2> QED BY <1>2, <2>1, <2>3 DEF RunTypes
<1>8. CASE SettleRetry(a)
  <2> DEFINE l    == live[i]
             rows == [attempts EXCEPT ![l] = "failed"]
             free == FinishedRow(row, "recovering")
             over == [task EXCEPT ![a] = NoTask]
  <2>1. /\ task[a].at = "running" /\ l # None
        /\ live' = [live EXCEPT ![i] = None]
        /\ UNCHANGED <<answering, deleting, proc, bounds>>
    BY <1>8 DEF SettleRetry
  <2>2. \/ ~Fenced(l) /\ task' = over /\ UNCHANGED rowVars
        \/ Fenced(l) /\ row' = AskingRow(free) /\ attempts' = rows /\ task' = over
        \/ Fenced(l) /\ Execute(i, free, rows, over)
    BY <1>8, Zenon DEF SettleRetry
  <2>3. l \in Attempts /\ i \in Instances
    BY <1>1, <2>1
  <2>4. free \in RunRow /\ free.status = "recovering" /\ free.lease = None
    <3>1. "recovering" \in Statuses
      BY DEF Statuses
    <3>2. row \in RunRow
      BY <1>2
    <3> HIDE DEF l, rows, over
    <3> QED BY <3>1, <3>2, RowsWritten
  <2>5. AskingRow(free) \in RunRow /\ AskingRow(free).status = "waiting" /\ AskingRow(free).lease = None
    BY <2>4, RowsWritten
  <2>6. rows \in AttemptRows /\ \A b \in Attempts : rows[b] = "completed" => attempts[b] = "completed"
    BY <1>2, <2>3 DEF AttemptRows, Ended
  <2>7. over \in [Attempts -> Tasks]
    BY <1>2 DEF RunTypes
  <2> HIDE DEF l, rows, free, over
  <2>8. ASSUME task' = over, UNCHANGED rowVars PROVE RunKept
    BY <1>2, <2>1, <2>7, <2>8, Unwritten DEF RunTypes, rowVars
  <2>9. ASSUME row' = AskingRow(free), attempts' = rows, task' = over PROVE RunKept
    <3>1. Keeps
      BY <2>5, <2>6, <2>9 DEF Keeps, Ended
    <3> QED BY <2>1, <2>5, <2>6, <2>7, <2>9, <3>1 DEF RunTypes
  <2>10. ASSUME Fenced(l), Execute(i, free, rows, over) PROVE RunKept
    <3>1. row.lease # None
      BY <2>1, <2>10 DEF Fenced
    <3>2. row' \in RunRow /\ attempts' \in AttemptRows /\ task' \in [Attempts -> Tasks] /\ Claims
      BY <2>3, <2>4, <2>6, <2>7, <2>10, <3>1, ExecuteKinds
    <3> QED BY <2>1, <3>2 DEF RunTypes
  <2> QED BY <2>2, <2>8, <2>9, <2>10
<1> QED BY <1>3, <1>4, <1>5, <1>6, <1>7, <1>8 DEF AttemptStep

(***************************************************************************)
(* What the coordinator of a process does.                                 *)
(***************************************************************************)
LEMMA CoordinatorStepKept ==
    ASSUME RunTypes, RunSafe, NEW i \in Instances, CoordinatorStep(i)
    PROVE  RunKept
<1> USE DEF RunKept
<1>1. row \in RunRow /\ attempts \in AttemptRows
  BY DEF RunTypes
<1>2. CASE Start(i)
  <2>1. /\ row.status \in {"queued", "recovering"} /\ Execute(i, row, attempts, task)
        /\ UNCHANGED <<live, answering, deleting, proc, bounds>>
    BY <1>2 DEF Start, Claimable
  <2>2. row' \in RunRow /\ attempts' \in AttemptRows /\ task' \in [Attempts -> Tasks] /\ Claims
    BY <1>1, <2>1, ExecuteKinds DEF RunTypes
  <2> QED BY <2>1, <2>2 DEF RunTypes
<1>3. CASE Reclaim(i)
  <2>1. /\ row.lease # None /\ row' = FinishedRow(row, "recovering")
        /\ attempts' = [a \in Attempts |-> IF a = row.active /\ attempts[a] = "preparing"
                                           THEN "failed" ELSE attempts[a]]
        /\ UNCHANGED <<task, live, answering, deleting, proc, bounds>>
    BY <1>3 DEF Reclaim, Expired
  <2>2. row' \in RunRow /\ row'.status = "recovering" /\ row'.lease = None
    BY <1>1, <2>1, RowsWritten DEF Statuses
  <2>3. attempts' \in AttemptRows /\ \A a \in Attempts : attempts'[a] = "completed" => attempts[a] = "completed"
    BY <1>1, <2>1 DEF AttemptRows, Ended
  <2>4. Keeps
    BY <2>1, <2>2, <2>3 DEF Keeps, Ended
  <2> QED BY <2>1, <2>2, <2>3, <2>4 DEF RunTypes
<1>4. CASE Heartbeat(i)
  <2>1. /\ row' = [row EXCEPT !.expired = FALSE] /\ attempts' = attempts
        /\ UNCHANGED <<task, live, answering, deleting, proc, bounds>>
    BY <1>4 DEF Heartbeat
  <2>2. /\ row' \in RunRow /\ row'.status = row.status /\ row'.lease = row.lease /\ row'.active = row.active
    BY <1>1, <2>1 DEF RunRow
  <2>3. Keeps
    BY <2>1, <2>2 DEF Keeps, RunSafe, LeasedIsUnderWay
  <2> QED BY <1>1, <2>1, <2>2, <2>3 DEF RunTypes
<1>5. CASE Answered(i)
  <2>1. /\ answering' = [answering EXCEPT ![i] = None] /\ attempts' = attempts
        /\ UNCHANGED <<live, deleting, proc, bounds>>
    BY <1>5 DEF Answered
  <2>2. CASE UNCHANGED <<row, task>>
    BY <1>1, <2>1, <2>2, Unwritten DEF RunTypes, rowVars
  <2>3. ASSUME row' = [row EXCEPT !.status = "running", !.pending = FALSE],
               task' = [a \in Attempts |-> IF a = answering[i] /\ task[a].at = "asked"
                                           THEN [task[a] EXCEPT !.at = "running"] ELSE task[a]]
        PROVE  RunKept
    <3>1. row' \in RunRow /\ row'.status = "running" /\ row'.lease = row.lease
      BY <1>1, <2>3 DEF RunRow, Statuses
    <3>2. Keeps
      BY <2>1, <3>1 DEF Keeps, Ended
    <3>3. \A a \in Attempts : task[a].at = "asked" => [task[a] EXCEPT !.at = "running"] \in Tasks
      BY DEF RunTypes, Tasks, NoTask
    <3>4. task' \in [Attempts -> Tasks]
      BY <2>3, <3>3 DEF RunTypes
    <3> QED BY <1>1, <2>1, <3>1, <3>2, <3>4 DEF RunTypes
  <2> QED BY <1>5, <2>2, <2>3 DEF Answered
<1>6. CASE DeleteEnds(i)
  <2>1. /\ deleting' = [deleting EXCEPT ![i] = None]
        /\ UNCHANGED <<task, answering, proc, bounds>>
        /\ live' = [live EXCEPT ![i] = None] \/ live' = live
        /\ CancelRow \/ UNCHANGED rowVars
    BY <1>6 DEF DeleteEnds
  <2>2. row' \in RunRow /\ attempts' \in AttemptRows /\ Keeps
    BY <2>1, CancelKinds, Unwritten
  <2> QED BY <2>1, <2>2 DEF RunTypes
<1> QED BY <1>2, <1>3, <1>4, <1>5, <1>6 DEF CoordinatorStep

(***************************************************************************)
(* Requests of the user, and leases that run out.                          *)
(***************************************************************************)
LEMMA RequestStepKept ==
    ASSUME RunTypes, RunSafe, (\E i \in Instances : RequestStep(i)) \/ LeaseExpires
    PROVE  RunKept
<1> USE DEF RunKept
<1>1. row \in RunRow /\ attempts \in AttemptRows /\ bounds \in BoundTypes
  BY DEF RunTypes, BoundTypes
<1>2. ASSUME NEW i \in Instances, Respond(i) PROVE RunKept
  <2>1. /\ answering' = [answering EXCEPT ![i] = live[i]] /\ Within("requests", MaxRequests)
        /\ UNCHANGED <<rowVars, task, live, deleting, proc>>
    BY <1>2 DEF Respond
  <2>2. bounds' \in BoundTypes
    BY <1>1, <2>1, WithinBound
  <2> QED BY <2>1, <2>2, Unwritten DEF RunTypes, BoundTypes
<1>3. ASSUME NEW i \in Instances, CancelQueued(i) PROVE RunKept
  <2>1. /\ row' = [row EXCEPT !.status = "cancelled"] /\ row.status = "queued"
        /\ Within("requests", MaxRequests)
        /\ UNCHANGED <<attempts, task, live, answering, deleting, proc>>
    BY <1>3 DEF CancelQueued
  <2>2. row' \in RunRow /\ row'.status = "cancelled" /\ row'.lease = row.lease
    BY <1>1, <2>1 DEF RunRow, Statuses, Ended
  <2>3. Keeps
    BY <2>1, <2>2 DEF Keeps, RunSafe, LeasedIsUnderWay, Ended
  <2>4. bounds' \in BoundTypes
    BY <1>1, <2>1, WithinBound
  <2> QED BY <2>1, <2>2, <2>3, <2>4 DEF RunTypes, BoundTypes
<1>4. ASSUME NEW i \in Instances, DeleteBegins(i) PROVE RunKept
  <2>1. /\ deleting' = [deleting EXCEPT ![i] = live[i]] /\ Within("requests", MaxRequests)
        /\ UNCHANGED <<rowVars, task, live, answering, proc>>
    BY <1>4 DEF DeleteBegins
  <2>2. bounds' \in BoundTypes
    BY <1>1, <2>1, WithinBound
  <2> QED BY <2>1, <2>2, Unwritten DEF RunTypes, BoundTypes
<1>5. ASSUME NEW i \in Instances, DeleteIdle(i) PROVE RunKept
  <2>1. CancelRow /\ Within("requests", MaxRequests) /\ UNCHANGED <<task, live, answering, deleting, proc>>
    BY <1>5 DEF DeleteIdle
  <2>2. bounds' \in BoundTypes
    BY <1>1, <2>1, WithinBound
  <2> QED BY <2>1, <2>2, CancelKinds DEF RunTypes, BoundTypes
<1>6. CASE LeaseExpires
  <2>1. /\ row' = [row EXCEPT !.expired = TRUE]
        /\ UNCHANGED bounds \/ Within("lapses", MaxLapses)
        /\ UNCHANGED <<attempts, task, live, answering, deleting, proc>>
    BY <1>6 DEF LeaseExpires
  <2>2. row' \in RunRow /\ row'.status = row.status /\ row'.lease = row.lease /\ row'.active = row.active
    BY <1>1, <2>1 DEF RunRow
  <2>3. Keeps
    BY <2>1, <2>2 DEF Keeps, RunSafe, LeasedIsUnderWay
  <2>4. bounds' \in BoundTypes
    BY <1>1, <2>1, WithinBound
  <2> QED BY <2>1, <2>2, <2>3, <2>4 DEF RunTypes, BoundTypes
<1> QED BY <1>2, <1>3, <1>4, <1>5, <1>6 DEF RequestStep

(***************************************************************************)
(* Processes that start, shut down and end.                                *)
(***************************************************************************)
LEMMA ProcessStepKept ==
    ASSUME RunTypes, RunSafe, NEW i \in Instances, ProcessStep(i)
    PROVE  RunKept
<1> USE DEF RunKept
<1>1. row \in RunRow /\ attempts \in AttemptRows /\ bounds \in BoundTypes
  BY DEF RunTypes, BoundTypes
<1>2. CASE Boot(i)
  <2>1. /\ proc' = [proc EXCEPT ![i] = "up"]
        /\ UNCHANGED <<rowVars, task, live, answering, deleting, bounds>>
    BY <1>2 DEF Boot
  <2> QED BY <2>1, Unwritten DEF RunTypes
<1>3. CASE Exit(i) \/ Crash(i)
  <2>1. bounds' \in BoundTypes
    BY <1>1, <1>3, WithinBound DEF Exit, Crash
  <2>2. Gone(i)
    BY <1>3 DEF Exit, Crash
  <2>3. task' \in [Attempts -> Tasks]
    BY <2>2 DEF Gone, RunTypes, Tasks
  <2> QED BY <2>1, <2>2, <2>3, Unwritten DEF Gone, RunTypes, BoundTypes
<1>4. CASE Shutdown(i)
  <2> DEFINE l == live[i]
  <2>1. /\ proc' = [proc EXCEPT ![i] = "stopping"] /\ live' = [live EXCEPT ![i] = None]
        /\ Within("exits", MaxExits) /\ UNCHANGED <<task, answering, deleting>>
    BY <1>4 DEF Shutdown
  <2>2. \/ UNCHANGED rowVars
        \/ /\ l # None /\ Fenced(l) /\ row' = FinishedRow(row, "recovering")
           /\ attempts' = [attempts EXCEPT ![l] = "failed"]
        \/ row' = Unleased(row) /\ attempts' = attempts
    BY <1>4 DEF Shutdown, rowVars
  <2>3. l \in Attempts \cup {None}
    BY DEF RunTypes
  <2>4. bounds' \in BoundTypes
    BY <1>1, <2>1, WithinBound
  <2> HIDE DEF l
  <2>5. ASSUME l # None, Fenced(l), row' = FinishedRow(row, "recovering"),
               attempts' = [attempts EXCEPT ![l] = "failed"]
        PROVE  row' \in RunRow /\ attempts' \in AttemptRows /\ Keeps
    <3>1. row' \in RunRow /\ row'.status = "recovering" /\ row'.lease = None
      BY <1>1, <2>5, RowsWritten DEF Statuses
    <3>2. attempts' \in AttemptRows /\ \A a \in Attempts : attempts'[a] = "completed" => attempts[a] = "completed"
      BY <1>1, <2>5 DEF AttemptRows, Ended
    <3>3. row.lease # None
      BY <2>5 DEF Fenced
    <3> QED BY <3>1, <3>2, <3>3 DEF Keeps, Ended
  <2>6. ASSUME row' = Unleased(row), attempts' = attempts
        PROVE  row' \in RunRow /\ attempts' \in AttemptRows /\ Keeps
    <3>1. row' \in RunRow /\ row'.status = row.status /\ row'.lease = None /\ row'.active = row.active
      BY <1>1, <2>6, RowsWritten
    <3> QED BY <1>1, <2>6, <3>1 DEF Keeps
  <2>7. row' \in RunRow /\ attempts' \in AttemptRows /\ Keeps
    BY <2>2, <2>5, <2>6, Unwritten
  <2> QED BY <2>1, <2>4, <2>7 DEF RunTypes, BoundTypes
<1> QED BY <1>2, <1>3, <1>4 DEF ProcessStep

-----------------------------------------------------------------------------
(***************************************************************************)
(* The watch: a delivery is under way only after it fired.                 *)
(***************************************************************************)
WatchSafe == DeliveredIsDone /\ \A i \in Instances : sink[i] # "idle" => watch = "fired"

\* Steps of the delivery itself.
LEMMA DeliveryKept ==
    ASSUME WatchTypes, WatchSafe, NEW i \in Instances, Evaluate(i) \/ DeliveryStep(i)
    PROVE  WatchTypes' /\ WatchSafe' /\ UNCHANGED runVars
<1> USE DEF WatchTypes, WatchSafe, DeliveredIsDone, TurnEnded
<1>1. CASE Evaluate(i)
  BY <1>1 DEF Evaluate
<1>2. CASE Continue(i)
  BY <1>2 DEF Continue
<1>3. CASE NoParent(i)
  BY <1>3 DEF NoParent
<1>4. CASE DeliveryThrows(i)
  BY <1>4 DEF DeliveryThrows
<1>5. CASE Mark(i)
  BY <1>5 DEF Mark, Result
<1>6. ASSUME NEW outcome \in TurnEnded, TurnEnds(i, outcome) PROVE WatchTypes' /\ WatchSafe' /\ UNCHANGED runVars
  BY <1>6 DEF TurnEnds
<1> QED BY <1>1, <1>2, <1>3, <1>4, <1>5, <1>6 DEF DeliveryStep

\* Steps that leave the delivery where it is, or drop it with its process.
LEMMA WatchKept ==
    ASSUME WatchTypes, WatchSafe, UNCHANGED <<watch, delivery, turn>>,
           dirty' \subseteq Instances, excused' \in BOOLEAN,
           sink' = sink \/ \E i \in Instances : sink' = [sink EXCEPT ![i] = "idle"]
    PROVE  WatchTypes' /\ WatchSafe'
BY DEF WatchTypes, WatchSafe, DeliveredIsDone

(***************************************************************************)
(* The invariant is inductive.                                             *)
(***************************************************************************)
DeliveryInv == RunTypes /\ WatchTypes /\ RunSafe /\ WatchSafe

LEMMA DeliveryInvHolds == DeliverySpec => []DeliveryInv
<1>1. DeliveryInit => DeliveryInv
  <2> SUFFICES ASSUME DeliveryInit PROVE DeliveryInv
    OBVIOUS
  <2>1. RunTypes
    BY RunConstants DEF DeliveryInit, RunInit, RunTypes, RunRow, AttemptRows, Tasks, Statuses
  <2>2. WatchTypes /\ WatchSafe
    BY DEF DeliveryInit, WatchTypes, WatchSafe, DeliveredIsDone
  <2>3. RunSafe
    BY DEF DeliveryInit, RunInit, RunSafe, ResultIsFenced, LeasedIsUnderWay
  <2> QED BY <2>1, <2>2, <2>3 DEF DeliveryInv
<1>2. DeliveryInv /\ [DeliveryNext]_deliveryVars => DeliveryInv'
  <2> SUFFICES ASSUME DeliveryInv, [DeliveryNext]_deliveryVars PROVE DeliveryInv'
    OBVIOUS
  <2> USE DEF DeliveryInv
  <2>1. ASSUME RunKept, WatchTypes' /\ WatchSafe' PROVE DeliveryInv'
    BY <2>1, KindsKeepSafe DEF RunKept
  <2>2. ASSUME UNCHANGED runVars PROVE RunKept
    BY <2>2, Unwritten DEF RunKept, RunTypes, runVars, rowVars
  <2>3. ASSUME UNCHANGED watchVars PROVE WatchTypes' /\ WatchSafe'
    BY <2>3, WatchKept DEF WatchTypes, watchVars
  <2>4. ASSUME NEW i, Publishes(i), i \in Instances PROVE WatchTypes' /\ WatchSafe'
    BY <2>4, WatchKept DEF WatchTypes, Publishes
  <2>5. CASE PublishingStep
    <3>1. ASSUME NEW i \in Instances, Start(i) \/ Answered(i) \/ DeleteEnds(i) \/ RequestStep(i), Publishes(i)
          PROVE  DeliveryInv'
      <4>1. RunKept
        BY <3>1, CoordinatorStepKept, RequestStepKept DEF CoordinatorStep
      <4> QED BY <2>1, <2>4, <3>1, <4>1
    <3>2. ASSUME NEW a \in Attempts, AttemptStep(a), Publishes(task[a].by)
          PROVE  DeliveryInv'
      <4>1. RunKept
        BY <3>2, AttemptStepKept
      <4>2. task[a].at # "none"
        BY <3>2 DEF AttemptStep, Opened, OpenFails, SettleIgnored, SettleWaiting, SettleRetry, SettleEnded,
                    Settles, Reports
      <4>3. task[a].by \in Instances
        BY <4>2 DEF RunTypes, Tasks, NoTask
      <4> QED BY <2>1, <2>4, <3>2, <4>1, <4>3
    <3> QED BY <2>5, <3>1, <3>2 DEF PublishingStep
  <2>6. CASE SilentStep
    <3>1. RunKept
      BY <2>6, CoordinatorStepKept, RequestStepKept DEF SilentStep, CoordinatorStep
    <3> QED BY <2>1, <2>3, <2>6, <3>1 DEF SilentStep
  <2>7. ASSUME NEW i \in Instances, WatchBoot(i) PROVE DeliveryInv'
    <3>1. RunKept
      BY <2>7, ProcessStepKept DEF WatchBoot, ProcessStep
    <3>2. WatchTypes' /\ WatchSafe'
      BY <2>7, WatchKept DEF WatchTypes, WatchBoot, BootAudit
    <3> QED BY <2>1, <3>1, <3>2
  <2>8. ASSUME NEW i \in Instances, WatchShutdown(i) PROVE DeliveryInv'
    <3>1. RunKept
      BY <2>8, ProcessStepKept DEF WatchShutdown, ProcessStep
    <3>2. WatchTypes' /\ WatchSafe'
      BY <2>8, WatchKept DEF WatchTypes, WatchShutdown
    <3> QED BY <2>1, <3>1, <3>2
  <2>9. ASSUME NEW i \in Instances, WatchGone(i) PROVE DeliveryInv'
    <3>1. RunKept
      BY <2>9, ProcessStepKept DEF WatchGone, ProcessStep
    <3>2. WatchTypes' /\ WatchSafe'
      BY <2>9, WatchKept DEF WatchTypes, WatchGone
    <3> QED BY <2>1, <3>1, <3>2
  <2>10. ASSUME NEW i \in Instances, Evaluate(i) \/ DeliveryStep(i) PROVE DeliveryInv'
    BY <2>1, <2>2, <2>10, DeliveryKept
  <2>11. CASE UNCHANGED deliveryVars
    BY <2>1, <2>2, <2>3, <2>11 DEF deliveryVars
  <2> QED BY <2>5, <2>6, <2>7, <2>8, <2>9, <2>10, <2>11 DEF DeliveryNext
<1> QED BY <1>1, <1>2, PTL DEF DeliverySpec

-----------------------------------------------------------------------------
(***************************************************************************)
(* Every variable of the runs, the coordinators and the watch stays in its *)
(* type.                                                                   *)
(***************************************************************************)
THEOREM DeliveryTypesHold == DeliverySpec => []DeliveryTypeOK
<1>1. DeliveryInv => DeliveryTypeOK
  BY TypesAreTypes DEF DeliveryInv
<1> QED BY <1>1, DeliveryInvHolds, PTL

(***************************************************************************)
(* At most one attempt of a run is ever recorded as completed, and a       *)
(* completed run names it (finalizeAttempt behind the lease's token),      *)
(* however many processes share the database and however leases lapse.     *)
(***************************************************************************)
THEOREM AtMostOneResult == DeliverySpec => []OneResult
<1>1. DeliveryInv => OneResult
  <2> SUFFICES ASSUME DeliveryInv PROVE OneResult
    OBVIOUS
  <2> DEFINE S == {a \in Attempts : attempts[a] = "completed"}
  <2>1. \A a, b \in S : a = b
    BY DEF DeliveryInv, RunSafe, ResultIsFenced
  <2>2. S = {} => Cardinality(S) = 0
    BY FS_EmptySet
  <2>3. ASSUME NEW a \in S PROVE Cardinality(S) = 1
    <3>1. S = {a}
      BY <2>1
    <3> HIDE DEF S
    <3> QED BY <3>1, FS_Singleton
  <2>4. Cardinality(S) <= 1
    BY <2>2, <2>3
  <2> QED BY <2>4 DEF OneResult, DeliveryInv, RunSafe, ResultIsFenced
<1> QED BY <1>1, DeliveryInvHolds, PTL

(***************************************************************************)
(* What administrativelyCancelRun asserts holds in every state: a run that *)
(* has ended has no lease.                                                 *)
(***************************************************************************)
THEOREM EndedRunsAreUnleased == DeliverySpec => []EndedIsUnleased
<1>1. DeliveryInv => EndedIsUnleased
  BY DEF DeliveryInv, RunSafe, LeasedIsUnderWay, EndedIsUnleased
<1> QED BY <1>1, DeliveryInvHolds, PTL

(***************************************************************************)
(* markWatchDelivery says delivered only when the continuation is          *)
(* completed on disk, and nothing is delivered before the watch fired.     *)
(***************************************************************************)
THEOREM DeliveredMeansDone == DeliverySpec => []DeliveredIsDone
<1>1. DeliveryInv => DeliveredIsDone
  BY DEF DeliveryInv, WatchSafe
<1> QED BY <1>1, DeliveryInvHolds, PTL

(***************************************************************************)
(* startRequestedSelfTurn answers a continuation that has ended from its   *)
(* row: whichever process repeats the delivery, it is not run again.       *)
(***************************************************************************)
THEOREM ContinuationIsRunOnce == DeliverySpec => ContinuationRunsOnce
<1> DEFINE Once == (turn \in TurnEnded) =>
                      /\ turn' = turn
                      /\ \A i \in Instances : sink'[i] = "turn" => sink[i] = "turn"
<1>1. DeliveryInv /\ [DeliveryNext]_deliveryVars => [Once]_deliveryVars
  <2> SUFFICES ASSUME DeliveryInv, DeliveryNext, turn \in TurnEnded
               PROVE  turn' = turn /\ \A j \in Instances : sink'[j] = "turn" => sink[j] = "turn"
    OBVIOUS
  <2>1. sink \in [Instances -> {"idle", "fired", "retry", "turn", "ended"}]
    BY DEF DeliveryInv, WatchTypes
  <2>2. CASE turn' = turn /\ sink' = sink
    BY <2>2
  <2>3. ASSUME NEW i \in Instances, WatchGone(i)
        PROVE  turn' = turn /\ \A j \in Instances : sink'[j] = "turn" => sink[j] = "turn"
    BY <2>1, <2>3 DEF WatchGone
  <2>4. ASSUME NEW i \in Instances, Evaluate(i)
        PROVE  turn' = turn /\ \A j \in Instances : sink'[j] = "turn" => sink[j] = "turn"
    BY <2>1, <2>4 DEF Evaluate
  <2>5. ASSUME NEW i \in Instances, DeliveryStep(i)
        PROVE  turn' = turn /\ \A j \in Instances : sink'[j] = "turn" => sink[j] = "turn"
    <3>1. CASE Continue(i) \/ NoParent(i) \/ Mark(i)
      BY <2>1, <3>1 DEF Continue, NoParent, Mark
    <3>2. CASE DeliveryThrows(i)
      BY <2>1, <3>2 DEF DeliveryThrows
    <3>3. ASSUME NEW outcome \in TurnEnded, TurnEnds(i, outcome)
          PROVE  turn' = turn /\ \A j \in Instances : sink'[j] = "turn" => sink[j] = "turn"
      BY <2>1, <3>3 DEF TurnEnds, TurnEnded
    <3> QED BY <2>5, <3>1, <3>2, <3>3 DEF DeliveryStep
  <2> QED BY <2>2, <2>3, <2>4, <2>5
       DEF DeliveryNext, PublishingStep, SilentStep, Publishes, WatchBoot, WatchShutdown, watchVars
<1> QED BY <1>1, DeliveryInvHolds, PTL DEF DeliverySpec, ContinuationRunsOnce
=============================================================================
