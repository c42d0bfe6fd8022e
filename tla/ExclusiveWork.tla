--------------------------- MODULE ExclusiveWork ---------------------------
(***************************************************************************)
(* What admission of scheduled work promises, whatever processes, leases   *)
(* and crashes there are: the work that is really going on for scheduled   *)
(* runs.  A job never has two executions at the same time and there are    *)
(* never more than Limit executions.                                       *)
(***************************************************************************)
EXTENDS Naturals, FiniteSets

CONSTANTS Runs,   \* run identifiers
          Jobs,   \* job identifiers
          Limit   \* maxConcurrentRuns

VARIABLE work     \* pairs <<run, job>>: an execution of that run goes on

Init == work = {}

\* An execution of run r starts: its job has none and there is room.
Begin(r, j) ==
    /\ \A w \in work : w[1] # r /\ w[2] # j
    /\ Cardinality(work) < Limit
    /\ work' = work \cup {<<r, j>>}

\* Executions end: one turn, or all those a process took down with it.
End == work' \subseteq work

Next == End \/ \E r \in Runs, j \in Jobs : Begin(r, j)

Spec == Init /\ [][Next]_work
=============================================================================
