-------------------------- MODULE AgentRunDelivery --------------------------
(***************************************************************************)
(* A Watch on the Agent Run and the continuation of its parent chat when   *)
(* the run has ended: agents/runs/agentRunWatchCoordinator.ts,             *)
(* agents/agentRunParentDelivery.ts, and scheduleWatchEvaluation and       *)
(* ProductionParentTarget of agents/agentRunAssembly.ts.                   *)
(*                                                                         *)
(* Every event of the run that a process commits makes that process        *)
(* evaluate the watch, and its boot does.  Firing is one compare-and-set;  *)
(* the delivery that follows may be cut off by a crash anywhere and is     *)
(* repeated by the next process.  The chat hub keeps the requested turn by *)
(* its identifier (module ChatHub); here it is one durable row.            *)
(***************************************************************************)
EXTENDS AgentRuns

VARIABLES
    watch,       \* agent_run_watches.status: "active" or "fired"
    delivery,    \* agent_run_watches.delivery_status
    turn,        \* status of the turn named requestedTurnId, "none" before it
    dirty,       \* processes in which an evaluation of the watch is due
    sink,        \* where the evaluation of a process is
    excused      \* history: processes overlapped, or a redelivery was refused

watchVars == <<watch, delivery, turn, dirty, sink, excused>>
deliveryVars == <<runVars, watchVars>>

TurnEnded == {"completed", "error"}

-----------------------------------------------------------------------------
(* Steps of the runs, as the watch coordinator of the process sees them     *)

\* publishCommitted, and scheduleWatchEvaluation as its subscriber.
Publishes(i) ==
    /\ dirty' = IF row' # row /\ proc[i] = "up" THEN dirty \cup {i} ELSE dirty
    /\ UNCHANGED <<watch, delivery, turn, sink, excused>>

\* Steps that commit no event through the bus of their process.
SilentStep ==
    /\ \/ \E i \in Instances : Reclaim(i) \/ Heartbeat(i)
       \/ LeaseExpires
    /\ UNCHANGED watchVars

PublishingStep ==
    \/ \E i \in Instances :
          (Start(i) \/ Answered(i) \/ DeleteEnds(i) \/ RequestStep(i)) /\ Publishes(i)
    \/ \E a \in Attempts : AttemptStep(a) /\ Publishes(task[a].by)

\* Mutant: a new process waits for the first event.
BootsQuiet(i) == UNCHANGED dirty

\* recoverStartup.
BootAudit(i) == dirty' = dirty \cup {i}

WatchBoot(i) ==
    /\ Boot(i)
    /\ BootAudit(i)
    /\ excused' = (excused \/ \E j \in Instances : Alive(j))
    /\ UNCHANGED <<watch, delivery, turn, sink>>

\* shutdown drops the subscription first; a delivery under way goes on.
WatchShutdown(i) ==
    /\ Shutdown(i)
    /\ dirty' = dirty \ {i}
    /\ UNCHANGED <<watch, delivery, turn, sink, excused>>

WatchGone(i) ==
    /\ Exit(i) \/ Crash(i)
    /\ dirty' = dirty \ {i}
    /\ sink' = [sink EXCEPT ![i] = "idle"]
    /\ UNCHANGED <<watch, delivery, turn, excused>>

-----------------------------------------------------------------------------
(* recoverStartupWatches, one pass at a time in a process                   *)

\* evaluate of an active watch, or redeliverFired of one whose delivery is
\* pending, up to the await of the parent's session.
Evaluate(i) ==
    /\ proc[i] = "up" /\ i \in dirty /\ sink[i] = "idle"
    /\ dirty' = dirty \ {i}
    /\ IF watch = "active" /\ row.status \in Ended
       THEN watch' = "fired" /\ sink' = [sink EXCEPT ![i] = "fired"]
       ELSE /\ sink' = IF watch = "fired" /\ delivery = "pending"
                        THEN [sink EXCEPT ![i] = "retry"] ELSE sink
            /\ UNCHANGED watch
    /\ UNCHANGED <<runVars, delivery, turn, excused>>

\* The delivery throws: the second half of the pass tries once more, then the
\* failure is recorded and the next event or boot tries again.
DeliveryThrows(i) ==
    /\ Alive(i) /\ sink[i] \in {"fired", "retry"}
    /\ sink' = [sink EXCEPT ![i] = IF @ = "fired" THEN "retry" ELSE "idle"]
    /\ excused' = (excused \/ sink[i] = "retry")
    /\ UNCHANGED <<runVars, watch, delivery, turn, dirty>>

\* ensureParentSession finds no session.
NoParent(i) ==
    /\ Alive(i) /\ sink[i] \in {"fired", "retry"}
    /\ delivery' = "undeliverable"
    /\ sink' = [sink EXCEPT ![i] = "idle"]
    /\ UNCHANGED <<runVars, watch, turn, dirty, excused>>

\* Mutant: a turn that has ended is started again.
ContinueAgain(i) ==
    /\ Alive(i) /\ sink[i] \in {"fired", "retry"}
    /\ turn' = "active"
    /\ sink' = [sink EXCEPT ![i] = "turn"]
    /\ UNCHANGED <<runVars, watch, delivery, dirty, excused>>

\* startRequestedSelfTurn: the turn starts, one that another process left
\* active is taken up, and one that has ended is answered from its row.
Continue(i) ==
    /\ Alive(i) /\ sink[i] \in {"fired", "retry"}
    /\ turn' = IF turn \in TurnEnded THEN turn ELSE "active"
    /\ sink' = [sink EXCEPT ![i] = IF turn \in TurnEnded THEN "ended" ELSE "turn"]
    /\ UNCHANGED <<runVars, watch, delivery, dirty, excused>>

\* The turn ends; its row takes the first outcome only.
TurnEnds(i, outcome) ==
    /\ Alive(i) /\ sink[i] = "turn"
    /\ turn' = IF turn = "active" THEN outcome ELSE turn
    /\ sink' = [sink EXCEPT ![i] = "ended"]
    /\ UNCHANGED <<runVars, watch, delivery, dirty, excused>>

\* Mutant: a turn that was started counts as delivered.
ResultStarted == "delivered"

\* What continueParent answers once the turn is done.
Result == IF turn = "completed" THEN "delivered" ELSE "undeliverable"

\* markTerminal and markWatchDelivery.
Mark(i) ==
    /\ Alive(i) /\ sink[i] = "ended"
    /\ delivery' = Result
    /\ sink' = [sink EXCEPT ![i] = "idle"]
    /\ UNCHANGED <<runVars, watch, turn, dirty, excused>>

DeliveryStep(i) ==
    \/ Continue(i)
    \/ NoParent(i)
    \/ DeliveryThrows(i)
    \/ Mark(i)
    \/ \E outcome \in TurnEnded : TurnEnds(i, outcome)

-----------------------------------------------------------------------------
DeliveryInit ==
    /\ RunInit
    /\ watch = "active" /\ delivery = "pending" /\ turn = "none"
    /\ dirty = {} /\ sink = [i \in Instances |-> "idle"] /\ excused = FALSE

DeliveryNext ==
    \/ PublishingStep
    \/ SilentStep
    \/ \E i \in Instances : WatchBoot(i) \/ WatchShutdown(i) \/ WatchGone(i)
    \/ \E i \in Instances : Evaluate(i) \/ DeliveryStep(i)

DeliverySpec == DeliveryInit /\ [][DeliveryNext]_deliveryVars

\* A round of the recovery timer, recoverRunnableRuns.
RecoverRunnable(i) ==
    \/ Start(i) /\ Publishes(i)
    \/ Reclaim(i) /\ UNCHANGED watchVars

(* Fairness: the recovery timer starts and reclaims runs, sessions open or   *)
(* fail, agents report in the end, a lease nobody renews runs out, and       *)
(* evaluations and deliveries of a process proceed.                          *)
FairDeliverySpec ==
    /\ DeliverySpec
    /\ \A i \in Instances :
          /\ WF_deliveryVars(RecoverRunnable(i))
          /\ WF_deliveryVars(DeleteEnds(i) /\ Publishes(i))
          /\ WF_deliveryVars(Evaluate(i) \/ DeliveryStep(i))
    /\ \A a \in Attempts : WF_deliveryVars(AttemptStep(a) /\ Publishes(task[a].by))
    /\ WF_deliveryVars(LeaseExpires /\ Unrenewed /\ UNCHANGED watchVars)

-----------------------------------------------------------------------------
(* Properties *)

\* Every variable stays in its type.
DeliveryTypeOK ==
    /\ row \in [status : DOMAIN Transitions, lease : Attempts \cup {None}, expired : BOOLEAN,
                active : Attempts \cup {None}, pending : BOOLEAN]
    /\ attempts \in [Attempts -> {"none", "preparing"} \cup Ended]
    /\ task \in [Attempts -> {NoTask} \cup [at : {"opening", "running", "asked"}, by : Instances]]
    /\ live \in [Instances -> Attempts \cup {None}]
    /\ answering \in [Instances -> Attempts \cup {None}]
    /\ deleting \in [Instances -> Attempts \cup {None}]
    /\ proc \in [Instances -> {"off", "up", "stopping", "dead"}]
    /\ bounds \in [lapses : 0 .. MaxLapses, exits : 0 .. MaxExits, requests : 0 .. MaxRequests]
    /\ watch \in {"active", "fired"} /\ delivery \in {"pending", "delivered", "undeliverable"}
    /\ turn \in {"none", "active"} \cup TurnEnded
    /\ dirty \subseteq Instances /\ excused \in BOOLEAN
    /\ sink \in [Instances -> {"idle", "fired", "retry", "turn", "ended"}]

\* However leases lapse and attempts come back late, at most one attempt is
\* recorded as completed, and a completed run's active attempt is that one.
OneResult ==
    /\ Cardinality({a \in Attempts : attempts[a] = "completed"}) <= 1
    /\ row.status = "completed" => attempts[row.active] = "completed"

\* What administrativelyCancelRun asserts ("terminal Run still has a live
\* lease"): a run that has ended is leased by nobody.
EndedIsUnleased == row.status \in Ended => row.lease = None

\* The parent was told so only when its continuation is completed on disk, and
\* only after the watch fired.
DeliveredIsDone ==
    /\ delivery = "delivered" => turn = "completed"
    /\ delivery # "pending" \/ turn # "none" => watch = "fired"

\* A continuation that has ended is not run again, by whichever process
\* repeats its delivery.
ContinuationRunsOnce ==
    [][(turn \in TurnEnded) =>
          /\ turn' = turn
          /\ \A i \in Instances : sink'[i] = "turn" => sink[i] = "turn"]_deliveryVars

\* A deletion was under way when the handle of attempt a reported: the outcome is
\* dropped, and when the deletion then fails the attempt stays live until the
\* deletion is repeated.
OutcomeDropped(a) == \E i \in Instances : live[i] = a /\ task[a] = NoTask

\* No attempt keeps the lease for ever unless it waits for the user, or its
\* outcome was dropped for a deletion: sessions that never open, crashes and
\* late attempts that take the run over included.
LeaseEnds ==
    \A a \in Attempts :
        row.lease = a ~> \/ row.lease # a
                        \/ row.status = "waiting" \/ task[a].at = "asked"
                        \/ OutcomeDropped(a)
                        \/ \A i \in Instances : proc[i] # "up"

\* The end of a run reaches the parent, also when the process that recorded it
\* dies before the evaluation or in the middle of the delivery.
EndIsDelivered ==
    row.status \in Ended ~> \/ delivery # "pending"
                            \/ row.status \notin Ended
                            \/ excused
                            \/ \A i \in Instances : proc[i] # "up"
=============================================================================
