--------------------------- MODULE ClaudeSessions ---------------------------
(***************************************************************************)
(* ClaudeSessionManager (adapters/claude/ClaudeSessionManager.ts) on top   *)
(* of SessionAcquisition: sessions by public id, the budget of             *)
(* subprocesses, reclaiming idle sessions, one slot of ClaudeWarmPool, and *)
(* the disposal of a ClaudeSession, which may fail to confirm that its     *)
(* process has exited.                                                     *)
(*                                                                         *)
(* Left out: shutdown, crashes of a process in use, workspaces and models  *)
(* of the warm pool (a slot may be filled or emptied at any time), the     *)
(* order of least recent use, and waitForWarm.                             *)
(***************************************************************************)
EXTENDS SessionAcquisition

CONSTANTS
    Acquired,    \* ids and owners that sessions are asked for
    Released,    \* ids and owners that sessions are released for
    Cap,         \* concurrencyCap
    WarmSlots,   \* sessionsPerSlot
    MaxSpawns    \* bound: sessions created

ASSUME SessionConstants ==
    /\ Acquired \subseteq Ids \X Owners /\ Released \subseteq Ids \X Owners
    /\ Cap \in Nat \ {0} /\ WarmSlots \in Nat /\ MaxSpawns \in Nat

VARIABLES
    session,     \* each ClaudeSession: id, owner, spawned for a caller, state of its process
    active,      \* this.active: id -> session
    warm,        \* entries of the warm pool
    warming,     \* sessions being spawned for the pool, and how far
    spawns,      \* pendingSpawns
    held         \* the session each caller was given last, until it is gone

managerVars == <<session, active, warm, warming, spawns, held>>
sessionVars == <<acquisitionVars, managerVars>>

Sessions == 1 .. MaxSpawns
NoSession == [id |-> None, owner |-> None, cold |-> FALSE, st |-> "none"]
Gone == [NoSession EXCEPT !.st = "gone"]

\* The process of the session may be running.
Running(s) == session[s].st \in {"spawning", "idle", "retiring", "unconfirmed"}

Fresh == {s \in Sessions : session[s].st = "none" /\ \A t \in Sessions :
                               t < s => session[t].st # "none"}

Active == {active[id] : id \in Ids} \ {None}

\* totalCount.
Total == Cardinality(Active) + Cardinality(warm) + spawns

SetState(s, st) == [session EXCEPT ![s].st = st]

Move(a, at, on) == [caller EXCEPT ![a].at = at, ![a].on = on]

-----------------------------------------------------------------------------
(* acquireSession, createFreshSession and restoreSession *)

AcquireSession(a, id, owner) ==
    /\ Acquire(a, id, owner)
    /\ held' = [held EXCEPT ![a] = None]
    /\ UNCHANGED <<session, active, warm, warming, spawns>>

PastRelease(a) == PastBarrier(a) /\ UNCHANGED managerVars

\* The creation ends with session s, given to all who share it and own it, or
\* with None.
Deliver(a, s, sessions) ==
    /\ WorkSettles(a, s # None)
    /\ held' = [c \in Callers |-> IF c \notin Sharing(a) THEN held[c]
                                  ELSE IF s # None /\ caller[c].owner = sessions[s].owner
                                       THEN s ELSE None]

\* getCompatible finds a session: it is returned, or refused to another owner.
FindExisting(a) ==
    LET s == active[caller[a].id]
    IN  /\ caller[a].at = "creating" /\ s # None
        /\ Deliver(a, IF session[s].owner = caller[a].owner THEN s ELSE None, session)
        /\ UNCHANGED <<session, active, warm, warming, spawns>>

\* pool.take, rebindIdentity and registerActiveSession.
TakeWarm(a) ==
    LET id == caller[a].id
    IN  /\ caller[a].at = "creating" /\ active[id] = None
        /\ \E s \in warm :
              /\ session' = [session EXCEPT ![s].id = id, ![s].owner = caller[a].owner]
              /\ active' = [active EXCEPT ![id] = s]
              /\ warm' = warm \ {s}
              /\ Deliver(a, s, session')
        /\ UNCHANGED <<warming, spawns>>

\* No session of the id, and no warm one, or none for this kind of session:
\* reclaimForActive looks for room.
Searching(a) ==
    caller[a].at = "searching" \/ (caller[a].at = "creating" /\ active[caller[a].id] = None)

\* evictOldest: the entry leaves the pool first, its disposal is awaited.
Evict(a) ==
    /\ Searching(a) /\ Total >= Cap
    /\ \E s \in warm :
          /\ warm' = warm \ {s}
          /\ session' = SetState(s, "retiring")
          /\ caller' = Move(a, "evicting", s)
    /\ UNCHANGED <<pending, releases, barrier, active, warming, spawns, held>>

\* reclaimActiveSession: sessions whose disposal has begun come first.
Reclaim(a) ==
    LET dead == {s \in Active : session[s].st \in {"retiring", "unconfirmed"}}
    IN  /\ Searching(a) /\ Total >= Cap /\ warm = {}
        /\ \E s \in IF dead # {} THEN dead ELSE Active :
              /\ session' = SetState(s, "retiring")
              /\ caller' = Move(a, "reclaiming", s)
        /\ UNCHANGED <<pending, releases, barrier, active, warm, warming, spawns, held>>

\* There is room, or every session is in a turn or protected by background work.
EndSearch(a) ==
    /\ Searching(a)
    /\ Total < Cap \/ (warm = {} /\ \A s \in Active : session[s].st = "idle")
    /\ caller' = Move(a, "reserving", None)
    /\ UNCHANGED <<pending, releases, barrier, managerVars>>

\* The room is gone, or there was none.
NoCapacity(a) ==
    /\ caller[a].at = "reserving" /\ Total >= Cap
    /\ Deliver(a, None, session)
    /\ UNCHANGED <<session, active, warm, warming, spawns>>

\* Mutant: the slot is checked but not counted.
ReserveUncounted(s) == UNCHANGED spawns

\* The reservation of reserveSlot, held until the session s is counted itself.
Reserve(s) == spawns' = spawns + 1

Spawn(a) ==
    /\ caller[a].at = "reserving" /\ Total < Cap
    /\ \E s \in Fresh :
          /\ session' = [session EXCEPT ![s] =
                            [id |-> caller[a].id, owner |-> caller[a].owner, cold |-> TRUE,
                             st |-> "spawning"]]
          /\ caller' = Move(a, "spawning", s)
          /\ Reserve(s)
    /\ UNCHANGED <<pending, releases, barrier, active, warm, warming, held>>

Spawned(a) ==
    LET s == caller[a].on
    IN  /\ caller[a].at = "spawning"
        /\ session' = SetState(s, "idle")
        /\ active' = [active EXCEPT ![caller[a].id] = s]
        /\ spawns' = IF spawns > 0 THEN spawns - 1 ELSE 0
        /\ Deliver(a, s, session')
        /\ UNCHANGED <<warm, warming>>

\* The spawn fails: the session is disposed of, whatever comes of it.
SpawnFails(a) ==
    /\ caller[a].at = "spawning"
    /\ session' = SetState(caller[a].on, "retiring")
    /\ caller' = Move(a, "failing", caller[a].on)
    /\ UNCHANGED <<pending, releases, barrier, active, warm, warming, spawns, held>>

\* The session fails to start before it has a process.
NotStarted(a) ==
    /\ caller[a].at = "reserving" /\ Total < Cap
    /\ Deliver(a, None, session)
    /\ UNCHANGED <<session, active, warm, warming, spawns>>

-----------------------------------------------------------------------------
(* releaseSession; one without an expected owner acts as the owner's *)

ReleaseSession(r, id, owner) == Release(r, id, owner) /\ UNCHANGED managerVars

\* disposeSession up to its await; it ends at once for another owner, or when
\* there is no session.
Cleanup(r) ==
    LET b == barrier[r]
        s == active[b.id]
    IN  /\ CleanupDue(r)
        /\ IF s # None /\ b.owner = session[s].owner
           THEN /\ barrier' = [barrier EXCEPT ![r].at = "cleaning", ![r].on = s, ![r].prev = None,
                                              ![r].failedCleanup = Inherits(r)]
                /\ session' = SetState(s, "retiring")
                /\ UNCHANGED releases
           ELSE /\ barrier' = [barrier EXCEPT ![r] =
                      SettledBarrier(b, Inherits(r), IF s = None THEN "done" ELSE "refused")]
                /\ releases' = ReleasesAfter({r}, barrier')
                /\ UNCHANGED session
        /\ UNCHANGED <<pending, caller, active, warm, warming, spawns, held>>

-----------------------------------------------------------------------------
(* The end of a disposal, and all who await it *)

\* A caller whose disposal of s has ended.
AfterDisposal(call, ok) ==
    CASE call.at = "evicting" -> [call EXCEPT !.at = "searching", !.on = None]
      [] call.at = "reclaiming" /\ ok -> [call EXCEPT !.at = "searching", !.on = None]
      [] OTHER -> [call EXCEPT !.at = "rejected", !.on = None]

Disposing(s) ==
    {a \in Callers : caller[a].on = s /\ caller[a].at \in {"evicting", "reclaiming", "failing"}}

\* Reservations that end with the disposal of s: those of spawns that failed.
Freed(s) ==
    Cardinality({a \in Disposing(s) : caller[a].at = "failing"}
                  \cup {t \in DOMAIN warming : t = s /\ warming[t] = "failing"})

Cleaning(s) == {r \in Releases : barrier[r].at = "cleaning" /\ barrier[r].on = s}

\* retireProcess settles: the process has exited, or that is not confirmed.
\* The disposed callback takes the session out of active.
Retired(s, ok) ==
    /\ session[s].st = "retiring"
    /\ session' = IF ok THEN [session EXCEPT ![s] = Gone] ELSE SetState(s, "unconfirmed")
    /\ held' = [a \in Callers |-> IF ok /\ held[a] = s THEN None ELSE held[a]]
    /\ active' = [id \in Ids |-> IF ok /\ active[id] = s THEN None ELSE active[id]]
    /\ caller' = [a \in Callers |-> IF a \in Disposing(s) THEN AfterDisposal(caller[a], ok)
                                    ELSE caller[a]]
    /\ spawns' = spawns - Freed(s)
    /\ warming' = [t \in DOMAIN warming \ {s} |-> warming[t]]
    /\ barrier' = [r \in Releases |->
          IF r \in Cleaning(s)
          THEN SettledBarrier(barrier[r], barrier[r].failedCleanup, IF ok THEN "done" ELSE "failed")
          ELSE barrier[r]]
    /\ releases' = ReleasesAfter(Cleaning(s), barrier')
    /\ UNCHANGED <<pending, warm>>

\* The creation fails with the disposal, or after it.
Rejected(a) ==
    /\ caller[a].at = "rejected"
    /\ Deliver(a, None, session)
    /\ UNCHANGED <<session, active, warm, warming, spawns>>

\* A process that was not confirmed exits after all, by the callback of its exit.
LateExit(s) ==
    /\ session[s].st = "unconfirmed"
    /\ session' = [session EXCEPT ![s] = Gone]
    /\ held' = [a \in Callers |-> IF held[a] = s THEN None ELSE held[a]]
    /\ active' = [id \in Ids |-> IF active[id] = s THEN None ELSE active[id]]
    /\ UNCHANGED <<acquisitionVars, warm, warming, spawns>>

-----------------------------------------------------------------------------
(* The warm pool *)

\* warmSlot and spawnWarmSession; spawns of a slot that are under way are not
\* repeated.
WarmStart ==
    /\ Cardinality(warm) < WarmSlots /\ Cardinality(DOMAIN warming) < WarmSlots
    /\ Total < Cap
    /\ \E s \in Fresh :
          /\ session' = SetState(s, "spawning")
          /\ warming' = [t \in DOMAIN warming \cup {s} |-> IF t = s THEN "spawning" ELSE warming[t]]
    /\ spawns' = spawns + 1
    /\ UNCHANGED <<acquisitionVars, active, warm, held>>

\* spawnWarmSession ends, and with it the reservation; the entry follows later.
WarmReady(s) ==
    /\ s \in DOMAIN warming /\ warming[s] = "spawning"
    /\ spawns' = spawns - 1
    /\ session' = SetState(s, "idle")
    /\ warming' = [warming EXCEPT ![s] = "ready"]
    /\ UNCHANGED <<acquisitionVars, active, warm, held>>

WarmFails(s) ==
    /\ s \in DOMAIN warming /\ warming[s] = "spawning"
    /\ session' = SetState(s, "retiring")
    /\ warming' = [warming EXCEPT ![s] = "failing"]
    /\ UNCHANGED <<acquisitionVars, active, warm, spawns, held>>

\* The pool takes the session, unless its workspace or model is gone or the slot
\* is full.
WarmLands(s) ==
    /\ s \in DOMAIN warming /\ warming[s] = "ready"
    /\ \/ /\ Cardinality(warm) < WarmSlots
          /\ warm' = warm \cup {s}
          /\ warming' = [t \in DOMAIN warming \ {s} |-> warming[t]]
          /\ UNCHANGED session
       \/ /\ session' = SetState(s, "retiring")
          /\ warming' = [warming EXCEPT ![s] = "dropped"]
          /\ UNCHANGED warm
    /\ UNCHANGED <<acquisitionVars, active, spawns, held>>

\* expireEntry, evictModel and evictWorkspace do not wait for the disposal.
WarmExpires(s) ==
    /\ s \in warm
    /\ warm' = warm \ {s}
    /\ session' = SetState(s, "retiring")
    /\ UNCHANGED <<acquisitionVars, active, warming, spawns, held>>

-----------------------------------------------------------------------------
SessionInit ==
    /\ AcquisitionInit
    /\ session = [s \in Sessions |-> NoSession]
    /\ active = [id \in Ids |-> None]
    /\ warm = {} /\ warming = << >> /\ spawns = 0
    /\ held = [a \in Callers |-> None]

CreationStep(a) ==
    \/ FindExisting(a)
    \/ TakeWarm(a)
    \/ Evict(a)
    \/ Reclaim(a)
    \/ EndSearch(a)
    \/ NoCapacity(a)
    \/ Spawn(a)
    \/ Spawned(a)
    \/ SpawnFails(a)
    \/ NotStarted(a)
    \/ Rejected(a)

DisposalEnds(s) == \E ok \in BOOLEAN : Retired(s, ok)

WarmStep(s) == WarmReady(s) \/ WarmFails(s) \/ WarmLands(s)

SessionNext ==
    \/ \E a \in Callers, q \in Acquired : AcquireSession(a, q[1], q[2])
    \/ \E r \in Releases, q \in Released : ReleaseSession(r, q[1], q[2])
    \/ \E a \in Callers : PastRelease(a) \/ CreationStep(a)
    \/ \E r \in Releases : Cleanup(r)
    \/ \E s \in Sessions : DisposalEnds(s) \/ LateExit(s) \/ WarmStep(s) \/ WarmExpires(s)
    \/ WarmStart

SessionSpec == SessionInit /\ [][SessionNext]_sessionVars

(* Fairness: reactions run, and spawns and disposals end, each by its own    *)
(* deadline.                                                                 *)
FairSessionSpec ==
    /\ SessionSpec
    /\ \A a \in Callers : WF_sessionVars(PastRelease(a) \/ CreationStep(a))
    /\ \A r \in Releases : WF_sessionVars(Cleanup(r))
    /\ \A s \in Sessions : WF_sessionVars(DisposalEnds(s))

-----------------------------------------------------------------------------
(* Properties *)

\* Every variable stays in its type.
SessionTypeOK ==
    /\ pending \in [Ids -> Callers \cup {None}]
    /\ releases \in [Ids -> Releases \cup {None}]
    /\ \A a \in Callers :
          /\ caller[a].at \in {"idle", "barrier", "joined", "creating", "searching", "reserving", "evicting",
                               "reclaiming", "spawning", "failing", "rejected"}
          /\ caller[a].id \in Ids \cup {None} /\ caller[a].owner \in Owners \cup {None}
    /\ \A r \in Releases :
          /\ barrier[r].at \in {"unused", "waiting", "cleaning"} \cup Settled
          /\ barrier[r].prev \in 0 .. r - 1 /\ barrier[r].failedCleanup \in BOOLEAN
    /\ session \in [Sessions -> [id : Ids \cup {None}, owner : Owners \cup {None}, cold : BOOLEAN,
             st : {"none", "spawning", "idle", "retiring", "unconfirmed", "gone"}]]
    /\ active \in [Ids -> Sessions \cup {None}] /\ warm \subseteq Sessions
    /\ DOMAIN warming \subseteq Sessions /\ spawns \in 0 .. MaxSpawns
    /\ held \in [Callers -> Sessions \cup {None}]

\* What the reservations are for: sessions spawned for a caller, and spawns under
\* way, never exceed the budget.  A warm session may, since its reservation ends
\* before its entry in the pool counts.
WithinBudget == Cardinality({s \in Active : session[s].cold}) + spawns <= Cap

\* The process of a creation that failed, whose end was not confirmed: nobody
\* knows it any more.
Stray(s) == session[s].st = "unconfirmed" /\ s \notin Active

\* "so two providers cannot overlap under one id" (sessionAcquisition.ts),
\* processes of failed creations apart.
OneProvider ==
    \A id \in Ids : Cardinality({s \in Sessions : session[s].id = id /\ Running(s) /\ ~Stray(s)}) <= 1

\* A release that succeeds leaves no session of its id: not even one whose
\* creation was under way when the release was called.
ReleasedIsGone ==
    [][\A r \in Releases : barrier[r].at # "done" /\ barrier'[r].at = "done" =>
          active'[barrier[r].id] = None /\ pending'[barrier[r].id] = None]_sessionVars

\* A session that a release is tearing down, or could not tear down, is given to
\* nobody, whichever releases and refusals came in between.
NotGivenAway ==
    [][\A a \in Callers : held'[a] # held[a] /\ held'[a] # None =>
          /\ Cleaning(held'[a]) = {}
          /\ \A r \in Releases : barrier[r].at = "failed" /\ barrier[r].id = session'[held'[a]].id =>
                \E q \in Releases : q > r /\ barrier[q].at = "done" /\ barrier[q].id = barrier[r].id]_sessionVars

\* Every call ends, whatever waits for what.
CallsEnd ==
    /\ \A a \in Callers : caller[a].at # "idle" ~> caller[a].at = "idle"
    /\ \A r \in Releases : barrier[r].at = "waiting" ~> barrier[r].at \in Settled
=============================================================================
