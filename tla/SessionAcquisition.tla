------------------------- MODULE SessionAcquisition -------------------------
(***************************************************************************)
(* PendingSessionAcquisitions (runtime/src/core/sessionAcquisition.ts): at *)
(* most one creation per public session id is under way, later callers     *)
(* join it, and a release is a barrier that acquisitions of the id wait    *)
(* for.  A release whose cleanup could not be confirmed stays in the map   *)
(* as a tombstone until a later release of the id succeeds.                *)
(*                                                                         *)
(* What create and cleanup do belongs to the runtime (module               *)
(* ClaudeSessions): here are the steps of the two maps.  A promise is      *)
(* named by the call whose work it is.  The reactions to a settled promise *)
(* run in one drain of the microtask queue and are one step.               *)
(***************************************************************************)
EXTENDS Integers, FiniteSets

CONSTANTS
    Ids,           \* public session ids
    Owners,        \* who may own a session: attempts of a run, a chat
    Callers,       \* concurrent callers of acquire
    MaxReleases    \* bound: calls of release

None == 0

ASSUME AcquisitionConstants ==
    MaxReleases \in Nat /\ None \notin Ids \cup Owners \cup Callers

VARIABLES
    pending,     \* this: id -> the caller whose creation is in the map
    releases,    \* this.releases: id -> the release whose barrier is in the map
    caller,      \* where each caller of acquire is
    barrier      \* each call of release, and its barrier

acquisitionVars == <<pending, releases, caller, barrier>>

Releases == 1 .. MaxReleases
Settled == {"done", "refused", "failed"}

NoCall == [at |-> "idle", id |-> None, owner |-> None, on |-> None]
Unused == [at |-> "unused", id |-> None, owner |-> None, prev |-> None, on |-> None,
           failedCleanup |-> FALSE]

AcquisitionInit ==
    /\ pending = [id \in Ids |-> None]
    /\ releases = [id \in Ids |-> None]
    /\ caller = [a \in Callers |-> NoCall]
    /\ barrier = [r \in Releases |-> Unused]

-----------------------------------------------------------------------------
(* acquire *)

\* Mutant: a creation under way is not joined.
EnterAlone(a, id, owner) ==
    LET call(at, on) == [at |-> at, id |-> id, owner |-> owner, on |-> on]
    IN  IF releases[id] # None
        THEN /\ caller' = [caller EXCEPT ![a] = call("barrier", releases[id])]
             /\ UNCHANGED pending
        ELSE /\ caller' = [caller EXCEPT ![a] = call("creating", None)]
             /\ pending' = [pending EXCEPT ![id] = a]

\* acquire up to its first await: the barrier, the creation of another caller,
\* or a reservation for a creation of its own.
Enter(a, id, owner) ==
    LET call(at, on) == [at |-> at, id |-> id, owner |-> owner, on |-> on]
    IN  IF releases[id] # None
        THEN /\ caller' = [caller EXCEPT ![a] = call("barrier", releases[id])]
             /\ UNCHANGED pending
        ELSE IF pending[id] # None
        THEN /\ caller' = [caller EXCEPT ![a] = call("joined", pending[id])]
             /\ UNCHANGED pending
        ELSE /\ caller' = [caller EXCEPT ![a] = call("creating", None)]
             /\ pending' = [pending EXCEPT ![id] = a]

Acquire(a, id, owner) ==
    /\ caller[a].at = "idle"
    /\ Enter(a, id, owner)
    /\ UNCHANGED <<releases, barrier>>

\* awaitRelease: a refused release says nothing about the session, a cleanup that
\* failed, here or in a release before it, is thrown.
PastBarrier(a) ==
    /\ caller[a].at = "barrier"
    /\ barrier[caller[a].on].at \in Settled
    /\ IF barrier[caller[a].on].failedCleanup
       THEN caller' = [caller EXCEPT ![a] = NoCall] /\ UNCHANGED pending
       ELSE Enter(a, caller[a].id, caller[a].owner)
    /\ UNCHANGED <<releases, barrier>>

\* Callers that await the creation of caller a, itself included.
Sharing(a) == {a} \cup {c \in Callers : caller[c].at = "joined" /\ caller[c].on = a}

\* Mutant: only a creation that succeeds leaves the map.
WorkSettlesKept(a, ok) ==
    /\ caller' = [c \in Callers |-> IF c \in Sharing(a) THEN NoCall ELSE caller[c]]
    /\ pending' = IF ok THEN [pending EXCEPT ![caller[a].id] = None] ELSE pending
    /\ barrier' = [r \in Releases |-> IF barrier[r].on = a /\ barrier[r].at = "waiting"
                                      THEN [barrier[r] EXCEPT !.on = None] ELSE barrier[r]]
    /\ UNCHANGED releases

\* The creation of caller a resolves or rejects: it leaves the map, and all who
\* await it go on.
WorkSettles(a, ok) ==
    /\ caller' = [c \in Callers |-> IF c \in Sharing(a) THEN NoCall ELSE caller[c]]
    /\ pending' = [pending EXCEPT ![caller[a].id] = None]
    /\ barrier' = [r \in Releases |-> IF barrier[r].on = a /\ barrier[r].at = "waiting"
                                      THEN [barrier[r] EXCEPT !.on = None] ELSE barrier[r]]
    /\ UNCHANGED releases

-----------------------------------------------------------------------------
(* release *)

\* Mutant: a creation under way is not waited for.
AwaitsNothing(id) == None

\* The creation a release of id waits for.
Awaits(id) == pending[id]

Release(r, id, owner) ==
    /\ barrier[r].at = "unused"
    /\ \A q \in Releases : q < r => barrier[q].at # "unused"
    /\ barrier' = [barrier EXCEPT ![r] =
                      [at |-> "waiting", id |-> id, owner |-> owner, prev |-> releases[id],
                       on |-> Awaits(id), failedCleanup |-> FALSE]]
    /\ releases' = [releases EXCEPT ![id] = r]
    /\ UNCHANGED <<pending, caller>>

\* cleanup of r is due: the release before it and the creation have settled.
CleanupDue(r) ==
    /\ barrier[r].at = "waiting" /\ barrier[r].on = None
    /\ barrier[r].prev # None => barrier[barrier[r].prev].at \in Settled

\* Mutant: the failure of the release before is forgotten.
InheritsNothing(r) == FALSE

\* failedCleanup as r takes it over from the release before it.
Inherits(r) == barrier[r].prev # None /\ barrier[barrier[r].prev].failedCleanup

\* The id may be used again once the release has settled.
Reusable(b) == b.at = "done" \/ (b.at = "refused" /\ ~b.failedCleanup)

\* b settles as outcome; failed is what the release before it left.
SettledBarrier(b, failed, outcome) ==
    [b EXCEPT !.at = outcome, !.owner = None, !.prev = None, !.on = None,
              !.failedCleanup = (outcome = "failed" \/ (outcome = "refused" /\ failed))]

\* The map of barriers when those of the calls in settling settle as bs says.
ReleasesAfter(settling, bs) ==
    [id \in Ids |->
        IF releases[id] \in settling /\ Reusable(bs[releases[id]]) THEN None ELSE releases[id]]
=============================================================================
