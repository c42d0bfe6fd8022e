------------------------ MODULE ClaudeSessionsProofs ------------------------
(***************************************************************************)
(* Theorems about ClaudeSessions, for any number of ids, owners, callers,  *)
(* releases and sessions, and any budget.                                  *)
(***************************************************************************)
EXTENDS ClaudeSessions, FiniteSetTheorems, TLAPS

(***************************************************************************)
(* The maps of creations and releases: parts of the inductive invariant.   *)
(***************************************************************************)

\* A caller whose creation is under way, and one that found no session of its id.
Creating == {"creating", "searching", "reserving", "evicting", "reclaiming", "spawning", "failing", "rejected"}
Looking == {"searching", "reserving", "evicting", "reclaiming", "spawning", "failing"}

Things == Releases \cup Callers \cup Sessions \cup {None}

Calls == [at : {"idle", "barrier", "joined"} \cup Creating, id : Ids \cup {None},
          owner : Owners \cup {None}, on : Things]

Barriers == [at : {"unused", "waiting", "cleaning"} \cup Settled, id : Ids \cup {None},
             owner : Owners \cup {None}, prev : Releases \cup {None}, on : Things,
             failedCleanup : BOOLEAN]

AcquisitionTypes ==
    /\ pending \in [Ids -> Callers \cup {None}]
    /\ releases \in [Ids -> Releases \cup {None}]
    /\ caller \in [Callers -> Calls]
    /\ barrier \in [Releases -> Barriers]

Used(r) == barrier[r].at # "unused"
Unsettled(r) == barrier[r].at \in {"waiting", "cleaning"}
SameId(q, r) == barrier[q].id = barrier[r].id

\* The map holds exactly the creations under way, and who joined awaits one.
CreationsAreMapped ==
    /\ \A a \in Callers : caller[a].at \in Creating =>
          caller[a].id \in Ids /\ pending[caller[a].id] = a
    /\ \A id \in Ids : pending[id] # None =>
          caller[pending[id]].at \in Creating /\ caller[pending[id]].id = id
    /\ \A a \in Callers : caller[a].at = "joined" =>
          caller[a].id \in Ids /\ caller[a].on \in Callers /\ pending[caller[a].id] = caller[a].on
    /\ \A a \in Callers : caller[a].at = "barrier" => caller[a].id \in Ids /\ caller[a].on \in Releases

NumberedInOrder ==
    /\ \A q, r \in Releases : q < r /\ ~Used(q) => ~Used(r)
    /\ \A r \in Releases : Used(r) => barrier[r].id \in Ids

\* The map holds the latest release of an id, at least while one is not settled.
LatestIsMapped ==
    /\ \A id \in Ids : releases[id] # None =>
          /\ Used(releases[id]) /\ barrier[releases[id]].id = id
          /\ \A r \in Releases : Used(r) /\ barrier[r].id = id => r <= releases[id]
    /\ \A r \in Releases : Unsettled(r) =>
          releases[barrier[r].id] # None /\ Unsettled(releases[barrier[r].id])

\* Releases of an id settle in their order.
WaitsForPrevious ==
    /\ \A r \in Releases : barrier[r].at = "waiting" /\ barrier[r].prev # None =>
          /\ barrier[r].prev < r /\ Used(barrier[r].prev) /\ SameId(barrier[r].prev, r)
          /\ \A q \in Releases : Used(q) /\ q < r /\ SameId(q, r) => q <= barrier[r].prev
    /\ \A q, r \in Releases : q < r /\ SameId(q, r) /\ Unsettled(q) /\ Used(r) =>
          barrier[r].at = "waiting" /\ barrier[r].prev # None /\ Unsettled(barrier[r].prev)

\* A release awaits the creation of its id, and none begins behind it.
WaitsForCreation ==
    \A r \in Releases :
        /\ barrier[r].at = "waiting" => barrier[r].on = pending[barrier[r].id]
        /\ barrier[r].at = "cleaning" => pending[barrier[r].id] = None

\* Every failed release of the id up to p was followed by one that succeeded.
Covered(p) ==
    \A r \in Releases : r <= p /\ barrier[r].at = "failed" /\ SameId(r, p) =>
        \E q \in Releases : r < q /\ q <= p /\ barrier[q].at = "done" /\ SameId(q, p)

\* The failure of a cleanup is handed on until a release succeeds.
FailuresInherited ==
    /\ \A p \in Releases : barrier[p].at \in Settled \cup {"cleaning"} =>
          barrier[p].failedCleanup \/ Covered(p)
    /\ \A p \in Releases : barrier[p].at = "waiting" /\ barrier[p].prev = None => Covered(p)

\* While an id can be acquired no failure is open.
FailuresRepaired ==
    \A r \in Releases :
        barrier[r].at = "failed" /\ (releases[barrier[r].id] = None \/ pending[barrier[r].id] # None) =>
        \E q \in Releases : r < q /\ barrier[q].at = "done" /\ SameId(q, r)

ReleaseInv == NumberedInOrder /\ LatestIsMapped /\ WaitsForPrevious /\ FailuresInherited

AcquisitionInv ==
    AcquisitionTypes /\ CreationsAreMapped /\ ReleaseInv /\ WaitsForCreation /\ FailuresRepaired

(***************************************************************************)
(* What the parts about releases depend on.                                *)
(***************************************************************************)
LEMMA SameReleases ==
    ASSUME ReleaseInv, releases' = releases,
           \A r \in Releases : /\ barrier'[r].at = barrier[r].at /\ barrier'[r].id = barrier[r].id
                               /\ barrier'[r].prev = barrier[r].prev
                               /\ barrier'[r].failedCleanup = barrier[r].failedCleanup,
           AcquisitionTypes
    PROVE  ReleaseInv'
<1> USE DEF ReleaseInv, Used, Unsettled, SameId
<1>1. NumberedInOrder'
  BY DEF NumberedInOrder
<1>2. LatestIsMapped'
  BY DEF LatestIsMapped, NumberedInOrder, AcquisitionTypes
<1>3. WaitsForPrevious'
  <2>1. \A r \in Releases : barrier[r].prev # None => barrier[r].prev \in Releases
    BY DEF AcquisitionTypes, Barriers
  <2> QED BY <2>1 DEF WaitsForPrevious
<1>4. \A p \in Releases : Covered(p)' <=> Covered(p)
  BY DEF Covered
<1>5. FailuresInherited'
  BY <1>4 DEF FailuresInherited
<1> QED BY <1>1, <1>2, <1>3, <1>5

(***************************************************************************)
(* acquire up to its first await.                                          *)
(***************************************************************************)
LEMMA EnterKeeps ==
    ASSUME AcquisitionInv, NEW a \in Callers, NEW id \in Ids, NEW owner \in Owners \cup {None},
           caller[a].at \in {"idle", "barrier"}, Enter(a, id, owner), UNCHANGED <<releases, barrier>>
    PROVE  AcquisitionInv'
<1> USE DEF AcquisitionInv
<1> DEFINE call(at, on) == [at |-> at, id |-> id, owner |-> owner, on |-> on]
<1>1. /\ a \notin {pending[i] : i \in Ids} /\ a # None
      /\ \A c \in Callers : caller[c].at = "joined" => caller[c].on # a
  BY AcquisitionConstants DEF CreationsAreMapped, Creating
<1>2. releases[id] \in Releases \cup {None} /\ pending[id] \in Callers \cup {None}
  BY DEF AcquisitionTypes
<1>3. releases' = releases /\ barrier' = barrier
  OBVIOUS
<1>4. ReleaseInv'
  BY <1>3, SameReleases
<1>5. CASE releases[id] # None
  <2>1. caller' = [caller EXCEPT ![a] = call("barrier", releases[id])] /\ pending' = pending
    BY <1>5 DEF Enter
  <2>2. call("barrier", releases[id]) \in Calls
    BY <1>2, <1>5 DEF Calls, Things
  <2>3. AcquisitionTypes'
    BY <1>3, <2>1, <2>2 DEF AcquisitionTypes
  <2>4. /\ caller'[a].at = "barrier" /\ caller'[a].id = id /\ caller'[a].on = releases[id]
        /\ \A c \in Callers \ {a} : caller'[c] = caller[c]
    BY <2>1 DEF AcquisitionTypes
  <2>5. CreationsAreMapped'
    BY <1>1, <1>2, <1>5, <2>1, <2>4 DEF CreationsAreMapped, Creating, AcquisitionTypes
  <2>6. WaitsForCreation' /\ FailuresRepaired'
    BY <1>3, <2>1 DEF WaitsForCreation, FailuresRepaired, SameId
  <2> QED BY <1>4, <2>3, <2>5, <2>6
<1>6. CASE releases[id] = None /\ pending[id] # None
  <2>1. caller' = [caller EXCEPT ![a] = call("joined", pending[id])] /\ pending' = pending
    BY <1>6 DEF Enter
  <2>2. call("joined", pending[id]) \in Calls
    BY <1>2, <1>6 DEF Calls, Things
  <2>3. AcquisitionTypes'
    BY <1>3, <2>1, <2>2 DEF AcquisitionTypes
  <2>4. /\ caller'[a].at = "joined" /\ caller'[a].id = id /\ caller'[a].on = pending[id]
        /\ \A c \in Callers \ {a} : caller'[c] = caller[c]
    BY <2>1 DEF AcquisitionTypes
  <2>5. CreationsAreMapped'
    BY <1>1, <1>2, <1>6, <2>1, <2>4 DEF CreationsAreMapped, Creating, AcquisitionTypes
  <2>6. WaitsForCreation' /\ FailuresRepaired'
    BY <1>3, <2>1 DEF WaitsForCreation, FailuresRepaired, SameId
  <2> QED BY <1>4, <2>3, <2>5, <2>6
<1>7. CASE releases[id] = None /\ pending[id] = None
  <2>1. caller' = [caller EXCEPT ![a] = call("creating", None)] /\ pending' = [pending EXCEPT ![id] = a]
    BY <1>7 DEF Enter
  <2>2. call("creating", None) \in Calls
    BY DEF Calls, Things, Creating
  <2>3. AcquisitionTypes'
    BY <1>3, <2>1, <2>2 DEF AcquisitionTypes
  <2>4. /\ caller'[a].at = "creating" /\ caller'[a].id = id
        /\ \A c \in Callers \ {a} : caller'[c] = caller[c]
        /\ pending'[id] = a /\ \A i \in Ids \ {id} : pending'[i] = pending[i]
    BY <2>1 DEF AcquisitionTypes
  <2>5. CreationsAreMapped'
    BY <1>1, <1>7, <2>4, AcquisitionConstants DEF CreationsAreMapped, Creating, AcquisitionTypes
  <2>6. \A r \in Releases : Unsettled(r) => barrier[r].id \in Ids \ {id}
    BY <1>7 DEF ReleaseInv, LatestIsMapped, NumberedInOrder, Used, Unsettled
  <2>7. WaitsForCreation'
    BY <1>3, <2>4, <2>6 DEF WaitsForCreation, Unsettled
  <2>8. FailuresRepaired'
    <3> SUFFICES ASSUME NEW r \in Releases, barrier[r].at = "failed",
                        releases[barrier[r].id] = None \/ pending'[barrier[r].id] # None
                 PROVE  \E q \in Releases : r < q /\ barrier[q].at = "done" /\ SameId(q, r)
      BY <1>3 DEF FailuresRepaired, SameId
    <3>1. barrier[r].id \in Ids
      BY DEF ReleaseInv, NumberedInOrder, Used
    <3>2. releases[barrier[r].id] = None \/ pending[barrier[r].id] # None
      BY <1>7, <2>4, <3>1
    <3> QED BY <3>2 DEF FailuresRepaired
  <2> QED BY <1>4, <2>3, <2>5, <2>7, <2>8
<1> QED BY <1>2, <1>5, <1>6, <1>7

(***************************************************************************)
(* Steps of creations that leave both maps alone.                          *)
(***************************************************************************)
CallsMove ==
    /\ caller' \in [Callers -> Calls]
    /\ \A c \in Callers : \/ caller'[c] = caller[c]
                          \/ /\ caller[c].at \in Creating /\ caller'[c].at \in Creating
                             /\ caller'[c].id = caller[c].id /\ caller'[c].owner = caller[c].owner

LEMMA MovesKeepMap ==
    ASSUME AcquisitionInv, CallsMove, pending' = pending
    PROVE  CreationsAreMapped'
<1>1. \A c \in Callers : caller'[c].at \in Creating <=> caller[c].at \in Creating
  BY DEF CallsMove
<1>2. \A c \in Callers : caller'[c].id = caller[c].id
  BY DEF CallsMove
<1>3. \A c \in Callers : caller'[c].at \in {"joined", "barrier"} => caller'[c] = caller[c]
  BY DEF CallsMove, Creating
<1>4. \A id \in Ids : pending[id] \in Callers \cup {None}
  BY DEF AcquisitionInv, AcquisitionTypes
<1> QED BY <1>1, <1>2, <1>3, <1>4 DEF AcquisitionInv, CreationsAreMapped

LEMMA MovesKeep ==
    ASSUME AcquisitionInv, CallsMove, UNCHANGED <<pending, releases, barrier>>
    PROVE  AcquisitionInv'
<1>1. CreationsAreMapped'
  BY MovesKeepMap
<1>2. ReleaseInv'
  BY SameReleases DEF AcquisitionInv
<1>3. AcquisitionTypes' /\ WaitsForCreation' /\ FailuresRepaired'
  BY DEF AcquisitionInv, AcquisitionTypes, CallsMove, WaitsForCreation, FailuresRepaired, SameId
<1> QED BY <1>1, <1>2, <1>3 DEF AcquisitionInv

(***************************************************************************)
(* A caller leaves: past a barrier whose cleanup failed, or with its       *)
(* creation and all who share it.                                          *)
(***************************************************************************)
LEMMA RefusedKeeps ==
    ASSUME AcquisitionInv, NEW a \in Callers, caller[a].at = "barrier",
           caller' = [caller EXCEPT ![a] = NoCall], UNCHANGED <<pending, releases, barrier>>
    PROVE  AcquisitionInv'
<1> USE DEF AcquisitionInv
<1>1. NoCall \in Calls /\ NoCall.at = "idle"
  BY DEF NoCall, Calls, Things
<1>2. caller' \in [Callers -> Calls] /\ caller'[a].at = "idle" /\ \A c \in Callers \ {a} : caller'[c] = caller[c]
  BY <1>1 DEF AcquisitionTypes
<1>3. CreationsAreMapped'
  BY <1>2 DEF CreationsAreMapped, Creating, AcquisitionTypes
<1>4. ReleaseInv'
  BY SameReleases
<1>5. AcquisitionTypes' /\ WaitsForCreation' /\ FailuresRepaired'
  BY <1>2 DEF AcquisitionTypes, WaitsForCreation, FailuresRepaired, SameId
<1> QED BY <1>3, <1>4, <1>5

LEMMA WorkSettlesKeeps ==
    ASSUME AcquisitionInv, NEW a \in Callers, caller[a].at \in Creating, NEW ok, WorkSettles(a, ok)
    PROVE  AcquisitionInv'
<1> USE DEF AcquisitionInv
<1> DEFINE id == caller[a].id
<1>1. id \in Ids /\ pending[id] = a /\ a # None
  BY AcquisitionConstants DEF CreationsAreMapped
<1>2. /\ releases' = releases /\ pending' = [pending EXCEPT ![id] = None]
      /\ caller' = [c \in Callers |-> IF c \in Sharing(a) THEN NoCall ELSE caller[c]]
      /\ barrier' = [r \in Releases |-> IF barrier[r].on = a /\ barrier[r].at = "waiting"
                                        THEN [barrier[r] EXCEPT !.on = None] ELSE barrier[r]]
  BY DEF WorkSettles
<1> HIDE DEF id
<1>3. NoCall \in Calls /\ NoCall.at = "idle"
  BY DEF NoCall, Calls, Things
<1>4. pending'[id] = None /\ \A i \in Ids \ {id} : pending'[i] = pending[i]
  BY <1>1, <1>2 DEF AcquisitionTypes
<1>5. /\ \A c \in Sharing(a) : caller'[c].at = "idle"
      /\ \A c \in Callers \ Sharing(a) : caller'[c] = caller[c]
      /\ a \in Sharing(a) /\ Sharing(a) \subseteq Callers
  BY <1>2, <1>3 DEF Sharing
<1>6. \A r \in Releases : /\ barrier'[r].at = barrier[r].at /\ barrier'[r].id = barrier[r].id
                          /\ barrier'[r].prev = barrier[r].prev
                          /\ barrier'[r].failedCleanup = barrier[r].failedCleanup
                          /\ barrier'[r].on = IF barrier[r].on = a /\ barrier[r].at = "waiting" THEN None
                                              ELSE barrier[r].on
  BY <1>2 DEF AcquisitionTypes, Barriers
<1>7. AcquisitionTypes'
  <2>1. \A r \in Releases : [barrier[r] EXCEPT !.on = None] \in Barriers
    BY DEF AcquisitionTypes, Barriers, Things
  <2>2. barrier' \in [Releases -> Barriers]
    BY <1>2, <2>1 DEF AcquisitionTypes
  <2>3. caller' \in [Callers -> Calls]
    BY <1>2, <1>3 DEF AcquisitionTypes
  <2> QED BY <1>2, <2>2, <2>3 DEF AcquisitionTypes
<1>8. CreationsAreMapped'
  <2>1. \A c \in Callers \ Sharing(a) : caller[c].at \in Creating => caller[c].id \in Ids \ {id}
    BY <1>1, <1>5 DEF CreationsAreMapped
  <2>2. \A c \in Callers \ Sharing(a) : caller[c].at = "joined" => caller[c].id \in Ids \ {id}
    BY <1>1, <1>5 DEF CreationsAreMapped, Sharing
  <2>3. \A i \in Ids \ {id} : pending[i] # None => pending[i] \in Callers \ Sharing(a)
    <3> SUFFICES ASSUME NEW i \in Ids \ {id}, pending[i] # None, pending[i] \in Sharing(a) PROVE FALSE
      BY DEF AcquisitionTypes
    <3>1. caller[pending[i]].at \in Creating /\ caller[pending[i]].id = i
      BY DEF CreationsAreMapped
    <3>2. pending[i] = a
      BY <3>1 DEF Sharing, Creating
    <3> QED BY <3>1, <3>2 DEF id
  <2>4. \A c \in Callers : caller'[c].at # "idle" => c \in Callers \ Sharing(a) /\ caller'[c] = caller[c]
    BY <1>5
  <2>5. \A c \in Callers : caller'[c].at \in Creating \cup {"joined", "barrier"} =>
                              c \in Callers \ Sharing(a) /\ caller'[c] = caller[c]
    BY <2>4 DEF Creating
  <2>6. \A c \in Callers : caller'[c].at \in Creating => caller'[c].id \in Ids /\ pending'[caller'[c].id] = c
    BY <1>4, <2>1, <2>5 DEF CreationsAreMapped
  <2>7. \A i \in Ids : pending'[i] # None => caller'[pending'[i]].at \in Creating /\ caller'[pending'[i]].id = i
    BY <1>4, <1>5, <2>3 DEF CreationsAreMapped
  <2>8. \A c \in Callers : caller'[c].at = "joined" =>
           caller'[c].id \in Ids /\ caller'[c].on \in Callers /\ pending'[caller'[c].id] = caller'[c].on
    BY <1>4, <2>2, <2>5 DEF CreationsAreMapped
  <2>9. \A c \in Callers : caller'[c].at = "barrier" => caller'[c].id \in Ids /\ caller'[c].on \in Releases
    BY <2>5 DEF CreationsAreMapped
  <2> QED BY <2>6, <2>7, <2>8, <2>9 DEF CreationsAreMapped
<1>9. ReleaseInv'
  BY <1>2, <1>6, SameReleases
<1>10. \A i \in Ids : pending[i] = a => i = id
  BY <1>1 DEF CreationsAreMapped, id
<1>11. WaitsForCreation'
  <2>1. \A r \in Releases : Used(r) => barrier[r].id \in Ids
    BY DEF ReleaseInv, NumberedInOrder
  <2> QED BY <1>1, <1>4, <1>6, <1>10, <2>1 DEF WaitsForCreation, Used
<1>12. FailuresRepaired'
  <2>1. \A r \in Releases : Used(r) => barrier[r].id \in Ids
    BY DEF ReleaseInv, NumberedInOrder
  <2> QED BY <1>1, <1>2, <1>4, <1>6, <2>1 DEF FailuresRepaired, Used, SameId
<1> QED BY <1>7, <1>8, <1>9, <1>11, <1>12

-----------------------------------------------------------------------------
(***************************************************************************)
(* A release is called.                                                    *)
(***************************************************************************)
LEMMA ReleaseKeeps ==
    ASSUME AcquisitionInv, NEW r \in Releases, NEW id \in Ids, NEW owner \in Owners, Release(r, id, owner)
    PROVE  AcquisitionInv'
<1> USE DEF AcquisitionInv, ReleaseInv
<1>1. /\ pending' = pending /\ caller' = caller /\ releases' = [releases EXCEPT ![id] = r]
      /\ barrier' = [barrier EXCEPT ![r] =
            [at |-> "waiting", id |-> id, owner |-> owner, prev |-> releases[id],
             on |-> pending[id], failedCleanup |-> FALSE]]
      /\ ~Used(r) /\ \A q \in Releases : q < r => Used(q)
  BY DEF Release, Awaits, Used
<1>2. /\ releases[id] \in Releases \cup {None} /\ pending[id] \in Callers \cup {None}
      /\ r \in Int /\ \A q \in Releases : q \in Int /\ q # None
  BY DEF AcquisitionTypes, Releases, None
<1>3. /\ barrier'[r].at = "waiting" /\ barrier'[r].id = id /\ barrier'[r].prev = releases[id]
      /\ barrier'[r].on = pending[id] /\ \A q \in Releases \ {r} : barrier'[q] = barrier[q]
      /\ releases'[id] = r /\ \A i \in Ids \ {id} : releases'[i] = releases[i]
  BY <1>1 DEF AcquisitionTypes
<1>4. AcquisitionTypes'
  <2>1. [at |-> "waiting", id |-> id, owner |-> owner, prev |-> releases[id],
         on |-> pending[id], failedCleanup |-> FALSE] \in Barriers
    BY <1>2 DEF Barriers, Things
  <2> QED BY <1>1, <2>1 DEF AcquisitionTypes
<1>5. CreationsAreMapped'
  BY <1>1 DEF CreationsAreMapped
<1>6. \A q \in Releases : Used(q) => q < r
  BY <1>1, <1>2 DEF NumberedInOrder
<1>7. NumberedInOrder'
  BY <1>1, <1>2, <1>3 DEF NumberedInOrder, Used
<1>8. LatestIsMapped'
  <2>1. ASSUME NEW i \in Ids, releases'[i] # None
        PROVE  /\ barrier'[releases'[i]].at # "unused" /\ barrier'[releases'[i]].id = i
               /\ \A q \in Releases : barrier'[q].at # "unused" /\ barrier'[q].id = i => q <= releases'[i]
    <3>1. CASE i = id
      BY <1>2, <1>3, <1>6, <3>1 DEF Used
    <3>2. CASE i # id
      <4>1. releases'[i] = releases[i] /\ releases[i] \in Releases
        BY <1>3, <2>1, <3>2 DEF AcquisitionTypes
      <4>2. Used(releases[i]) /\ barrier[releases[i]].id = i
            /\ \A q \in Releases : Used(q) /\ barrier[q].id = i => q <= releases[i]
        BY <2>1, <4>1 DEF LatestIsMapped
      <4> QED BY <1>1, <1>3, <3>2, <4>1, <4>2 DEF Used
    <3> QED BY <3>1, <3>2
  <2>2. ASSUME NEW q \in Releases, barrier'[q].at \in {"waiting", "cleaning"}
        PROVE  releases'[barrier'[q].id] # None /\ barrier'[releases'[barrier'[q].id]].at \in {"waiting", "cleaning"}
    <3>1. CASE barrier'[q].id = id
      BY <1>2, <1>3, <3>1
    <3>2. CASE barrier'[q].id # id
      <4>1. q # r /\ barrier'[q] = barrier[q] /\ barrier[q].id \in Ids
        BY <1>3, <2>2, <3>2 DEF NumberedInOrder, Used
      <4>2. releases'[barrier[q].id] = releases[barrier[q].id] /\ releases[barrier[q].id] \in Releases \cup {None}
        BY <1>3, <3>2, <4>1 DEF AcquisitionTypes
      <4>3. releases[barrier[q].id] # None /\ Unsettled(releases[barrier[q].id])
        BY <2>2, <4>1 DEF LatestIsMapped, Unsettled
      <4>4. releases[barrier[q].id] # r
        BY <1>1, <4>3 DEF Used, Unsettled
      <4> QED BY <1>3, <4>1, <4>2, <4>3, <4>4 DEF Unsettled
    <3> QED BY <3>1, <3>2
  <2> QED BY <2>1, <2>2 DEF LatestIsMapped, Used, Unsettled
<1>9. WaitsForPrevious'
  <2>1. ASSUME NEW q \in Releases, barrier'[q].at = "waiting", barrier'[q].prev # None
        PROVE  /\ barrier'[q].prev < q /\ barrier'[barrier'[q].prev].at # "unused"
               /\ barrier'[barrier'[q].prev].id = barrier'[q].id
               /\ \A o \in Releases : barrier'[o].at # "unused" /\ o < q /\ barrier'[o].id = barrier'[q].id
                                      => o <= barrier'[q].prev
    <3>1. CASE q = r
      <4>1. releases[id] \in Releases /\ Used(releases[id]) /\ barrier[releases[id]].id = id
            /\ \A o \in Releases : Used(o) /\ barrier[o].id = id => o <= releases[id]
        BY <1>2, <1>3, <2>1, <3>1 DEF LatestIsMapped
      <4>2. releases[id] < r
        BY <1>6, <4>1
      <4>3. barrier'[releases[id]] = barrier[releases[id]] /\ \A o \in Releases : o < r => barrier'[o] = barrier[o]
        <5>1. releases[id] # r /\ \A o \in Releases : o < r => o # r
          BY <4>2 DEF Releases
        <5> QED BY <1>3, <4>1, <5>1
      <4>4. barrier'[q].prev = releases[id] /\ barrier'[q].id = id
        BY <1>3, <3>1
      <4> QED BY <3>1, <4>1, <4>2, <4>3, <4>4 DEF Used
    <3>2. CASE q # r
      <4>1. barrier'[q] = barrier[q] /\ q < r /\ barrier[q].prev \in Releases
        BY <1>3, <1>6, <2>1, <3>2 DEF Used, AcquisitionTypes, Barriers
      <4>2. /\ barrier[q].prev < q /\ Used(barrier[q].prev) /\ SameId(barrier[q].prev, q)
            /\ \A o \in Releases : Used(o) /\ o < q /\ SameId(o, q) => o <= barrier[q].prev
        BY <2>1, <4>1 DEF WaitsForPrevious
      <4>3. barrier[q].prev # r /\ \A o \in Releases : o < q => o # r
        BY <1>2, <4>1, <4>2
      <4> QED BY <1>3, <4>1, <4>2, <4>3 DEF Used, SameId
    <3> QED BY <3>1, <3>2
  <2>2. ASSUME NEW q \in Releases, NEW o \in Releases, q < o, barrier'[q].id = barrier'[o].id,
               barrier'[q].at \in {"waiting", "cleaning"}, barrier'[o].at # "unused"
        PROVE  barrier'[o].at = "waiting" /\ barrier'[o].prev # None /\ barrier'[barrier'[o].prev].at \in {"waiting", "cleaning"}
    <3>1. o <= r /\ q # r /\ barrier'[q] = barrier[q] /\ barrier[q].id \in Ids
      BY <1>2, <1>3, <1>6, <2>2 DEF Used, NumberedInOrder
    <3>2. CASE o = r
      <4>1. barrier[q].id = id
        BY <1>3, <2>2, <3>1, <3>2
      <4>2. releases[id] # None /\ Unsettled(releases[id])
        BY <2>2, <3>1, <4>1 DEF LatestIsMapped, Unsettled
      <4>3. releases[id] # r /\ releases[id] \in Releases
        BY <1>1, <1>2, <4>2 DEF Used, Unsettled
      <4> QED BY <1>3, <3>2, <4>2, <4>3 DEF Unsettled
    <3>3. CASE o # r
      <4>1. barrier'[o] = barrier[o]
        BY <1>3, <3>3
      <4>2. barrier[o].at = "waiting" /\ barrier[o].prev # None /\ Unsettled(barrier[o].prev)
        BY <2>2, <3>1, <4>1 DEF WaitsForPrevious, Used, Unsettled, SameId
      <4>3. barrier[o].prev # r /\ barrier[o].prev \in Releases
        BY <1>1, <4>2 DEF Used, Unsettled, AcquisitionTypes, Barriers
      <4> QED BY <1>3, <4>1, <4>2, <4>3 DEF Unsettled
    <3> QED BY <3>2, <3>3
  <2> QED BY <2>1, <2>2 DEF WaitsForPrevious, Used, Unsettled, SameId
<1>10. WaitsForCreation'
  BY <1>1, <1>3 DEF WaitsForCreation
<1>11. ASSUME NEW p \in Releases, Used(p), Covered(p) PROVE Covered(p)'
  <2>1. p # r
    BY <1>1, <1>11
  <2> QED BY <1>1, <1>3, <1>11, <2>1 DEF Covered, SameId, Used
<1>12. FailuresInherited'
  <2>1. ASSUME NEW p \in Releases, barrier'[p].at \in Settled \cup {"cleaning"}
        PROVE  barrier'[p].failedCleanup \/ Covered(p)'
    <3>1. p # r /\ barrier'[p] = barrier[p]
      BY <1>3, <2>1 DEF Settled
    <3>2. Used(p)
      BY <2>1, <3>1 DEF Used, Settled
    <3> QED BY <1>11, <2>1, <3>1, <3>2 DEF FailuresInherited
  <2>2. ASSUME NEW p \in Releases, barrier'[p].at = "waiting", barrier'[p].prev = None
        PROVE  Covered(p)'
    <3>1. CASE p # r
      <4>1. barrier'[p] = barrier[p]
        BY <1>3, <3>1
      <4> QED BY <1>11, <2>2, <4>1 DEF FailuresInherited, Used
    <3>2. CASE p = r
      <4> SUFFICES ASSUME NEW q \in Releases, q <= r, barrier'[q].at = "failed", barrier'[q].id = id
                   PROVE  \E o \in Releases : q < o /\ o <= r /\ barrier'[o].at = "done" /\ barrier'[o].id = id
        BY <1>3, <3>2 DEF Covered, SameId
      <4>1. q # r /\ barrier'[q] = barrier[q] /\ releases[id] = None
        BY <1>3, <2>2, <3>2
      <4>2. PICK o \in Releases : q < o /\ barrier[o].at = "done" /\ barrier[o].id = id
        BY <4>1 DEF FailuresRepaired, SameId
      <4>3. o # r /\ o < r
        BY <1>1, <1>6, <4>2 DEF Used
      <4> QED BY <1>2, <1>3, <4>2, <4>3
    <3> QED BY <3>1, <3>2
  <2> QED BY <2>1, <2>2 DEF FailuresInherited
<1>13. FailuresRepaired'
  <2> SUFFICES ASSUME NEW q \in Releases, barrier'[q].at = "failed",
                      releases'[barrier'[q].id] = None \/ pending[barrier'[q].id] # None
               PROVE  \E o \in Releases : q < o /\ barrier'[o].at = "done" /\ barrier'[o].id = barrier'[q].id
    BY <1>1 DEF FailuresRepaired, SameId
  <2>1. q # r /\ barrier'[q] = barrier[q] /\ barrier[q].id \in Ids
    BY <1>3 DEF NumberedInOrder, Used
  <2>2. releases[barrier[q].id] = None \/ pending[barrier[q].id] # None
    BY <1>2, <1>3, <2>1
  <2>3. PICK o \in Releases : q < o /\ barrier[o].at = "done" /\ barrier[o].id = barrier[q].id
    BY <2>1, <2>2 DEF FailuresRepaired, SameId
  <2>4. o # r
    BY <1>1, <2>3 DEF Used
  <2> QED BY <1>3, <2>1, <2>3, <2>4
<1> QED BY <1>4, <1>5, <1>7, <1>8, <1>9, <1>10, <1>12, <1>13

(***************************************************************************)
(* The cleanup of a release begins, or the release settles.                *)
(***************************************************************************)
LEMMA DueIsFirst ==
    ASSUME AcquisitionInv, NEW r \in Releases, CleanupDue(r) \/ barrier[r].at = "cleaning"
    PROVE  /\ \A q \in Releases : q < r /\ SameId(q, r) => ~Unsettled(q)
           /\ pending[barrier[r].id] = None /\ barrier[r].id \in Ids /\ Unsettled(r)
           /\ releases[barrier[r].id] \in Releases /\ Unsettled(releases[barrier[r].id])
<1> USE DEF AcquisitionInv, ReleaseInv
<1>1. Unsettled(r) /\ Used(r)
  BY DEF CleanupDue, Unsettled, Used
<1>2. ASSUME NEW q \in Releases, q < r, SameId(q, r), Unsettled(q) PROVE FALSE
  <2>1. barrier[r].at = "waiting" /\ barrier[r].prev # None /\ Unsettled(barrier[r].prev)
    BY <1>1, <1>2 DEF WaitsForPrevious
  <2>2. barrier[barrier[r].prev].at \in Settled
    BY <2>1 DEF CleanupDue
  <2> QED BY <2>1, <2>2 DEF Unsettled, Settled
<1>3. barrier[r].id \in Ids
  BY <1>1 DEF NumberedInOrder
<1>4. pending[barrier[r].id] = None
  BY DEF CleanupDue, WaitsForCreation
<1>5. releases[barrier[r].id] # None /\ Unsettled(releases[barrier[r].id])
  BY <1>1 DEF LatestIsMapped
<1> QED BY <1>1, <1>2, <1>3, <1>4, <1>5 DEF AcquisitionTypes

\* What r takes over from the release before it is right about all before it.
LEMMA InheritsRight ==
    ASSUME AcquisitionInv, NEW r \in Releases, CleanupDue(r), ~Inherits(r)
    PROVE  Covered(r)
<1> USE DEF AcquisitionInv, ReleaseInv
<1>1. barrier[r].at = "waiting"
  BY DEF CleanupDue
<1>2. CASE barrier[r].prev = None
  BY <1>1, <1>2 DEF FailuresInherited
<1>3. CASE barrier[r].prev # None
  <2> DEFINE p == barrier[r].prev
  <2>1. p \in Releases /\ p < r /\ SameId(p, r) /\ \A q \in Releases : Used(q) /\ q < r /\ SameId(q, r) => q <= p
    BY <1>1, <1>3 DEF WaitsForPrevious, AcquisitionTypes, Barriers
  <2>2. barrier[p].at \in Settled /\ ~barrier[p].failedCleanup
    BY <1>3 DEF CleanupDue, Inherits
  <2>3. Covered(p)
    BY <2>1, <2>2 DEF FailuresInherited
  <2>4. \A q \in Releases : q \in Int
    BY DEF Releases
  <2> HIDE DEF p
  <2> SUFFICES ASSUME NEW q \in Releases, q <= r, barrier[q].at = "failed", SameId(q, r)
               PROVE  \E o \in Releases : q < o /\ o <= r /\ barrier[o].at = "done" /\ SameId(o, r)
    BY DEF Covered
  <2>5. q # r
    BY <1>1
  <2>6. q <= p /\ SameId(q, p)
    BY <2>1, <2>4, <2>5 DEF Used, SameId
  <2>7. PICK o \in Releases : q < o /\ o <= p /\ barrier[o].at = "done" /\ SameId(o, p)
    BY <2>3, <2>6 DEF Covered
  <2> QED BY <2>1, <2>4, <2>7 DEF SameId
<1> QED BY <1>2, <1>3

LEMMA CleaningKeeps ==
    ASSUME AcquisitionInv, NEW r \in Releases, CleanupDue(r),
           barrier' \in [Releases -> Barriers],
           barrier'[r].at = "cleaning", barrier'[r].id = barrier[r].id, barrier'[r].failedCleanup = Inherits(r),
           \A q \in Releases \ {r} : barrier'[q] = barrier[q],
           pending' = pending, caller' = caller, releases' = releases
    PROVE  AcquisitionInv'
<1> USE DEF AcquisitionInv, ReleaseInv
<1>1. AcquisitionTypes'
  BY DEF AcquisitionTypes
<1>2. CreationsAreMapped'
  BY DEF CreationsAreMapped
<1>3. /\ \A q \in Releases : q < r /\ SameId(q, r) => ~Unsettled(q)
      /\ pending[barrier[r].id] = None
  BY DueIsFirst
<1>4. \A q \in Releases : barrier'[q].id = barrier[q].id
  OBVIOUS
<1>5. barrier[r].at = "waiting"
  BY DEF CleanupDue
<1>8. \A q \in Releases : /\ barrier'[q].at = "unused" <=> barrier[q].at = "unused"
                          /\ barrier'[q].at \in {"waiting", "cleaning"} <=> barrier[q].at \in {"waiting", "cleaning"}
                          /\ barrier'[q].at = "done" <=> barrier[q].at = "done"
                          /\ barrier'[q].at = "failed" <=> barrier[q].at = "failed"
                          /\ barrier'[q].at = "waiting" => barrier'[q] = barrier[q]
  BY <1>4, <1>5
<1>9. NumberedInOrder'
  BY <1>4, <1>8 DEF NumberedInOrder, Used
<1>10. LatestIsMapped'
  BY <1>4, <1>8 DEF LatestIsMapped, Used, Unsettled, NumberedInOrder, AcquisitionTypes
<1>11. WaitsForPrevious'
  <2>1. ASSUME NEW q \in Releases, barrier'[q].at = "waiting", barrier'[q].prev # None
        PROVE  /\ barrier'[q].prev < q /\ barrier'[barrier'[q].prev].at # "unused"
               /\ barrier'[barrier'[q].prev].id = barrier'[q].id
               /\ \A o \in Releases : barrier'[o].at # "unused" /\ o < q /\ barrier'[o].id = barrier'[q].id
                                      => o <= barrier'[q].prev
    <3>1. barrier'[q] = barrier[q] /\ barrier[q].prev \in Releases
      BY <1>8, <2>1 DEF AcquisitionTypes, Barriers
    <3> QED BY <1>4, <1>8, <2>1, <3>1 DEF WaitsForPrevious, Used, SameId
  <2>2. ASSUME NEW q \in Releases, NEW o \in Releases, q < o, barrier'[q].id = barrier'[o].id,
               barrier'[q].at \in {"waiting", "cleaning"}, barrier'[o].at # "unused"
        PROVE  barrier'[o].at = "waiting" /\ barrier'[o].prev # None /\ barrier'[barrier'[o].prev].at \in {"waiting", "cleaning"}
    <3>1. o # r
      BY <1>4, <1>8, <2>2, DueIsFirst DEF SameId, Unsettled
    <3>2. barrier[o].at = "waiting" /\ barrier[o].prev # None /\ Unsettled(barrier[o].prev)
      BY <1>4, <1>8, <2>2 DEF WaitsForPrevious, Used, Unsettled, SameId
    <3>3. barrier[o].prev \in Releases /\ barrier'[o] = barrier[o]
      BY <1>4, <3>1, <3>2 DEF AcquisitionTypes, Barriers
    <3> QED BY <1>8, <3>2, <3>3 DEF Unsettled
  <2> QED BY <2>1, <2>2 DEF WaitsForPrevious, Used, Unsettled, SameId
<1>12. WaitsForCreation'
  BY <1>4, <1>8, DueIsFirst DEF WaitsForCreation
<1>13. \A p \in Releases : Covered(p)' <=> Covered(p)
  BY <1>4, <1>8 DEF Covered, SameId
<1>14. FailuresInherited'
  <2>1. ASSUME NEW p \in Releases, barrier'[p].at \in Settled \cup {"cleaning"}
        PROVE  barrier'[p].failedCleanup \/ Covered(p)'
    <3>1. CASE p = r
      BY <1>4, <1>13, <3>1, InheritsRight
    <3>2. CASE p # r
      BY <1>4, <1>13, <2>1, <3>2 DEF FailuresInherited
    <3> QED BY <3>1, <3>2
  <2>2. ASSUME NEW p \in Releases, barrier'[p].at = "waiting", barrier'[p].prev = None
        PROVE  Covered(p)'
    BY <1>8, <1>13, <2>2 DEF FailuresInherited
  <2> QED BY <2>1, <2>2 DEF FailuresInherited
<1>15. FailuresRepaired'
  BY <1>4, <1>8 DEF FailuresRepaired, SameId
<1> QED BY <1>1, <1>2, <1>9, <1>10, <1>11, <1>12, <1>14, <1>15

\* r settles; failed is what the release before it left.
Failed(r) == IF barrier[r].at = "waiting" THEN Inherits(r) ELSE barrier[r].failedCleanup

LEMMA SettlingKeeps ==
    ASSUME AcquisitionInv, NEW r \in Releases, CleanupDue(r) \/ barrier[r].at = "cleaning",
           NEW outcome \in Settled, CallsMove, pending' = pending,
           barrier' \in [Releases -> Barriers],
           barrier'[r].at = outcome, barrier'[r].id = barrier[r].id,
           barrier'[r].failedCleanup <=> (outcome = "failed" \/ (outcome = "refused" /\ Failed(r))),
           \A q \in Releases \ {r} : barrier'[q] = barrier[q],
           releases' \in [Ids -> Releases \cup {None}],
           \A i \in Ids : releases'[i] = IF releases[i] = r /\ Reusable(barrier'[r]) THEN None ELSE releases[i]
    PROVE  AcquisitionInv'
<1> USE DEF AcquisitionInv, ReleaseInv
<1> DEFINE id == barrier[r].id
<1>1. /\ \A q \in Releases : q < r /\ SameId(q, r) => ~Unsettled(q)
      /\ pending[id] = None /\ id \in Ids /\ Unsettled(r)
      /\ releases[id] \in Releases /\ Unsettled(releases[id])
  BY DueIsFirst
<1>2. ~Failed(r) => Covered(r)
  BY InheritsRight DEF Failed, CleanupDue, FailuresInherited
<1>4. \A q \in Releases : barrier'[q].id = barrier[q].id
  OBVIOUS
<1>6. \A i \in Ids : releases'[i] # None => releases'[i] = releases[i] /\ releases[i] \in Releases
  BY DEF AcquisitionTypes
<1>7. AcquisitionTypes'
  BY DEF AcquisitionTypes, CallsMove
<1>8. CreationsAreMapped'
  BY MovesKeepMap
<1>9. /\ \A q \in Releases : Used(q)' <=> Used(q)
      /\ \A q \in Releases : Unsettled(q)' <=> Unsettled(q) /\ q # r
      /\ \A q \in Releases : barrier'[q].at = "waiting" => q # r /\ barrier'[q] = barrier[q]
  BY <1>1, <1>4 DEF Used, Unsettled, Settled
<1>10. NumberedInOrder'
  BY <1>4, <1>9 DEF NumberedInOrder
<1>11. ASSUME NEW q \in Releases, Unsettled(q), q # r, SameId(q, r) PROVE releases[id] # r
  <2>1. r < q
    BY <1>1, <1>11 DEF Releases
  <2>2. q <= releases[id]
    BY <1>1, <1>11 DEF LatestIsMapped, SameId, Used, Unsettled
  <2> QED BY <2>1, <2>2 DEF Releases
<1>12. LatestIsMapped'
  <2>1. ASSUME NEW i \in Ids, releases'[i] # None
        PROVE  /\ barrier'[releases'[i]].at # "unused" /\ barrier'[releases'[i]].id = i
               /\ \A q \in Releases : barrier'[q].at # "unused" /\ barrier'[q].id = i => q <= releases'[i]
    <3>1. /\ releases'[i] = releases[i] /\ releases[i] \in Releases
          /\ Used(releases[i]) /\ barrier[releases[i]].id = i
          /\ \A q \in Releases : Used(q) /\ barrier[q].id = i => q <= releases[i]
      BY <1>6, <2>1 DEF LatestIsMapped
    <3> QED BY <1>4, <1>9, <3>1 DEF Used
  <2>2. ASSUME NEW q \in Releases, Unsettled(q)'
        PROVE  releases'[barrier'[q].id] # None /\ barrier'[releases'[barrier'[q].id]].at \in {"waiting", "cleaning"}
    <3>1. /\ Unsettled(q) /\ q # r /\ barrier'[q].id = barrier[q].id /\ barrier[q].id \in Ids
          /\ releases[barrier[q].id] # None /\ Unsettled(releases[barrier[q].id])
      BY <1>4, <1>9, <2>2 DEF LatestIsMapped, NumberedInOrder, Used, Unsettled
    <3>2. releases[barrier[q].id] # r
      <4>1. CASE barrier[q].id = id
        BY <1>11, <3>1, <4>1 DEF SameId
      <4>2. CASE barrier[q].id # id
        BY <3>1, <4>2 DEF LatestIsMapped
      <4> QED BY <4>1, <4>2
    <3>3. releases'[barrier[q].id] = releases[barrier[q].id] /\ releases[barrier[q].id] \in Releases
      BY <3>1, <3>2 DEF AcquisitionTypes
    <3> QED BY <1>9, <3>1, <3>2, <3>3 DEF Unsettled
  <2> QED BY <2>1, <2>2 DEF LatestIsMapped, Used, Unsettled
<1>13. WaitsForPrevious'
  <2>1. ASSUME NEW q \in Releases, barrier'[q].at = "waiting", barrier'[q].prev # None
        PROVE  /\ barrier'[q].prev < q /\ barrier'[barrier'[q].prev].at # "unused"
               /\ barrier'[barrier'[q].prev].id = barrier'[q].id
               /\ \A o \in Releases : barrier'[o].at # "unused" /\ o < q /\ barrier'[o].id = barrier'[q].id
                                      => o <= barrier'[q].prev
    <3>1. barrier'[q] = barrier[q] /\ barrier[q].prev \in Releases
      BY <1>9, <2>1 DEF AcquisitionTypes, Barriers
    <3> QED BY <1>4, <1>9, <2>1, <3>1 DEF WaitsForPrevious, Used, SameId
  <2>2. ASSUME NEW q \in Releases, NEW o \in Releases, q < o, barrier'[q].id = barrier'[o].id,
               Unsettled(q)', Used(o)'
        PROVE  barrier'[o].at = "waiting" /\ barrier'[o].prev # None /\ barrier'[barrier'[o].prev].at \in {"waiting", "cleaning"}
    <3>1. Unsettled(q) /\ q # r /\ Used(o) /\ SameId(q, o)
      BY <1>4, <1>9, <2>2 DEF SameId
    <3>2. barrier[o].at = "waiting" /\ barrier[o].prev # None /\ Unsettled(barrier[o].prev)
      BY <2>2, <3>1 DEF WaitsForPrevious
    <3>3. /\ barrier[o].prev \in Releases /\ barrier[o].prev < o /\ SameId(barrier[o].prev, o)
          /\ q <= barrier[o].prev
      BY <2>2, <3>1, <3>2 DEF WaitsForPrevious, AcquisitionTypes, Barriers, Used, Unsettled
    <3>4. o # r /\ barrier[o].prev # r
      <4>1. ~(q < r /\ SameId(q, r))
        BY <1>1, <3>1
      <4> QED BY <2>2, <3>1, <3>3, <4>1 DEF SameId, Releases
    <3>5. barrier'[o] = barrier[o] /\ barrier'[barrier[o].prev] = barrier[barrier[o].prev]
      BY <1>4, <3>3, <3>4
    <3> QED BY <3>2, <3>5 DEF Unsettled
  <2> QED BY <2>1, <2>2 DEF WaitsForPrevious, Used, Unsettled, SameId
<1>14. WaitsForCreation'
  BY <1>4, <1>9 DEF WaitsForCreation, Settled
<1>15. ASSUME NEW p \in Releases, Covered(p), p < r \/ ~SameId(p, r) \/ outcome # "failed" PROVE Covered(p)'
  <2> SUFFICES ASSUME NEW q \in Releases, q <= p, barrier'[q].at = "failed", SameId(q, p)
               PROVE  \E o \in Releases : q < o /\ o <= p /\ barrier'[o].at = "done" /\ SameId(o, p)
    BY <1>4 DEF Covered, SameId
  <2>1. q # r
    BY <1>4, <1>15 DEF SameId, Releases
  <2>2. barrier[q].at = "failed"
    BY <1>4, <2>1
  <2>3. PICK o \in Releases : q < o /\ o <= p /\ barrier[o].at = "done" /\ SameId(o, p)
    BY <1>15, <2>2 DEF Covered
  <2>4. o # r
    BY <1>1, <2>3 DEF Unsettled
  <2> QED BY <1>4, <2>3, <2>4
<1>16. FailuresInherited'
  <2>1. ASSUME NEW p \in Releases, barrier'[p].at \in Settled \cup {"cleaning"}
        PROVE  barrier'[p].failedCleanup \/ Covered(p)'
    <3>1. CASE p = r /\ outcome = "failed"
      BY <1>4, <3>1
    <3>2. CASE p = r /\ outcome = "refused"
      BY <1>2, <1>4, <1>15, <3>2
    <3>3. CASE p = r /\ outcome = "done"
      <4> SUFFICES ASSUME NEW q \in Releases, q <= r, barrier'[q].at = "failed", SameId(q, r)
                   PROVE  q < r /\ r <= r /\ barrier'[r].at = "done" /\ SameId(r, r)
        BY <1>4, <3>3 DEF Covered, SameId
      <4> QED BY <1>4, <3>3 DEF SameId, Releases
    <3>4. CASE p # r
      <4>1. barrier'[p] = barrier[p] /\ (barrier[p].failedCleanup \/ Covered(p))
        BY <1>4, <2>1, <3>4 DEF FailuresInherited
      <4>2. SameId(p, r) => p < r
        <5>1. ASSUME r < p, SameId(r, p) PROVE FALSE
          <6>1. Used(p)
            BY <2>1, <4>1 DEF Used, Settled
          <6>2. barrier[p].at = "waiting"
            BY <1>1, <5>1, <6>1 DEF WaitsForPrevious
          <6> QED BY <2>1, <4>1, <6>2 DEF Settled
        <5> QED BY <3>4, <5>1 DEF SameId, Releases
      <4> QED BY <1>15, <4>1, <4>2
    <3> QED BY <3>1, <3>2, <3>3, <3>4 DEF Settled
  <2>2. ASSUME NEW p \in Releases, barrier'[p].at = "waiting", barrier'[p].prev = None
        PROVE  Covered(p)'
    <3>1. p # r /\ barrier'[p] = barrier[p] /\ Covered(p)
      BY <1>9, <2>2 DEF FailuresInherited
    <3>2. SameId(p, r) => p < r
      <4>1. ASSUME r < p, SameId(r, p) PROVE FALSE
        <5>1. barrier[p].prev # None
          BY <1>1, <2>2, <3>1, <4>1 DEF WaitsForPrevious, Used
        <5> QED BY <2>2, <3>1, <5>1
      <4> QED BY <3>1, <4>1 DEF SameId, Releases
    <3> QED BY <1>15, <3>1, <3>2
  <2> QED BY <2>1, <2>2 DEF FailuresInherited
<1>17. FailuresRepaired'
  <2> SUFFICES ASSUME NEW q \in Releases, barrier'[q].at = "failed",
                      releases'[barrier[q].id] = None \/ pending[barrier[q].id] # None
               PROVE  \E o \in Releases : q < o /\ barrier'[o].at = "done" /\ SameId(o, q)
    BY <1>4 DEF FailuresRepaired, SameId
  <2>1. ASSUME q # r, releases[barrier[q].id] = None \/ pending[barrier[q].id] # None
        PROVE  \E o \in Releases : q < o /\ barrier'[o].at = "done" /\ SameId(o, q)
    <3>1. PICK o \in Releases : q < o /\ barrier[o].at = "done" /\ SameId(o, q)
      BY <1>4, <2>1 DEF FailuresRepaired
    <3>2. o # r
      BY <1>1, <3>1 DEF Unsettled
    <3> QED BY <1>4, <3>1, <3>2
  <2>2. barrier[q].id \in Ids
    BY <1>4, <1>9 DEF NumberedInOrder, Used
  <2>3. CASE barrier[q].id # id
    <3>1. q # r /\ (releases[barrier[q].id] # None => releases[barrier[q].id] # r)
      BY <2>2, <2>3 DEF LatestIsMapped
    <3> QED BY <2>1, <2>2, <3>1
  <2>4. CASE barrier[q].id = id
    <3>1. releases'[id] = None /\ releases[id] = r /\ Reusable(barrier'[r])
      BY <1>1, <2>4, AcquisitionConstants DEF Releases, None
    <3>2. q # r
      BY <3>1 DEF Reusable
    <3>3. barrier[q].at = "failed" /\ q <= r /\ SameId(q, r)
      BY <1>1, <1>4, <2>4, <3>1, <3>2 DEF LatestIsMapped, Used, SameId
    <3>4. CASE outcome = "done"
      BY <1>4, <3>2, <3>3, <3>4 DEF SameId, Releases
    <3>5. CASE outcome # "done"
      <4>1. ~Failed(r)
        BY <1>2, <1>4, <3>1, <3>5 DEF Reusable
      <4>2. PICK o \in Releases : q < o /\ o <= r /\ barrier[o].at = "done" /\ SameId(o, r)
        BY <1>2, <3>3, <4>1 DEF Covered
      <4>3. o # r
        BY <1>1, <4>2 DEF Unsettled
      <4> QED BY <1>4, <3>3, <4>2, <4>3 DEF SameId
    <3> QED BY <3>4, <3>5
  <2> QED BY <2>3, <2>4
<1> QED BY <1>7, <1>8, <1>10, <1>12, <1>13, <1>14, <1>16, <1>17

-----------------------------------------------------------------------------
(***************************************************************************)
(* Sessions: who has each, parts of the inductive invariant.               *)
(***************************************************************************)
SessionRows == [id : Ids \cup {None}, owner : Owners \cup {None}, cold : BOOLEAN,
                st : {"none", "spawning", "idle", "retiring", "unconfirmed", "gone"}]

SessionTypes ==
    /\ session \in [Sessions -> SessionRows]
    /\ active \in [Ids -> Sessions \cup {None}]
    /\ warm \subseteq Sessions /\ DOMAIN warming \subseteq Sessions
    /\ \A s \in DOMAIN warming : warming[s] \in {"spawning", "ready", "failing", "dropped"}
    /\ held \in [Callers -> Sessions \cup {None}]

\* The caller holds a reservation for the session it is on.
Reserves(c) == caller[c].at \in {"spawning", "failing"}

UnnamedIsNobodys ==
    \A s \in Sessions : session[s].st \in {"none", "gone"} => session[s].id = None /\ ~session[s].cold

ActiveIsNamed ==
    \A id \in Ids : active[id] # None =>
        /\ session[active[id]].id = id
        /\ session[active[id]].st \in {"idle", "retiring", "unconfirmed"}

WarmIsUnnamed ==
    /\ \A s \in warm : /\ session[s].id = None /\ ~session[s].cold /\ session[s].st = "idle"
                       /\ s \notin DOMAIN warming
    /\ \A s \in DOMAIN warming :
          /\ session[s].id = None /\ ~session[s].cold
          /\ warming[s] = "spawning" => session[s].st = "spawning"
          /\ warming[s] = "ready" => session[s].st = "idle"
          /\ warming[s] \in {"failing", "dropped"} => session[s].st = "retiring"

SpawnsAreNamed ==
    \A c \in Callers : Reserves(c) =>
        /\ caller[c].on \in Sessions
        /\ session[caller[c].on].id = caller[c].id /\ session[caller[c].on].cold
        /\ caller[c].at = "spawning" => session[caller[c].on].st = "spawning"
        /\ caller[c].at = "failing" => session[caller[c].on].st = "retiring"

\* Who found no session of its id is right until it has made one.
NoneFound == \A c \in Callers : caller[c].at \in Looking => active[caller[c].id] = None

\* A session with an id is the active one, or its creation is under way or failed.
NamedIsKnown ==
    \A s \in Sessions : session[s].id # None =>
        \/ active[session[s].id] = s
        \/ \E c \in Callers : Reserves(c) /\ caller[c].on = s
        \/ session[s].st = "unconfirmed"

CleaningSessions ==
    \A r \in Releases : barrier[r].at = "cleaning" =>
        /\ barrier[r].on \in Sessions
        /\ session[barrier[r].on].st = "retiring" /\ session[barrier[r].on].id = barrier[r].id
        /\ active[barrier[r].id] \in {barrier[r].on, None}

OwnInv ==
    /\ UnnamedIsNobodys /\ ActiveIsNamed /\ WarmIsUnnamed /\ SpawnsAreNamed /\ NoneFound
    /\ NamedIsKnown /\ CleaningSessions

\* The sessions whose reservations are counted.
Reserved ==
    {s \in Sessions : \/ \E c \in Callers : Reserves(c) /\ caller[c].on = s
                      \/ s \in DOMAIN warming /\ warming[s] \in {"spawning", "failing"}}

ColdActive == {s \in Active : session[s].cold}

ReservationsCounted == spawns = Cardinality(Reserved)

SessionInv ==
    AcquisitionInv /\ SessionTypes /\ OwnInv /\ ReservationsCounted /\ WithinBudget

(***************************************************************************)
(* Writes to one session and one call.                                     *)
(***************************************************************************)
LEMMA SetStateFacts ==
    ASSUME SessionTypes, NEW s \in Sessions,
           NEW st \in {"none", "spawning", "idle", "retiring", "unconfirmed", "gone"}
    PROVE  /\ SetState(s, st) \in [Sessions -> SessionRows]
           /\ SetState(s, st)[s].st = st /\ SetState(s, st)[s].id = session[s].id
           /\ SetState(s, st)[s].cold = session[s].cold /\ SetState(s, st)[s].owner = session[s].owner
           /\ \A t \in Sessions \ {s} : SetState(s, st)[t] = session[t]
<1> DEFINE e == [session[s] EXCEPT !.st = st]
<1>1. e \in SessionRows /\ e.st = st /\ e.id = session[s].id /\ e.cold = session[s].cold /\ e.owner = session[s].owner
  BY DEF SessionTypes, SessionRows
<1>2. SetState(s, st) = [session EXCEPT ![s] = e]
  BY DEF SetState
<1> HIDE DEF e
<1> QED BY <1>1, <1>2 DEF SessionTypes

LEMMA MoveFacts ==
    ASSUME AcquisitionTypes, NEW a \in Callers, caller[a].at \in Creating,
           NEW at \in Creating, NEW on \in Things, caller' = Move(a, at, on)
    PROVE  /\ CallsMove
           /\ caller'[a].at = at /\ caller'[a].on = on /\ caller'[a].id = caller[a].id
           /\ \A c \in Callers \ {a} : caller'[c] = caller[c]
<1> DEFINE e == [caller[a] EXCEPT !.at = at, !.on = on]
<1>1. e \in Calls /\ e.at = at /\ e.on = on /\ e.id = caller[a].id /\ e.owner = caller[a].owner
  BY DEF AcquisitionTypes, Calls
<1>2. caller' = [caller EXCEPT ![a] = e]
  BY DEF Move
<1> HIDE DEF e
<1> QED BY <1>1, <1>2 DEF AcquisitionTypes, CallsMove

LEMMA SettlesFacts ==
    ASSUME AcquisitionInv, NEW a \in Callers, caller[a].at \in Creating, NEW ok, WorkSettles(a, ok)
    PROVE  /\ AcquisitionInv'
           /\ \A c \in Callers : \/ caller'[c] = caller[c] /\ c # a
                                 \/ caller'[c].at = "idle" /\ caller[c].at = "joined" /\ c # a
                                 \/ caller'[c].at = "idle" /\ c = a
           /\ \A r \in Releases : barrier[r].at = "cleaning" \/ barrier'[r].at = "cleaning" =>
                                     barrier'[r] = barrier[r]
<1>1. AcquisitionInv'
  BY WorkSettlesKeeps
<1>2. \A c \in Callers : \/ caller'[c] = caller[c] /\ c # a
                         \/ caller'[c].at = "idle" /\ caller[c].at = "joined" /\ c # a
                         \/ caller'[c].at = "idle" /\ c = a
  BY DEF WorkSettles, Sharing, NoCall
<1>3. \A r \in Releases : barrier[r].at = "waiting" => [barrier[r] EXCEPT !.on = None].at = "waiting"
  BY DEF AcquisitionInv, AcquisitionTypes, Barriers
<1>4. \A r \in Releases : barrier[r].at = "cleaning" \/ barrier'[r].at = "cleaning" => barrier'[r] = barrier[r]
  BY <1>3 DEF WorkSettles
<1> QED BY <1>1, <1>2, <1>4

(***************************************************************************)
(* The count of reservations, and the budget.                              *)
(***************************************************************************)
LEMMA FiniteParts ==
    ASSUME SessionTypes
    PROVE  /\ IsFiniteSet(Reserved) /\ IsFiniteSet(Active) /\ IsFiniteSet(warm) /\ IsFiniteSet(ColdActive)
           /\ ColdActive \subseteq Active /\ Active \subseteq Sessions
           /\ Cardinality(Reserved) \in Nat /\ Cardinality(ColdActive) \in Nat
           /\ Cardinality(Active) \in Nat /\ Cardinality(warm) \in Nat
           /\ Cardinality(ColdActive) <= Cardinality(Active)
<1>1. IsFiniteSet(Sessions)
  BY SessionConstants, FS_Interval DEF Sessions
<1>2. Reserved \subseteq Sessions /\ Active \subseteq Sessions /\ warm \subseteq Sessions /\ ColdActive \subseteq Active
  BY DEF SessionTypes, Reserved, Active, ColdActive
<1>3. IsFiniteSet(Reserved) /\ IsFiniteSet(Active) /\ IsFiniteSet(warm)
  BY <1>1, <1>2, FS_Subset
<1>4. IsFiniteSet(ColdActive) /\ Cardinality(ColdActive) <= Cardinality(Active)
  BY <1>2, <1>3, FS_Subset
<1> QED BY <1>2, <1>3, <1>4, FS_CardinalityType

Counted == ReservationsCounted /\ WithinBudget

LEMMA CountSame ==
    ASSUME SessionTypes, SessionTypes', Counted, Reserved' = Reserved, spawns' = spawns,
           ColdActive' \subseteq ColdActive
    PROVE  Counted'
<1>1. Cardinality(ColdActive') <= Cardinality(ColdActive)
  BY FiniteParts, FS_Subset
<1>2. Cardinality(ColdActive') \in Nat /\ Cardinality(ColdActive) \in Nat /\ Cardinality(Reserved) \in Nat
  BY <1>1, FiniteParts, FS_Subset, FS_CardinalityType
<1>3. spawns = Cardinality(Reserved) /\ Cardinality(ColdActive) + spawns <= Cap
  BY DEF Counted, ReservationsCounted, WithinBudget, ColdActive
<1>4. Cardinality(ColdActive') + spawns' <= Cap
  BY <1>1, <1>2, <1>3, SessionConstants
<1> QED BY <1>3, <1>4 DEF Counted, ReservationsCounted, WithinBudget, ColdActive

LEMMA CountTaken ==
    ASSUME SessionTypes, Counted, NEW s \in Sessions \ Reserved, Reserved' = Reserved \cup {s},
           spawns' = spawns + 1, Total < Cap, ColdActive' = ColdActive
    PROVE  Counted'
<1>1. Cardinality(Reserved') = Cardinality(Reserved) + 1
  BY FiniteParts, FS_AddElement
<1>2. spawns = Cardinality(Reserved) /\ Cardinality(Active) + Cardinality(warm) + spawns < Cap
  BY DEF Counted, ReservationsCounted, Total
<1>3. Cardinality(ColdActive') + spawns' <= Cap
  BY <1>2, FiniteParts, SessionConstants
<1> QED BY <1>1, <1>2, <1>3 DEF Counted, ReservationsCounted, WithinBudget, ColdActive

LEMMA CountFreed ==
    ASSUME SessionTypes, SessionTypes', Counted, NEW s \in Reserved, Reserved' = Reserved \ {s},
           spawns' = spawns - 1, ColdActive' \subseteq ColdActive \cup {s}
    PROVE  Counted'
<1>1. Cardinality(Reserved') = Cardinality(Reserved) - 1
  BY FiniteParts, FS_RemoveElement
<1>2. IsFiniteSet(ColdActive \cup {s}) /\ Cardinality(ColdActive \cup {s}) <= Cardinality(ColdActive) + 1
  <2>1. IsFiniteSet(ColdActive) /\ Cardinality(ColdActive) \in Nat
    BY FiniteParts
  <2>2. /\ IsFiniteSet(ColdActive \cup {s})
        /\ Cardinality(ColdActive \cup {s}) = IF s \in ColdActive THEN Cardinality(ColdActive)
                                              ELSE Cardinality(ColdActive) + 1
    BY <2>1, FS_AddElement
  <2> QED BY <2>1, <2>2
<1>3. /\ Cardinality(ColdActive') <= Cardinality(ColdActive \cup {s})
      /\ Cardinality(ColdActive') \in Nat /\ Cardinality(ColdActive \cup {s}) \in Nat
  BY <1>2, FS_Subset, FS_CardinalityType
<1>4. spawns = Cardinality(Reserved) /\ Cardinality(ColdActive) + spawns <= Cap
  BY DEF Counted, ReservationsCounted, WithinBudget, ColdActive
<1>5. Cardinality(ColdActive') + spawns' <= Cap
  BY <1>2, <1>3, <1>4, FiniteParts, SessionConstants
<1> QED BY <1>1, <1>4, <1>5 DEF Counted, ReservationsCounted, WithinBudget, ColdActive

-----------------------------------------------------------------------------
(***************************************************************************)
(* Steps that touch no session.                                            *)
(***************************************************************************)
LEMMA QuietKeeps ==
    ASSUME SessionInv, AcquisitionInv',
           session' = session, active' = active, warm' = warm, warming' = warming, spawns' = spawns,
           held' \in [Callers -> Sessions \cup {None}],
           \A c \in Callers : Reserves(c) \/ Reserves(c)' => caller'[c] = caller[c],
           \A c \in Callers : caller'[c].at \in Looking => active[caller'[c].id] = None,
           \A r \in Releases : barrier'[r].at = "cleaning" => barrier'[r] = barrier[r]
    PROVE  SessionInv'
<1> USE DEF SessionInv, OwnInv
<1>1. SessionTypes'
  BY DEF SessionTypes
<1>2. UnnamedIsNobodys' /\ ActiveIsNamed' /\ WarmIsUnnamed'
  BY DEF UnnamedIsNobodys, ActiveIsNamed, WarmIsUnnamed
<1>3. SpawnsAreNamed'
  BY DEF SpawnsAreNamed, Reserves
<1>4. NoneFound' /\ CleaningSessions'
  BY DEF NoneFound, CleaningSessions
<1>5. \A t : (\E c \in Callers : Reserves(c)' /\ caller'[c].on = t) <=> (\E c \in Callers : Reserves(c) /\ caller[c].on = t)
  BY DEF Reserves
<1>6. NamedIsKnown'
  BY <1>5 DEF NamedIsKnown
<1>7. Reserved' = Reserved /\ ColdActive' = ColdActive
  BY <1>5 DEF Reserved, ColdActive, Active
<1>8. Counted'
  BY <1>1, <1>7, CountSame DEF Counted
<1> QED BY <1>1, <1>2, <1>3, <1>4, <1>6, <1>8 DEF Counted

LEMMA AcquireKeeps ==
    ASSUME SessionInv, NEW a \in Callers, NEW id \in Ids, NEW owner \in Owners, AcquireSession(a, id, owner)
    PROVE  SessionInv'
<1> USE DEF SessionInv
<1>1. /\ caller[a].at = "idle" /\ Enter(a, id, owner) /\ releases' = releases /\ barrier' = barrier
      /\ session' = session /\ active' = active /\ warm' = warm /\ warming' = warming /\ spawns' = spawns
      /\ held' = [held EXCEPT ![a] = None]
  BY DEF AcquireSession, Acquire
<1>2. AcquisitionInv'
  BY <1>1, EnterKeeps
<1>3. held' \in [Callers -> Sessions \cup {None}]
  BY <1>1 DEF SessionTypes
<1>4. caller'[a].at \in {"barrier", "joined", "creating"} /\ \A c \in Callers \ {a} : caller'[c] = caller[c]
  BY <1>1 DEF Enter, AcquisitionInv, AcquisitionTypes
<1>5. \A c \in Callers : Reserves(c) \/ Reserves(c)' => caller'[c] = caller[c]
  BY <1>1, <1>4 DEF Reserves
<1>6. \A c \in Callers : caller'[c].at \in Looking => active[caller'[c].id] = None
  BY <1>4 DEF Looking, OwnInv, NoneFound
<1> QED BY <1>1, <1>2, <1>3, <1>5, <1>6, QuietKeeps

LEMMA PastReleaseKeeps ==
    ASSUME SessionInv, NEW a \in Callers, PastRelease(a)
    PROVE  SessionInv'
<1> USE DEF SessionInv
<1>1. /\ caller[a].at = "barrier" /\ releases' = releases /\ barrier' = barrier
      /\ session' = session /\ active' = active /\ warm' = warm /\ warming' = warming /\ spawns' = spawns
      /\ held' = held
      /\ \/ caller' = [caller EXCEPT ![a] = NoCall] /\ pending' = pending
         \/ Enter(a, caller[a].id, caller[a].owner)
  BY DEF PastRelease, PastBarrier, managerVars
<1>2. caller[a].id \in Ids /\ caller[a].owner \in Owners \cup {None}
  BY <1>1 DEF AcquisitionInv, CreationsAreMapped, AcquisitionTypes, Calls
<1>3. AcquisitionInv'
  BY <1>1, <1>2, EnterKeeps, RefusedKeeps
<1>4. caller'[a].at \in {"idle", "barrier", "joined", "creating"} /\ \A c \in Callers \ {a} : caller'[c] = caller[c]
  BY <1>1 DEF Enter, NoCall, AcquisitionInv, AcquisitionTypes
<1>5. \A c \in Callers : Reserves(c) \/ Reserves(c)' => caller'[c] = caller[c]
  BY <1>1, <1>4 DEF Reserves
<1>6. \A c \in Callers : caller'[c].at \in Looking => active[caller'[c].id] = None
  BY <1>4 DEF Looking, OwnInv, NoneFound
<1> QED BY <1>1, <1>3, <1>5, <1>6, QuietKeeps DEF SessionTypes

LEMMA ReleaseSessionKeeps ==
    ASSUME SessionInv, NEW r \in Releases, NEW id \in Ids, NEW owner \in Owners, ReleaseSession(r, id, owner)
    PROVE  SessionInv'
<1> USE DEF SessionInv
<1>1. /\ Release(r, id, owner) /\ caller' = caller
      /\ session' = session /\ active' = active /\ warm' = warm /\ warming' = warming /\ spawns' = spawns
      /\ held' = held
  BY DEF ReleaseSession, managerVars, Release
<1>2. AcquisitionInv'
  BY <1>1, ReleaseKeeps
<1>3. \A q \in Releases : barrier'[q].at = "cleaning" => barrier'[q] = barrier[q]
  BY <1>1 DEF Release, AcquisitionInv, AcquisitionTypes
<1> QED BY <1>1, <1>2, <1>3, QuietKeeps DEF SessionTypes, OwnInv, NoneFound

\* A creation that ends without a new session.
LEMMA EndsKeeps ==
    ASSUME SessionInv, NEW a \in Callers, caller[a].at \in Creating \ {"spawning", "failing"},
           NEW s \in Sessions \cup {None}, Deliver(a, s, session),
           UNCHANGED <<session, active, warm, warming, spawns>>
    PROVE  SessionInv'
<1> USE DEF SessionInv
<1>1. WorkSettles(a, s # None)
  BY DEF Deliver
<1>2. /\ AcquisitionInv'
      /\ \A c \in Callers : \/ caller'[c] = caller[c] /\ c # a
                            \/ caller'[c].at = "idle" /\ caller[c].at = "joined" /\ c # a
                            \/ caller'[c].at = "idle" /\ c = a
      /\ \A r \in Releases : barrier'[r].at = "cleaning" => barrier'[r] = barrier[r]
  BY <1>1, SettlesFacts
<1>3. held' \in [Callers -> Sessions \cup {None}]
  BY DEF Deliver, SessionTypes
<1>4. \A c \in Callers : Reserves(c) \/ Reserves(c)' => caller'[c] = caller[c]
  BY <1>2 DEF Reserves
<1>5. \A c \in Callers : caller'[c].at \in Looking => active[caller'[c].id] = None
  BY <1>2 DEF Looking, OwnInv, NoneFound
<1> QED BY <1>2, <1>3, <1>4, <1>5, QuietKeeps

LEMMA QuietStepsKeep ==
    ASSUME SessionInv, NEW a \in Callers,
           FindExisting(a) \/ NoCapacity(a) \/ NotStarted(a) \/ Rejected(a) \/ EndSearch(a)
    PROVE  SessionInv'
<1> USE DEF SessionInv
<1>1. CASE FindExisting(a)
  <2> DEFINE f == active[caller[a].id]
             s == IF session[f].owner = caller[a].owner THEN f ELSE None
  <2>1. /\ caller[a].at = "creating" /\ f # None /\ Deliver(a, s, session)
        /\ UNCHANGED <<session, active, warm, warming, spawns>>
    BY <1>1 DEF FindExisting
  <2>2. s \in Sessions \cup {None}
    BY <2>1 DEF AcquisitionInv, CreationsAreMapped, Creating, SessionTypes
  <2>3. caller[a].at \in Creating \ {"spawning", "failing"}
    BY <2>1 DEF Creating
  <2> HIDE DEF s
  <2> QED BY <2>1, <2>2, <2>3, EndsKeeps
<1>2. CASE NoCapacity(a) \/ NotStarted(a) \/ Rejected(a)
  <2>1. /\ caller[a].at \in Creating \ {"spawning", "failing"} /\ Deliver(a, None, session)
        /\ UNCHANGED <<session, active, warm, warming, spawns>>
    BY <1>2 DEF NoCapacity, NotStarted, Rejected, Creating
  <2> QED BY <2>1, EndsKeeps
<1>3. CASE EndSearch(a)
  <2>1. /\ caller' = Move(a, "reserving", None) /\ pending' = pending /\ releases' = releases /\ barrier' = barrier
        /\ session' = session /\ active' = active /\ warm' = warm /\ warming' = warming /\ spawns' = spawns
        /\ held' = held
        /\ caller[a].at \in {"searching", "creating"} /\ active[caller[a].id] = None
    BY <1>3 DEF EndSearch, Searching, managerVars, OwnInv, NoneFound, Looking
  <2>2. /\ CallsMove /\ caller'[a].at = "reserving" /\ caller'[a].id = caller[a].id
        /\ \A c \in Callers \ {a} : caller'[c] = caller[c]
    BY <2>1, MoveFacts DEF AcquisitionInv, Creating, Things
  <2>3. AcquisitionInv'
    BY <2>1, <2>2, MovesKeep
  <2>4. \A c \in Callers : Reserves(c) \/ Reserves(c)' => caller'[c] = caller[c]
    BY <2>1, <2>2 DEF Reserves
  <2>5. \A c \in Callers : caller'[c].at \in Looking => active[caller'[c].id] = None
    BY <2>1, <2>2 DEF OwnInv, NoneFound
  <2> QED BY <2>1, <2>3, <2>4, <2>5, QuietKeeps DEF SessionTypes
<1> QED BY <1>1, <1>2, <1>3

-----------------------------------------------------------------------------
(***************************************************************************)
(* Who has a session excludes the others.                                  *)
(***************************************************************************)
LEMMA NotReserved ==
    ASSUME SessionInv, NEW s \in Active \cup warm \cup DOMAIN warming
    PROVE  \A c \in Callers : Reserves(c) => caller[c].on # s
<1> USE DEF SessionInv, OwnInv
<1> SUFFICES ASSUME NEW c \in Callers, Reserves(c), caller[c].on = s PROVE FALSE
  OBVIOUS
<1>1. caller[c].id \in Ids /\ session[s].id = caller[c].id /\ active[caller[c].id] = None
  BY DEF Reserves, SpawnsAreNamed, NoneFound, Looking, AcquisitionInv, CreationsAreMapped, Creating
<1>2. CASE s \in Active
  <2>1. PICK id \in Ids : s = active[id] /\ s # None
    BY <1>2 DEF Active
  <2>2. session[s].id = id
    BY <2>1 DEF ActiveIsNamed
  <2> QED BY <1>1, <2>1, <2>2
<1>3. CASE s \in warm \cup DOMAIN warming
  BY <1>1, <1>3, AcquisitionConstants DEF WarmIsUnnamed
<1> QED BY <1>2, <1>3

LEMMA ActiveFacts ==
    ASSUME SessionInv, NEW s \in Active
    PROVE  /\ s \in Sessions /\ session[s].id \in Ids /\ active[session[s].id] = s
           /\ session[s].st \in {"idle", "retiring", "unconfirmed"}
           /\ s \notin warm \cup DOMAIN warming
<1> USE DEF SessionInv, OwnInv
<1>1. PICK id \in Ids : s = active[id] /\ s # None
  BY DEF Active
<1>2. s \in Sessions /\ session[s].id = id /\ session[s].st \in {"idle", "retiring", "unconfirmed"}
  BY <1>1 DEF ActiveIsNamed, SessionTypes
<1> QED BY <1>1, <1>2, AcquisitionConstants DEF WarmIsUnnamed

(***************************************************************************)
(* The disposal of a session begins.                                       *)
(***************************************************************************)
LEMMA RetiresKeeps ==
    ASSUME SessionInv, AcquisitionInv', SessionTypes', WarmIsUnnamed',
           NEW s \in Sessions, session[s].st \notin {"none", "gone"},
           session[s].st = "unconfirmed" => active[session[s].id] = s,
           session' = SetState(s, "retiring"), active' = active, spawns' = spawns,
           \A t \in Sessions : (t \in DOMAIN warming' /\ warming'[t] \in {"spawning", "failing"})
                                  <=> (t \in DOMAIN warming /\ warming[t] \in {"spawning", "failing"}),
           \A c \in Callers : Reserves(c) \/ Reserves(c)' =>
              /\ Reserves(c) /\ Reserves(c)'
              /\ caller'[c].on = caller[c].on /\ caller'[c].id = caller[c].id
              /\ IF caller[c].on = s THEN caller'[c].at = "failing" ELSE caller'[c].at = caller[c].at,
           \A c \in Callers : caller'[c].at \in Looking => active[caller'[c].id] = None,
           \A r \in Releases : barrier'[r].at = "cleaning" =>
              \/ barrier'[r] = barrier[r]
              \/ barrier'[r].on = s /\ barrier'[r].id = session[s].id /\ active[barrier'[r].id] = s
    PROVE  SessionInv'
<1> USE DEF SessionInv, OwnInv
<1>1. /\ session'[s].st = "retiring" /\ session'[s].id = session[s].id /\ session'[s].cold = session[s].cold
      /\ \A t \in Sessions \ {s} : session'[t] = session[t]
  BY SetStateFacts
<1>2. \A t \in Sessions : /\ session'[t].id = session[t].id /\ session'[t].cold = session[t].cold
                          /\ session'[t].st = IF t = s THEN "retiring" ELSE session[t].st
  BY <1>1
<1>3. UnnamedIsNobodys'
  BY <1>2 DEF UnnamedIsNobodys
<1>4. ActiveIsNamed'
  BY <1>2 DEF ActiveIsNamed, SessionTypes
<1>5. SpawnsAreNamed'
  <2> SUFFICES ASSUME NEW c \in Callers, Reserves(c)'
               PROVE  /\ caller'[c].on \in Sessions
                      /\ session'[caller'[c].on].id = caller'[c].id /\ session'[caller'[c].on].cold
                      /\ caller'[c].at = "spawning" => session'[caller'[c].on].st = "spawning"
                      /\ caller'[c].at = "failing" => session'[caller'[c].on].st = "retiring"
    BY DEF SpawnsAreNamed
  <2>1. /\ caller'[c].on = caller[c].on /\ caller'[c].id = caller[c].id
        /\ IF caller[c].on = s THEN caller'[c].at = "failing" ELSE caller'[c].at = caller[c].at
    OBVIOUS
  <2>2. /\ caller[c].on \in Sessions
        /\ session[caller[c].on].id = caller[c].id /\ session[caller[c].on].cold
        /\ caller[c].at = "spawning" => session[caller[c].on].st = "spawning"
        /\ caller[c].at = "failing" => session[caller[c].on].st = "retiring"
    BY DEF SpawnsAreNamed
  <2> QED BY <1>2, <2>1, <2>2
<1>6. NoneFound'
  BY DEF NoneFound
<1>7. \A t : (\E c \in Callers : Reserves(c)' /\ caller'[c].on = t) <=> (\E c \in Callers : Reserves(c) /\ caller[c].on = t)
  OBVIOUS
<1>8. NamedIsKnown'
  <2> SUFFICES ASSUME NEW t \in Sessions, session[t].id # None
               PROVE  \/ active[session[t].id] = t
                      \/ \E c \in Callers : Reserves(c)' /\ caller'[c].on = t
                      \/ session'[t].st = "unconfirmed"
    BY <1>2 DEF NamedIsKnown
  <2>1. \/ active[session[t].id] = t
        \/ \E c \in Callers : Reserves(c) /\ caller[c].on = t
        \/ session[t].st = "unconfirmed"
    BY DEF NamedIsKnown
  <2> QED BY <1>2, <1>7, <2>1
<1>9. CleaningSessions'
  BY <1>2 DEF CleaningSessions
<1>10. Reserved' = Reserved /\ ColdActive' = ColdActive
  <2>1. Reserved' = Reserved
    BY <1>7 DEF Reserved
  <2>2. ColdActive' = ColdActive
    BY <1>2 DEF ColdActive, Active, SessionTypes
  <2> QED BY <2>1, <2>2
<1>11. Counted'
  BY <1>10, CountSame DEF Counted
<1> QED BY <1>3, <1>4, <1>5, <1>6, <1>8, <1>9, <1>11 DEF Counted

\* What a caller does that disposes of a session to make room.
LEMMA CallerRetires ==
    ASSUME SessionInv, NEW a \in Callers, Evict(a) \/ Reclaim(a) \/ SpawnFails(a)
    PROVE  SessionInv'
<1> USE DEF SessionInv, OwnInv
<1>0. PICK s \in Sessions, at \in {"evicting", "reclaiming", "failing"} :
         /\ session' = SetState(s, "retiring") /\ caller' = Move(a, at, s)
         /\ warm' = IF at = "evicting" THEN warm \ {s} ELSE warm
         /\ IF at = "failing" THEN caller[a].at = "spawning" /\ caller[a].on = s
            ELSE Searching(a) /\ s \in Active \cup warm
         /\ at = "reclaiming" => s \in Active
         /\ at = "evicting" => s \in warm
         /\ UNCHANGED <<pending, releases, barrier, active, warming, spawns, held>>
  <2>1. CASE Evict(a)
    BY <2>1 DEF Evict, SessionTypes
  <2>2. CASE Reclaim(a)
    <3>1. Active \subseteq Sessions
      BY FiniteParts
    <3> QED BY <2>2, <3>1 DEF Reclaim
  <2>3. CASE SpawnFails(a)
    BY <2>3 DEF SpawnFails, SpawnsAreNamed, Reserves
  <2> QED BY <2>1, <2>2, <2>3
<1>1. /\ pending' = pending /\ releases' = releases /\ barrier' = barrier /\ active' = active
      /\ warming' = warming /\ spawns' = spawns /\ held' = held
  BY <1>0
<1>2. caller[a].at \in {"creating", "searching", "spawning"} /\ active[caller[a].id] = None
  BY <1>0 DEF Searching, NoneFound, Looking
<1>3. /\ CallsMove /\ caller'[a].at = at /\ caller'[a].on = s /\ caller'[a].id = caller[a].id
      /\ \A c \in Callers \ {a} : caller'[c] = caller[c]
  BY <1>0, <1>2, MoveFacts DEF AcquisitionInv, Creating, Things
<1>4. AcquisitionInv'
  BY <1>1, <1>3, MovesKeep
<1>5. \A c \in Callers : Reserves(c) /\ c # a => caller[c].on # s
  <2>1. CASE at = "failing"
    <3> SUFFICES ASSUME NEW c \in Callers, Reserves(c), caller[c].on = s PROVE c = a
      OBVIOUS
    <3>1. caller[a].id = session[s].id /\ caller[c].id = session[s].id
      BY <1>0, <2>1 DEF SpawnsAreNamed, Reserves
    <3>2. pending[caller[a].id] = a /\ pending[caller[c].id] = c
      BY <1>0, <2>1 DEF AcquisitionInv, CreationsAreMapped, Creating, Reserves
    <3> QED BY <3>1, <3>2
  <2>2. CASE at # "failing"
    BY <1>0, <2>2, NotReserved
  <2> QED BY <2>1, <2>2
<1>6. s \notin DOMAIN warming /\ s \notin warm'
  <2>1. CASE at = "evicting"
    BY <1>0, <2>1 DEF WarmIsUnnamed
  <2>2. CASE at = "reclaiming"
    BY <1>0, <2>2, ActiveFacts
  <2>3. CASE at = "failing"
    BY <1>0, <2>3 DEF SpawnsAreNamed, Reserves, WarmIsUnnamed
  <2> QED BY <2>1, <2>2, <2>3
<1>7. SessionTypes'
  BY <1>0, <1>1, SetStateFacts DEF SessionTypes
<1>8. \A t \in Sessions \ {s} : session'[t] = session[t]
  BY <1>0, SetStateFacts
<1>9. WarmIsUnnamed'
  <2>1. warm' \subseteq warm /\ warm' \subseteq Sessions /\ DOMAIN warming \subseteq Sessions
    BY <1>0 DEF SessionTypes
  <2> QED BY <1>1, <1>6, <1>8, <2>1 DEF WarmIsUnnamed
<1>10. session[s].st \notin {"none", "gone"} /\ (session[s].st = "unconfirmed" => active[session[s].id] = s)
  <2>1. CASE at = "evicting"
    BY <1>0, <2>1 DEF WarmIsUnnamed
  <2>2. CASE at = "reclaiming"
    BY <1>0, <2>2, ActiveFacts
  <2>3. CASE at = "failing"
    BY <1>0, <2>3 DEF SpawnsAreNamed, Reserves
  <2> QED BY <2>1, <2>2, <2>3
<1>11. \A c \in Callers : Reserves(c) \/ Reserves(c)' =>
              /\ Reserves(c) /\ Reserves(c)'
              /\ caller'[c].on = caller[c].on /\ caller'[c].id = caller[c].id
              /\ IF caller[c].on = s THEN caller'[c].at = "failing" ELSE caller'[c].at = caller[c].at
  <2>1. Reserves(a) <=> at = "failing"
    BY <1>0, <1>2 DEF Reserves, Searching
  <2> QED BY <1>0, <1>3, <1>5, <2>1 DEF Reserves
<1>12. \A c \in Callers : caller'[c].at \in Looking => active[caller'[c].id] = None
  BY <1>2, <1>3 DEF NoneFound
<1>13. session' = SetState(s, "retiring")
  BY <1>0
<1> QED BY <1>1, <1>4, <1>7, <1>9, <1>10, <1>11, <1>12, <1>13, RetiresKeeps

\* What the pool does that disposes of a session.
LEMMA PoolRetires ==
    ASSUME SessionInv, NEW s \in Sessions, acquisitionVars' = acquisitionVars,
           active' = active, spawns' = spawns, held' = held, session' = SetState(s, "retiring"),
           \/ s \in warm /\ warm' = warm \ {s} /\ warming' = warming
           \/ /\ s \in DOMAIN warming /\ warming[s] = "spawning" /\ warm' = warm
              /\ warming' = [warming EXCEPT ![s] = "failing"]
           \/ /\ s \in DOMAIN warming /\ warming[s] = "ready" /\ warm' = warm
              /\ warming' = [warming EXCEPT ![s] = "dropped"]
    PROVE  SessionInv'
<1> USE DEF SessionInv, OwnInv
<1>1. pending' = pending /\ releases' = releases /\ caller' = caller /\ barrier' = barrier
  BY DEF acquisitionVars
<1>2. AcquisitionInv'
  <2>1. CallsMove
    BY <1>1 DEF CallsMove, AcquisitionInv, AcquisitionTypes
  <2> QED BY <1>1, <2>1, MovesKeep
<1>3. \A c \in Callers : Reserves(c) => caller[c].on # s
  BY NotReserved
<1>4. /\ DOMAIN warming' = DOMAIN warming /\ \A t \in DOMAIN warming \ {s} : warming'[t] = warming[t]
      /\ warm' \subseteq warm /\ s \notin warm'
      /\ s \in DOMAIN warming => \/ warming[s] = "spawning" /\ warming'[s] = "failing"
                                 \/ warming[s] = "ready" /\ warming'[s] = "dropped"
  BY DEF WarmIsUnnamed
<1>5. SessionTypes'
  BY <1>4, SetStateFacts DEF SessionTypes
<1>6. /\ session'[s].st = "retiring" /\ session'[s].id = session[s].id /\ session'[s].cold = session[s].cold
      /\ \A t \in Sessions \ {s} : session'[t] = session[t]
  BY SetStateFacts
<1>7. WarmIsUnnamed'
  <2>1. warm' \subseteq Sessions \ {s} /\ DOMAIN warming \subseteq Sessions
    BY <1>4 DEF SessionTypes
  <2>2. \A t \in warm' : /\ session'[t].id = None /\ ~session'[t].cold /\ session'[t].st = "idle"
                         /\ t \notin DOMAIN warming'
    BY <1>4, <1>6, <2>1 DEF WarmIsUnnamed
  <2>3. ASSUME NEW t \in DOMAIN warming
        PROVE  /\ session'[t].id = None /\ ~session'[t].cold
               /\ warming'[t] = "spawning" => session'[t].st = "spawning"
               /\ warming'[t] = "ready" => session'[t].st = "idle"
               /\ warming'[t] \in {"failing", "dropped"} => session'[t].st = "retiring"
    <3>1. CASE t = s
      BY <1>4, <1>6, <3>1 DEF WarmIsUnnamed
    <3>2. CASE t # s
      BY <1>4, <1>6, <2>1, <3>2 DEF WarmIsUnnamed
    <3> QED BY <3>1, <3>2
  <2> QED BY <1>4, <2>2, <2>3 DEF WarmIsUnnamed
<1>8. session[s].st \in {"idle", "spawning"}
  BY DEF WarmIsUnnamed
<1>9. \A t \in Sessions : (t \in DOMAIN warming' /\ warming'[t] \in {"spawning", "failing"})
                             <=> (t \in DOMAIN warming /\ warming[t] \in {"spawning", "failing"})
  BY <1>4
<1>10. \A c \in Callers : Reserves(c)' <=> Reserves(c)
  BY <1>1 DEF Reserves
<1>11. \A c \in Callers : caller'[c].at \in Looking => active[caller'[c].id] = None
  BY <1>1 DEF NoneFound
<1> QED BY <1>1, <1>2, <1>3, <1>5, <1>7, <1>8, <1>9, <1>10, <1>11, RetiresKeeps

LEMMA SettledFacts ==
    ASSUME NEW b \in Barriers, NEW failed \in BOOLEAN, NEW outcome \in Settled
    PROVE  /\ SettledBarrier(b, failed, outcome) \in Barriers
           /\ SettledBarrier(b, failed, outcome).at = outcome
           /\ SettledBarrier(b, failed, outcome).id = b.id
           /\ SettledBarrier(b, failed, outcome).failedCleanup
                 <=> (outcome = "failed" \/ (outcome = "refused" /\ failed))
<1> DEFINE f == (outcome = "failed" \/ (outcome = "refused" /\ failed))
<1>1. f \in BOOLEAN
  OBVIOUS
<1>2. SettledBarrier(b, failed, outcome) =
         [b EXCEPT !.at = outcome, !.owner = None, !.prev = None, !.on = None, !.failedCleanup = f]
  BY DEF SettledBarrier
<1> HIDE DEF f
<1>3. /\ SettledBarrier(b, failed, outcome) \in Barriers
      /\ SettledBarrier(b, failed, outcome).at = outcome
      /\ SettledBarrier(b, failed, outcome).id = b.id
      /\ SettledBarrier(b, failed, outcome).failedCleanup = f
  BY <1>1, <1>2 DEF Barriers, Things
<1> QED BY <1>3 DEF f

LEMMA CleanupKeeps ==
    ASSUME SessionInv, NEW r \in Releases, Cleanup(r)
    PROVE  SessionInv'
<1> USE DEF SessionInv, OwnInv
<1> DEFINE s == active[barrier[r].id]
<1>1. /\ CleanupDue(r) /\ pending' = pending /\ caller' = caller /\ active' = active /\ warm' = warm
      /\ warming' = warming /\ spawns' = spawns /\ held' = held
  BY DEF Cleanup
<1>2. barrier[r].id \in Ids /\ barrier[r] \in Barriers /\ s \in Sessions \cup {None}
  BY <1>1, DueIsFirst DEF AcquisitionInv, AcquisitionTypes, SessionTypes
<1>3. Inherits(r) \in BOOLEAN
  BY DEF Inherits, AcquisitionInv, AcquisitionTypes, Barriers
<1>4. CASE s # None /\ barrier[r].owner = session[s].owner
  <2> DEFINE e == [barrier[r] EXCEPT !.at = "cleaning", !.on = s, !.prev = None, !.failedCleanup = Inherits(r)]
  <2>1. /\ barrier' = [barrier EXCEPT ![r] = e] /\ session' = SetState(s, "retiring") /\ releases' = releases
    BY <1>4 DEF Cleanup
  <2>2. /\ e \in Barriers /\ e.at = "cleaning" /\ e.id = barrier[r].id /\ e.failedCleanup = Inherits(r)
        /\ e.on = s
    BY <1>2, <1>3, <1>4 DEF Barriers, Things
  <2> HIDE DEF e
  <2>3. /\ barrier' \in [Releases -> Barriers] /\ barrier'[r] = e
        /\ \A q \in Releases \ {r} : barrier'[q] = barrier[q]
    BY <2>1, <2>2 DEF AcquisitionInv, AcquisitionTypes
  <2>4. AcquisitionInv'
    BY <1>1, <2>1, <2>2, <2>3, CleaningKeeps
  <2>5. s \in Active /\ s \in Sessions
    BY <1>2, <1>4 DEF Active
  <2> HIDE DEF s
  <2>6. /\ session[s].id = barrier[r].id /\ active[barrier[r].id] = s
        /\ session[s].st \in {"idle", "retiring", "unconfirmed"}
        /\ s \notin warm \cup DOMAIN warming
    BY <1>2, <1>4, <2>5, ActiveFacts DEF s, ActiveIsNamed
  <2>7. SessionTypes'
    BY <1>1, <2>1, <2>5, SetStateFacts DEF SessionTypes
  <2>8. WarmIsUnnamed'
    <3>1. \A t \in Sessions \ {s} : session'[t] = session[t]
      BY <2>1, <2>5, SetStateFacts
    <3> QED BY <1>1, <2>6, <3>1 DEF WarmIsUnnamed, SessionTypes
  <2>9. \A c \in Callers : Reserves(c) => caller[c].on # s
    BY <2>5, NotReserved
  <2>10. \A c \in Callers : Reserves(c)' <=> Reserves(c)
    BY <1>1 DEF Reserves
  <2>11. \A c \in Callers : caller'[c].at \in Looking => active[caller'[c].id] = None
    BY <1>1 DEF NoneFound
  <2>12. \A q \in Releases : barrier'[q].at = "cleaning" =>
              \/ barrier'[q] = barrier[q]
              \/ barrier'[q].on = s /\ barrier'[q].id = session[s].id /\ active[barrier'[q].id] = s
    BY <2>2, <2>3, <2>6
  <2>13. session[s].st \notin {"none", "gone"} /\ active[session[s].id] = s
    BY <2>6
  <2> QED BY <1>1, <2>1, <2>4, <2>5, <2>7, <2>8, <2>9, <2>10, <2>11, <2>12, <2>13, RetiresKeeps
<1>5. CASE ~(s # None /\ barrier[r].owner = session[s].owner)
  <2> DEFINE outcome == IF s = None THEN "done" ELSE "refused"
             e == SettledBarrier(barrier[r], Inherits(r), outcome)
  <2>1. /\ barrier' = [barrier EXCEPT ![r] = e] /\ session' = session
        /\ releases' = ReleasesAfter({r}, barrier')
    BY <1>5 DEF Cleanup
  <2>2. outcome \in Settled
    BY DEF Settled
  <2> HIDE DEF outcome
  <2>3. /\ e \in Barriers /\ e.at = outcome /\ e.id = barrier[r].id
        /\ e.failedCleanup <=> (outcome = "failed" \/ (outcome = "refused" /\ Inherits(r)))
    BY <1>2, <1>3, <2>2, SettledFacts
  <2> HIDE DEF e
  <2>4. /\ barrier' \in [Releases -> Barriers] /\ barrier'[r] = e
        /\ \A q \in Releases \ {r} : barrier'[q] = barrier[q]
    BY <2>1, <2>3 DEF AcquisitionInv, AcquisitionTypes
  <2>5. /\ releases' \in [Ids -> Releases \cup {None}]
        /\ \A i \in Ids : releases'[i] = IF releases[i] = r /\ Reusable(barrier'[r]) THEN None ELSE releases[i]
    BY <2>1 DEF ReleasesAfter, AcquisitionInv, AcquisitionTypes
  <2>6. CallsMove
    BY <1>1 DEF CallsMove, AcquisitionInv, AcquisitionTypes
  <2>7. Failed(r) = Inherits(r)
    BY <1>1 DEF CleanupDue, Failed
  <2>8. AcquisitionInv'
    BY <1>1, <2>2, <2>3, <2>4, <2>5, <2>6, <2>7, SettlingKeeps
  <2>9. \A q \in Releases : barrier'[q].at = "cleaning" => barrier'[q] = barrier[q]
    BY <2>2, <2>3, <2>4 DEF Settled
  <2> QED BY <1>1, <2>1, <2>8, <2>9, QuietKeeps DEF SessionTypes, NoneFound
<1> QED BY <1>4, <1>5

-----------------------------------------------------------------------------
(***************************************************************************)
(* A session gets its id, or is counted for itself.                        *)
(***************************************************************************)

\* Nobody else is at work on the id of a creation.
LEMMA OneCreation ==
    ASSUME AcquisitionInv, NEW a \in Callers, caller[a].at \in Creating
    PROVE  /\ caller[a].id \in Ids
           /\ \A c \in Callers : caller[c].at \in Creating /\ caller[c].id = caller[a].id => c = a
           /\ \A r \in Releases : barrier[r].at = "cleaning" => barrier[r].id # caller[a].id
<1>1. caller[a].id \in Ids /\ pending[caller[a].id] = a /\ a # None
  BY AcquisitionConstants DEF AcquisitionInv, CreationsAreMapped
<1>2. \A c \in Callers : caller[c].at \in Creating => pending[caller[c].id] = c
  BY DEF AcquisitionInv, CreationsAreMapped
<1>3. \A r \in Releases : barrier[r].at = "cleaning" => pending[barrier[r].id] = None
  BY DEF AcquisitionInv, WaitsForCreation
<1> QED BY <1>1, <1>2, <1>3

LEMMA TakeWarmKeeps ==
    ASSUME SessionInv, NEW a \in Callers, TakeWarm(a)
    PROVE  SessionInv'
<1> USE DEF SessionInv, OwnInv
<1> DEFINE id == caller[a].id
<1>1. PICK s \in warm :
         /\ session' = [session EXCEPT ![s].id = id, ![s].owner = caller[a].owner]
         /\ active' = [active EXCEPT ![id] = s] /\ warm' = warm \ {s}
         /\ Deliver(a, s, session')
  BY DEF TakeWarm
<1>2. caller[a].at = "creating" /\ active[id] = None /\ warming' = warming /\ spawns' = spawns
  BY DEF TakeWarm
<1>3. /\ s \in Sessions /\ session[s].id = None /\ ~session[s].cold /\ session[s].st = "idle"
      /\ s \notin DOMAIN warming
  BY DEF SessionTypes, WarmIsUnnamed
<1>4. /\ id \in Ids
      /\ \A c \in Callers : caller[c].at \in Creating /\ caller[c].id = id => c = a
      /\ \A r \in Releases : barrier[r].at = "cleaning" => barrier[r].id # id
  BY <1>2, OneCreation DEF Creating
<1>5. caller[a].owner \in Owners \cup {None}
  BY DEF AcquisitionInv, AcquisitionTypes, Calls
<1>6. WorkSettles(a, s # None) /\ held' \in [Callers -> Sessions \cup {None}]
  BY <1>1, <1>3 DEF Deliver, SessionTypes
<1>7. /\ AcquisitionInv'
      /\ \A c \in Callers : \/ caller'[c] = caller[c] /\ c # a
                            \/ caller'[c].at = "idle" /\ caller[c].at = "joined" /\ c # a
                            \/ caller'[c].at = "idle" /\ c = a
      /\ \A r \in Releases : barrier[r].at = "cleaning" \/ barrier'[r].at = "cleaning" => barrier'[r] = barrier[r]
  BY <1>2, <1>6, SettlesFacts DEF Creating
<1> HIDE DEF id
<1> DEFINE e == [session[s] EXCEPT !.id = id, !.owner = caller[a].owner]
<1>8. e \in SessionRows /\ e.id = id /\ ~e.cold /\ e.st = "idle"
  BY ZenonT(40), <1>3, <1>4, <1>5 DEF SessionTypes, SessionRows
<1>9. session' = [session EXCEPT ![s] = e]
  BY <1>1
<1> HIDE DEF e
<1>10. session'[s] = e /\ \A t \in Sessions \ {s} : session'[t] = session[t]
  BY <1>3, <1>9 DEF SessionTypes
<1>11. active'[id] = s /\ \A i \in Ids \ {id} : active'[i] = active[i]
  BY <1>1, <1>4 DEF SessionTypes
<1>12. SessionTypes'
  BY ZenonT(40), <1>1, <1>2, <1>3, <1>6, <1>8, <1>9 DEF SessionTypes
<1>13. \A i \in Ids : active[i] # s
  <2>1. s # None
    BY <1>3 DEF Sessions, None
  <2> QED BY <1>3, <2>1, AcquisitionConstants DEF ActiveIsNamed
<1>14. UnnamedIsNobodys'
  BY <1>8, <1>10 DEF UnnamedIsNobodys
<1>15. ActiveIsNamed'
  BY <1>8, <1>10, <1>11, <1>13 DEF ActiveIsNamed, SessionTypes
<1>16. WarmIsUnnamed'
  BY <1>1, <1>2, <1>3, <1>10 DEF WarmIsUnnamed, SessionTypes
<1>17. \A c \in Callers : Reserves(c) => caller[c].on # s
  BY NotReserved
<1>18. \A c \in Callers : /\ Reserves(c)' <=> Reserves(c)
                          /\ Reserves(c) => caller'[c] = caller[c]
                          /\ caller'[c].at \in Creating => caller'[c] = caller[c] /\ c # a
  BY <1>2, <1>7 DEF Reserves, Creating
<1>19. SpawnsAreNamed'
  BY <1>10, <1>17, <1>18 DEF SpawnsAreNamed, Reserves
<1>20. NoneFound'
  <2> SUFFICES ASSUME NEW c \in Callers, caller'[c].at \in Looking PROVE active'[caller'[c].id] = None
    BY DEF NoneFound
  <2>1. caller'[c] = caller[c] /\ c # a /\ caller[c].at \in Creating
    BY <1>18 DEF Looking, Creating
  <2>2. caller[c].id \in Ids /\ caller[c].id # id /\ active[caller[c].id] = None
    BY <1>4, <2>1, OneCreation DEF NoneFound
  <2> QED BY <1>11, <2>1, <2>2
<1>21. NamedIsKnown'
  <2> SUFFICES ASSUME NEW t \in Sessions, session'[t].id # None
               PROVE  \/ active'[session'[t].id] = t
                      \/ \E c \in Callers : Reserves(c)' /\ caller'[c].on = t
                      \/ session'[t].st = "unconfirmed"
    BY DEF NamedIsKnown
  <2>1. CASE t = s
    BY <1>8, <1>10, <1>11, <2>1
  <2>2. CASE t # s
    <3>1. session'[t] = session[t] /\ session[t].id \in Ids
      BY <1>10, <2>2 DEF SessionTypes, SessionRows
    <3>2. active[session[t].id] = t => active'[session[t].id] = t
      BY <1>2, <1>11, <3>1, AcquisitionConstants DEF Sessions, None, id
    <3> QED BY <1>18, <3>1, <3>2 DEF NamedIsKnown
  <2> QED BY <2>1, <2>2
<1>22. CleaningSessions'
  <2> SUFFICES ASSUME NEW r \in Releases, barrier'[r].at = "cleaning"
               PROVE  /\ barrier'[r].on \in Sessions /\ session'[barrier'[r].on].st = "retiring"
                      /\ session'[barrier'[r].on].id = barrier'[r].id
                      /\ active'[barrier'[r].id] \in {barrier'[r].on, None}
    BY DEF CleaningSessions
  <2>1. barrier'[r] = barrier[r] /\ barrier[r].id # id /\ barrier[r].id \in Ids
    BY <1>4, <1>7 DEF AcquisitionInv, ReleaseInv, NumberedInOrder, Used
  <2>2. /\ barrier[r].on \in Sessions /\ session[barrier[r].on].st = "retiring"
        /\ session[barrier[r].on].id = barrier[r].id /\ active[barrier[r].id] \in {barrier[r].on, None}
    BY <2>1 DEF CleaningSessions
  <2> QED BY <1>3, <1>10, <1>11, <2>1, <2>2
<1>23. Reserved' = Reserved
  BY <1>2, <1>18 DEF Reserved
<1>24. ColdActive' \subseteq ColdActive
  <2> SUFFICES ASSUME NEW t \in ColdActive' PROVE t \in ColdActive
    OBVIOUS
  <2>1. PICK i \in Ids : t = active'[i] /\ t # None /\ session'[t].cold
    BY DEF ColdActive, Active
  <2>2. t # s
    BY <1>8, <1>10, <2>1
  <2>3. t = active[i] /\ t \in Sessions
    BY <1>11, <2>1, <2>2 DEF SessionTypes
  <2> QED BY <1>10, <2>1, <2>2, <2>3 DEF ColdActive, Active
<1>25. Counted'
  BY <1>2, <1>12, <1>23, <1>24, CountSame DEF Counted
<1> QED BY <1>7, <1>12, <1>14, <1>15, <1>16, <1>19, <1>20, <1>21, <1>22, <1>25 DEF Counted

\* A session that has not been used yet.
LEMMA FreshFacts ==
    ASSUME SessionInv, NEW s \in Fresh
    PROVE  /\ s \in Sessions /\ s # None /\ session[s].st = "none" /\ session[s].id = None
           /\ s \notin Reserved /\ s \notin warm /\ s \notin DOMAIN warming
           /\ \A id \in Ids : active[id] # s
           /\ \A c \in Callers : Reserves(c) => caller[c].on # s
           /\ \A r \in Releases : barrier[r].at = "cleaning" => barrier[r].on # s
<1> USE DEF SessionInv, OwnInv
<1>1. s \in Sessions /\ s # None /\ session[s].st = "none"
  BY DEF Fresh, Sessions, None
<1>2. session[s].id = None
  BY <1>1 DEF UnnamedIsNobodys
<1>3. s \notin warm /\ s \notin DOMAIN warming
  BY <1>1 DEF WarmIsUnnamed, SessionTypes
<1>4. \A c \in Callers : Reserves(c) => caller[c].on # s
  BY <1>1 DEF SpawnsAreNamed, Reserves
<1>5. \A id \in Ids : active[id] # s
  BY <1>1 DEF ActiveIsNamed
<1>6. \A r \in Releases : barrier[r].at = "cleaning" => barrier[r].on # s
  BY <1>1 DEF CleaningSessions
<1>7. s \notin Reserved
  BY <1>3, <1>4 DEF Reserved
<1> QED BY <1>1, <1>2, <1>3, <1>4, <1>5, <1>6, <1>7

LEMMA SpawnKeeps ==
    ASSUME SessionInv, NEW a \in Callers, Spawn(a)
    PROVE  SessionInv'
<1> USE DEF SessionInv, OwnInv
<1> DEFINE e == [id |-> caller[a].id, owner |-> caller[a].owner, cold |-> TRUE, st |-> "spawning"]
<1>1. PICK s \in Fresh : session' = [session EXCEPT ![s] = e] /\ caller' = Move(a, "spawning", s)
  BY DEF Spawn
<1>2. /\ caller[a].at = "reserving" /\ Total < Cap /\ spawns' = spawns + 1
      /\ pending' = pending /\ releases' = releases /\ barrier' = barrier /\ active' = active
      /\ warm' = warm /\ warming' = warming /\ held' = held
  BY DEF Spawn, Reserve
<1>3. /\ s \in Sessions /\ s # None /\ session[s].st = "none" /\ session[s].id = None
      /\ s \notin Reserved /\ s \notin warm /\ s \notin DOMAIN warming
      /\ \A id \in Ids : active[id] # s
      /\ \A c \in Callers : Reserves(c) => caller[c].on # s
      /\ \A r \in Releases : barrier[r].at = "cleaning" => barrier[r].on # s
  BY FreshFacts
<1>4. e \in SessionRows /\ e.id = caller[a].id /\ e.cold /\ e.st = "spawning"
  BY DEF SessionRows, AcquisitionInv, AcquisitionTypes, Calls
<1> HIDE DEF e
<1>5. session'[s] = e /\ \A t \in Sessions \ {s} : session'[t] = session[t]
  BY <1>1, <1>3 DEF SessionTypes
<1>6. /\ CallsMove /\ caller'[a].at = "spawning" /\ caller'[a].on = s /\ caller'[a].id = caller[a].id
      /\ \A c \in Callers \ {a} : caller'[c] = caller[c]
  BY <1>1, <1>2, <1>3, MoveFacts DEF AcquisitionInv, Creating, Things
<1>7. AcquisitionInv'
  BY <1>2, <1>6, MovesKeep
<1>8. SessionTypes'
  BY <1>1, <1>2, <1>4 DEF SessionTypes
<1>9. UnnamedIsNobodys'
  BY <1>4, <1>5 DEF UnnamedIsNobodys
<1>10. ActiveIsNamed'
  BY <1>2, <1>3, <1>5 DEF ActiveIsNamed, SessionTypes
<1>11. WarmIsUnnamed'
  BY <1>2, <1>3, <1>5 DEF WarmIsUnnamed, SessionTypes
<1>12. ~Reserves(a) /\ Reserves(a)' /\ \A c \in Callers \ {a} : Reserves(c)' <=> Reserves(c)
  BY <1>2, <1>6 DEF Reserves
<1>13. SpawnsAreNamed'
  <2> SUFFICES ASSUME NEW c \in Callers, Reserves(c)'
               PROVE  /\ caller'[c].on \in Sessions
                      /\ session'[caller'[c].on].id = caller'[c].id /\ session'[caller'[c].on].cold
                      /\ caller'[c].at = "spawning" => session'[caller'[c].on].st = "spawning"
                      /\ caller'[c].at = "failing" => session'[caller'[c].on].st = "retiring"
    BY DEF SpawnsAreNamed
  <2>1. CASE c = a
    BY <1>3, <1>4, <1>5, <1>6, <2>1
  <2>2. CASE c # a
    BY <1>3, <1>5, <1>6, <1>12, <2>2 DEF SpawnsAreNamed
  <2> QED BY <2>1, <2>2
<1>14. NoneFound'
  BY <1>2, <1>6 DEF NoneFound, Looking
<1>15. NamedIsKnown'
  <2> SUFFICES ASSUME NEW t \in Sessions, session'[t].id # None
               PROVE  \/ active[session'[t].id] = t
                      \/ \E c \in Callers : Reserves(c)' /\ caller'[c].on = t
                      \/ session'[t].st = "unconfirmed"
    BY <1>2 DEF NamedIsKnown
  <2>1. CASE t = s
    BY <1>6, <1>12, <2>1
  <2>2. CASE t # s
    <3>1. session'[t] = session[t]
      BY <1>5, <2>2
    <3> QED BY <1>6, <1>12, <3>1 DEF NamedIsKnown
  <2> QED BY <2>1, <2>2
<1>16. CleaningSessions'
  BY <1>2, <1>3, <1>5 DEF CleaningSessions
<1>17. Reserved' = Reserved \cup {s}
  <2>1. ASSUME NEW t \in Sessions
        PROVE  (\E c \in Callers : Reserves(c)' /\ caller'[c].on = t)
                  <=> t = s \/ \E c \in Callers : Reserves(c) /\ caller[c].on = t
    BY <1>6, <1>12
  <2> QED BY <1>2, <1>3, <2>1 DEF Reserved
<1>18. ColdActive' = ColdActive
  BY <1>2, <1>3, <1>5 DEF ColdActive, Active, SessionTypes
<1>19. Counted'
  BY <1>2, <1>3, <1>17, <1>18, CountTaken DEF Counted
<1> QED BY <1>7, <1>8, <1>9, <1>10, <1>11, <1>13, <1>14, <1>15, <1>16, <1>19 DEF Counted

LEMMA SpawnedKeeps ==
    ASSUME SessionInv, NEW a \in Callers, Spawned(a)
    PROVE  SessionInv'
<1> USE DEF SessionInv, OwnInv
<1> DEFINE id == caller[a].id
           s == caller[a].on
<1>1. /\ caller[a].at = "spawning" /\ session' = SetState(s, "idle") /\ active' = [active EXCEPT ![id] = s]
      /\ spawns' = (IF spawns > 0 THEN spawns - 1 ELSE 0) /\ Deliver(a, s, session')
      /\ warm' = warm /\ warming' = warming
  BY DEF Spawned
<1>2. Reserves(a) /\ s \in Sessions /\ session[s].id = id /\ session[s].cold /\ session[s].st = "spawning"
  BY <1>1 DEF SpawnsAreNamed, Reserves
<1>3. /\ id \in Ids
      /\ \A c \in Callers : caller[c].at \in Creating /\ caller[c].id = id => c = a
      /\ \A r \in Releases : barrier[r].at = "cleaning" => barrier[r].id # id
  BY <1>1, OneCreation DEF Creating
<1>4. active[id] = None
  BY <1>1 DEF NoneFound, Looking
<1>5. \A c \in Callers : Reserves(c) /\ caller[c].on = s => c = a
  BY <1>2, <1>3 DEF SpawnsAreNamed, Reserves, Creating
<1>6. s # None /\ s \notin DOMAIN warming /\ s \notin warm
  BY <1>2, <1>3, AcquisitionConstants DEF WarmIsUnnamed, Sessions, None
<1>7. WorkSettles(a, s # None) /\ held' \in [Callers -> Sessions \cup {None}]
  BY <1>1, <1>2 DEF Deliver, SessionTypes
<1>8. /\ AcquisitionInv'
      /\ \A c \in Callers : \/ caller'[c] = caller[c] /\ c # a
                            \/ caller'[c].at = "idle" /\ caller[c].at = "joined" /\ c # a
                            \/ caller'[c].at = "idle" /\ c = a
      /\ \A r \in Releases : barrier[r].at = "cleaning" \/ barrier'[r].at = "cleaning" => barrier'[r] = barrier[r]
  BY <1>1, <1>7, SettlesFacts DEF Creating
<1> HIDE DEF id, s
<1>9. /\ session' \in [Sessions -> SessionRows]
      /\ session'[s].st = "idle" /\ session'[s].id = id /\ session'[s].cold
      /\ \A t \in Sessions \ {s} : session'[t] = session[t]
  BY <1>1, <1>2, SetStateFacts
<1>10. active'[id] = s /\ \A i \in Ids \ {id} : active'[i] = active[i]
  BY <1>1, <1>3 DEF SessionTypes
<1>11. SessionTypes'
  BY <1>1, <1>2, <1>7, <1>9 DEF SessionTypes
<1>12. UnnamedIsNobodys'
  BY <1>9 DEF UnnamedIsNobodys
<1>13. ActiveIsNamed'
  <2>1. \A i \in Ids \ {id} : active[i] # s
    BY <1>2, <1>6 DEF ActiveIsNamed
  <2> QED BY <1>9, <1>10, <2>1 DEF ActiveIsNamed, SessionTypes
<1>14. WarmIsUnnamed'
  BY <1>1, <1>6, <1>9 DEF WarmIsUnnamed, SessionTypes
<1>15. \A c \in Callers : /\ Reserves(c)' <=> Reserves(c) /\ c # a
                          /\ caller'[c].at \in Creating => caller'[c] = caller[c] /\ c # a
                          /\ Reserves(c)' => caller'[c] = caller[c]
  BY <1>8 DEF Reserves, Creating
<1>16. SpawnsAreNamed'
  <2> SUFFICES ASSUME NEW c \in Callers, Reserves(c)'
               PROVE  /\ caller'[c].on \in Sessions
                      /\ session'[caller'[c].on].id = caller'[c].id /\ session'[caller'[c].on].cold
                      /\ caller'[c].at = "spawning" => session'[caller'[c].on].st = "spawning"
                      /\ caller'[c].at = "failing" => session'[caller'[c].on].st = "retiring"
    BY DEF SpawnsAreNamed
  <2>1. Reserves(c) /\ caller'[c] = caller[c] /\ caller[c].on # s
    BY <1>5, <1>15
  <2> QED BY <1>9, <2>1 DEF SpawnsAreNamed
<1>17. NoneFound'
  <2> SUFFICES ASSUME NEW c \in Callers, caller'[c].at \in Looking PROVE active'[caller'[c].id] = None
    BY DEF NoneFound
  <2>1. caller'[c] = caller[c] /\ c # a /\ caller[c].at \in Creating
    BY <1>15 DEF Looking, Creating
  <2>2. caller[c].id \in Ids /\ caller[c].id # id /\ active[caller[c].id] = None
    BY <1>3, <2>1, OneCreation DEF NoneFound
  <2> QED BY <1>10, <2>1, <2>2
<1>18. NamedIsKnown'
  <2> SUFFICES ASSUME NEW t \in Sessions, session'[t].id # None
               PROVE  \/ active'[session'[t].id] = t
                      \/ \E c \in Callers : Reserves(c)' /\ caller'[c].on = t
                      \/ session'[t].st = "unconfirmed"
    BY DEF NamedIsKnown
  <2>1. CASE t = s
    BY <1>9, <1>10, <2>1
  <2>2. CASE t # s
    <3>1. session'[t] = session[t] /\ session[t].id \in Ids
      BY <1>9, <2>2 DEF SessionTypes, SessionRows
    <3>2. t # None
      BY DEF Sessions, None
    <3>3. active[session[t].id] = t => active'[session[t].id] = t
      BY <1>4, <1>10, <3>1, <3>2
    <3>4. \A c \in Callers : Reserves(c) /\ caller[c].on = t => Reserves(c)' /\ caller'[c].on = t
      BY <1>15, <2>2 DEF s
    <3> QED BY <3>1, <3>3, <3>4 DEF NamedIsKnown
  <2> QED BY <2>1, <2>2
<1>19. CleaningSessions'
  <2> SUFFICES ASSUME NEW r \in Releases, barrier'[r].at = "cleaning"
               PROVE  /\ barrier'[r].on \in Sessions /\ session'[barrier'[r].on].st = "retiring"
                      /\ session'[barrier'[r].on].id = barrier'[r].id
                      /\ active'[barrier'[r].id] \in {barrier'[r].on, None}
    BY DEF CleaningSessions
  <2>1. barrier'[r] = barrier[r] /\ barrier[r].id # id /\ barrier[r].id \in Ids
    BY <1>3, <1>8 DEF AcquisitionInv, ReleaseInv, NumberedInOrder, Used
  <2>2. /\ barrier[r].on \in Sessions /\ session[barrier[r].on].st = "retiring"
        /\ session[barrier[r].on].id = barrier[r].id /\ active[barrier[r].id] \in {barrier[r].on, None}
    BY <2>1 DEF CleaningSessions
  <2> QED BY <1>2, <1>9, <1>10, <2>1, <2>2
<1>20. s \in Reserved /\ Reserved' = Reserved \ {s}
  <2>1. s \in Reserved
    BY <1>2 DEF Reserved, s
  <2>2. ASSUME NEW t \in Sessions
        PROVE  (\E c \in Callers : Reserves(c)' /\ caller'[c].on = t)
                  <=> t # s /\ \E c \in Callers : Reserves(c) /\ caller[c].on = t
    BY <1>5, <1>15 DEF s
  <2> QED BY <1>1, <1>6, <2>1, <2>2 DEF Reserved
<1>21. spawns' = spawns - 1
  <2>1. IsFiniteSet(Reserved) /\ Cardinality(Reserved) \in Nat /\ spawns = Cardinality(Reserved)
    BY FiniteParts DEF ReservationsCounted
  <2>2. Cardinality(Reserved) # 0
    BY <1>20, <2>1, FS_EmptySet
  <2> QED BY <1>1, <2>1, <2>2
<1>22. ColdActive' \subseteq ColdActive \cup {s}
  BY <1>9, <1>10 DEF ColdActive, Active, SessionTypes
<1>23. Counted'
  BY <1>11, <1>20, <1>21, <1>22, CountFreed DEF Counted
<1> QED BY <1>8, <1>11, <1>12, <1>13, <1>14, <1>16, <1>17, <1>18, <1>19, <1>23 DEF Counted

-----------------------------------------------------------------------------
(***************************************************************************)
(* The pool fills.                                                         *)
(***************************************************************************)
\* A step of the pool on one session without an id leaves the rest alone.
LEMMA PoolKeeps ==
    ASSUME SessionInv, SessionTypes', WarmIsUnnamed', Counted', acquisitionVars' = acquisitionVars,
           active' = active, NEW s \in Sessions, session[s].id = None, session'[s].id = None,
           session[s].st # "retiring", session'[s].st \notin {"none", "gone"},
           \A t \in Sessions \ {s} : session'[t] = session[t]
    PROVE  SessionInv'
<1> USE DEF SessionInv, OwnInv
<1>1. pending' = pending /\ releases' = releases /\ caller' = caller /\ barrier' = barrier
  BY DEF acquisitionVars
<1>2. AcquisitionInv'
  <2>1. CallsMove
    BY <1>1 DEF CallsMove, AcquisitionInv, AcquisitionTypes
  <2> QED BY <1>1, <2>1, MovesKeep
<1>3. \A i \in Ids : active[i] # s
  <2>1. s # None
    BY DEF Sessions, None
  <2> QED BY <2>1, AcquisitionConstants DEF ActiveIsNamed
<1>4. \A c \in Callers : Reserves(c) => caller[c].on # s
  BY AcquisitionConstants DEF SpawnsAreNamed, Reserves, AcquisitionInv, CreationsAreMapped, Creating
<1>5. UnnamedIsNobodys' /\ ActiveIsNamed'
  BY <1>3 DEF UnnamedIsNobodys, ActiveIsNamed, SessionTypes
<1>6. SpawnsAreNamed' /\ NoneFound'
  BY <1>1, <1>4 DEF SpawnsAreNamed, NoneFound, Reserves
<1>7. NamedIsKnown'
  BY <1>1 DEF NamedIsKnown, Reserves
<1>8. CleaningSessions'
  BY <1>1 DEF CleaningSessions
<1> QED BY <1>2, <1>5, <1>6, <1>7, <1>8 DEF Counted

LEMMA WarmStartKeeps ==
    ASSUME SessionInv, WarmStart
    PROVE  SessionInv'
<1> USE DEF SessionInv, OwnInv
<1>1. PICK s \in Fresh :
         /\ session' = SetState(s, "spawning")
         /\ warming' = [t \in DOMAIN warming \cup {s} |-> IF t = s THEN "spawning" ELSE warming[t]]
  BY DEF WarmStart
<1>2. /\ Total < Cap /\ spawns' = spawns + 1 /\ acquisitionVars' = acquisitionVars
      /\ active' = active /\ warm' = warm /\ held' = held
  BY DEF WarmStart
<1>3. /\ s \in Sessions /\ session[s].st = "none" /\ session[s].id = None
      /\ s \notin Reserved /\ s \notin warm /\ s \notin DOMAIN warming
      /\ \A id \in Ids : active[id] # s
  BY FreshFacts
<1>4. /\ session' \in [Sessions -> SessionRows]
      /\ session'[s].st = "spawning" /\ session'[s].id = session[s].id /\ session'[s].cold = session[s].cold
      /\ \A t \in Sessions \ {s} : session'[t] = session[t]
  BY <1>1, <1>3, SetStateFacts
<1>5. ~session[s].cold
  BY <1>3 DEF UnnamedIsNobodys
<1>6. /\ DOMAIN warming' = DOMAIN warming \cup {s} /\ warming'[s] = "spawning"
      /\ \A t \in DOMAIN warming : warming'[t] = warming[t]
  BY <1>1, <1>3
<1>7. SessionTypes'
  BY <1>2, <1>3, <1>4, <1>6 DEF SessionTypes
<1>8. WarmIsUnnamed'
  BY <1>2, <1>3, <1>4, <1>5, <1>6 DEF WarmIsUnnamed, SessionTypes
<1>9. Reserved' = Reserved \cup {s}
  <2>1. caller' = caller
    BY <1>2 DEF acquisitionVars
  <2> QED BY <1>3, <1>6, <2>1 DEF Reserved, Reserves
<1>10. ColdActive' = ColdActive
  BY <1>2, <1>3, <1>4 DEF ColdActive, Active, SessionTypes
<1>11. Counted'
  BY <1>2, <1>3, <1>9, <1>10, CountTaken DEF Counted
<1> QED BY <1>2, <1>3, <1>4, <1>7, <1>8, <1>11, PoolKeeps

LEMMA WarmReadyKeeps ==
    ASSUME SessionInv, NEW s \in Sessions, WarmReady(s)
    PROVE  SessionInv'
<1> USE DEF SessionInv, OwnInv
<1>1. /\ s \in DOMAIN warming /\ warming[s] = "spawning" /\ spawns' = spawns - 1
      /\ session' = SetState(s, "idle") /\ warming' = [warming EXCEPT ![s] = "ready"]
      /\ acquisitionVars' = acquisitionVars /\ active' = active /\ warm' = warm /\ held' = held
  BY DEF WarmReady
<1>2. session[s].id = None /\ ~session[s].cold /\ session[s].st = "spawning" /\ s \notin warm
  BY <1>1 DEF WarmIsUnnamed
<1>3. /\ session' \in [Sessions -> SessionRows]
      /\ session'[s].st = "idle" /\ session'[s].id = session[s].id /\ session'[s].cold = session[s].cold
      /\ \A t \in Sessions \ {s} : session'[t] = session[t]
  BY <1>1, SetStateFacts
<1>4. /\ DOMAIN warming' = DOMAIN warming /\ warming'[s] = "ready"
      /\ \A t \in DOMAIN warming \ {s} : warming'[t] = warming[t]
  BY <1>1
<1>5. SessionTypes'
  BY <1>1, <1>3, <1>4 DEF SessionTypes
<1>6. WarmIsUnnamed'
  BY <1>1, <1>2, <1>3, <1>4 DEF WarmIsUnnamed, SessionTypes
<1>7. s \in Reserved /\ Reserved' = Reserved \ {s}
  <2>1. caller' = caller /\ \A c \in Callers : Reserves(c) => caller[c].on # s
    BY <1>1, NotReserved DEF acquisitionVars
  <2>2. Reserved' \subseteq Reserved /\ s \notin Reserved' /\ Reserved \ {s} \subseteq Reserved'
    BY <1>1, <1>4, <2>1 DEF Reserved, Reserves
  <2> QED BY <1>1, <2>2 DEF Reserved
<1>8. ColdActive' \subseteq ColdActive \cup {s}
  BY <1>1, <1>3 DEF ColdActive, Active, SessionTypes
<1>9. Counted'
  BY <1>1, <1>5, <1>7, <1>8, CountFreed DEF Counted
<1> QED BY <1>1, <1>2, <1>3, <1>5, <1>6, <1>9, PoolKeeps

LEMMA WarmLandsKeeps ==
    ASSUME SessionInv, NEW s \in Sessions, WarmLands(s)
    PROVE  SessionInv'
<1> USE DEF SessionInv, OwnInv
<1>1. /\ s \in DOMAIN warming /\ warming[s] = "ready"
      /\ acquisitionVars' = acquisitionVars /\ active' = active /\ spawns' = spawns /\ held' = held
  BY DEF WarmLands
<1>2. CASE /\ session' = SetState(s, "retiring") /\ warming' = [warming EXCEPT ![s] = "dropped"]
           /\ warm' = warm
  BY <1>1, <1>2, PoolRetires
<1>3. CASE /\ warm' = warm \cup {s} /\ warming' = [t \in DOMAIN warming \ {s} |-> warming[t]]
           /\ session' = session
  <2>1. session[s].id = None /\ ~session[s].cold /\ session[s].st = "idle"
    BY <1>1 DEF WarmIsUnnamed
  <2>2. DOMAIN warming' = DOMAIN warming \ {s} /\ \A t \in DOMAIN warming \ {s} : warming'[t] = warming[t]
    BY <1>3
  <2>3. SessionTypes'
    BY <1>1, <1>3, <2>2 DEF SessionTypes
  <2>4. WarmIsUnnamed'
    BY <1>3, <2>1, <2>2 DEF WarmIsUnnamed
  <2>5. Reserved' = Reserved
    <3>1. caller' = caller
      BY <1>1 DEF acquisitionVars
    <3> QED BY <1>1, <2>2, <3>1 DEF Reserved, Reserves
  <2>6. ColdActive' = ColdActive
    BY <1>1, <1>3 DEF ColdActive, Active
  <2>7. Counted'
    BY <1>1, <2>3, <2>5, <2>6, CountSame DEF Counted
  <2>8. /\ session'[s].id = None /\ session[s].st # "retiring" /\ session'[s].st \notin {"none", "gone"}
        /\ \A t \in Sessions \ {s} : session'[t] = session[t]
    BY <1>3, <2>1
  <2> QED BY <1>1, <2>1, <2>3, <2>4, <2>7, <2>8, PoolKeeps
<1> QED BY <1>2, <1>3 DEF WarmLands

LEMMA WarmEndsKeep ==
    ASSUME SessionInv, NEW s \in Sessions, WarmFails(s) \/ WarmExpires(s)
    PROVE  SessionInv'
BY PoolRetires DEF WarmFails, WarmExpires

-----------------------------------------------------------------------------
(***************************************************************************)
(* A process has exited, or that is not confirmed.                         *)
(***************************************************************************)
LEMMA LateExitKeeps ==
    ASSUME SessionInv, NEW s \in Sessions, LateExit(s)
    PROVE  SessionInv'
<1> USE DEF SessionInv, OwnInv
<1>1. /\ session[s].st = "unconfirmed" /\ session' = [session EXCEPT ![s] = Gone]
      /\ held' = [a \in Callers |-> IF held[a] = s THEN None ELSE held[a]]
      /\ active' = [id \in Ids |-> IF active[id] = s THEN None ELSE active[id]]
      /\ pending' = pending /\ releases' = releases /\ caller' = caller /\ barrier' = barrier
      /\ warm' = warm /\ warming' = warming /\ spawns' = spawns
  BY DEF LateExit, acquisitionVars
<1>2. Gone \in SessionRows /\ Gone.id = None /\ ~Gone.cold /\ Gone.st = "gone"
  BY DEF Gone, NoSession, SessionRows
<1>3. AcquisitionInv'
  <2>1. CallsMove
    BY <1>1 DEF CallsMove, AcquisitionInv, AcquisitionTypes
  <2> QED BY <1>1, <2>1, MovesKeep
<1>4. session'[s] = Gone /\ \A t \in Sessions \ {s} : session'[t] = session[t]
  BY <1>1 DEF SessionTypes
<1>5. \A id \in Ids : active'[id] = IF active[id] = s THEN None ELSE active[id]
  BY <1>1
<1>6. SessionTypes'
  BY <1>1, <1>2 DEF SessionTypes
<1>7. UnnamedIsNobodys'
  BY <1>2, <1>4 DEF UnnamedIsNobodys
<1>8. ActiveIsNamed'
  BY <1>4, <1>5 DEF ActiveIsNamed, SessionTypes
<1>9. s \notin warm /\ s \notin DOMAIN warming /\ \A c \in Callers : Reserves(c) => caller[c].on # s
  BY <1>1 DEF WarmIsUnnamed, SpawnsAreNamed, Reserves, SessionTypes
<1>10. WarmIsUnnamed'
  BY <1>1, <1>4, <1>9 DEF WarmIsUnnamed, SessionTypes
<1>11. SpawnsAreNamed'
  BY <1>1, <1>4, <1>9 DEF SpawnsAreNamed, Reserves
<1>12. NoneFound'
  BY <1>1, <1>5 DEF NoneFound, AcquisitionInv, CreationsAreMapped, Looking, Creating
<1>13. NamedIsKnown'
  <2> SUFFICES ASSUME NEW t \in Sessions, session'[t].id # None
               PROVE  \/ active'[session'[t].id] = t
                      \/ \E c \in Callers : Reserves(c) /\ caller[c].on = t
                      \/ session'[t].st = "unconfirmed"
    BY <1>1 DEF NamedIsKnown, Reserves
  <2>1. t # s /\ session'[t] = session[t] /\ session[t].id \in Ids
    BY <1>2, <1>4 DEF SessionTypes, SessionRows
  <2> QED BY <1>5, <2>1 DEF NamedIsKnown
<1>14. CleaningSessions'
  <2>1. \A r \in Releases : barrier[r].at = "cleaning" => barrier[r].on # s /\ barrier[r].id \in Ids
    BY <1>1 DEF CleaningSessions, AcquisitionInv, ReleaseInv, NumberedInOrder, Used
  <2> QED BY <1>1, <1>4, <1>5, <2>1 DEF CleaningSessions
<1>15. Reserved' = Reserved
  BY <1>1 DEF Reserved, Reserves
<1>16. ColdActive' \subseteq ColdActive
  <2> SUFFICES ASSUME NEW t \in ColdActive' PROVE t \in ColdActive
    OBVIOUS
  <2>1. PICK i \in Ids : t = active'[i] /\ t # None /\ session'[t].cold
    BY DEF ColdActive, Active
  <2>2. t = active[i] /\ t # s /\ t \in Sessions
    BY <1>5, <2>1 DEF SessionTypes
  <2> QED BY <1>4, <2>1, <2>2 DEF ColdActive, Active
<1>17. Counted'
  BY <1>1, <1>6, <1>15, <1>16, CountSame DEF Counted
<1> QED BY <1>3, <1>6, <1>7, <1>8, <1>10, <1>11, <1>12, <1>13, <1>14, <1>17 DEF Counted

\* What a disposal that ends does to those who await it.
LEMMA RetiredCallers ==
    ASSUME SessionInv, NEW s \in Sessions, NEW ok \in BOOLEAN, Retired(s, ok)
    PROVE  /\ CallsMove
           /\ \A c \in Callers : /\ Reserves(c)' <=> Reserves(c) /\ caller[c].on # s
                                 /\ Reserves(c)' => caller'[c] = caller[c]
                                 /\ caller'[c].at \in Looking => caller[c].at \in Looking
                                 /\ caller'[c].id = caller[c].id
<1> USE DEF SessionInv, OwnInv
<1>1. caller' = [a \in Callers |-> IF a \in Disposing(s) THEN AfterDisposal(caller[a], ok) ELSE caller[a]]
  BY DEF Retired
<1>2. session[s].st = "retiring"
  BY DEF Retired
<1>3. ASSUME NEW c \in Disposing(s)
      PROVE  /\ AfterDisposal(caller[c], ok) \in Calls
             /\ AfterDisposal(caller[c], ok).at \in {"searching", "rejected"}
             /\ AfterDisposal(caller[c], ok).at = "searching" => caller[c].at \in {"evicting", "reclaiming"}
             /\ AfterDisposal(caller[c], ok).id = caller[c].id
             /\ AfterDisposal(caller[c], ok).owner = caller[c].owner
  <2>1. caller[c] \in Calls /\ caller[c].at \in {"evicting", "reclaiming", "failing"}
    BY DEF Disposing, AcquisitionInv, AcquisitionTypes
  <2>2. \A at \in {"searching", "rejected"} :
           /\ [caller[c] EXCEPT !.at = at, !.on = None] \in Calls
           /\ [caller[c] EXCEPT !.at = at, !.on = None].at = at
           /\ [caller[c] EXCEPT !.at = at, !.on = None].id = caller[c].id
           /\ [caller[c] EXCEPT !.at = at, !.on = None].owner = caller[c].owner
    BY <2>1 DEF Calls, Creating, Things
  <2>3. \/ AfterDisposal(caller[c], ok) = [caller[c] EXCEPT !.at = "rejected", !.on = None]
        \/ /\ AfterDisposal(caller[c], ok) = [caller[c] EXCEPT !.at = "searching", !.on = None]
           /\ caller[c].at \in {"evicting", "reclaiming"}
    BY DEF AfterDisposal
  <2> QED BY <2>2, <2>3
<1>4. \A c \in Callers : IF c \in Disposing(s) THEN caller'[c] = AfterDisposal(caller[c], ok) ELSE caller'[c] = caller[c]
  BY <1>1
<1>5. CallsMove
  <2>1. caller' \in [Callers -> Calls]
    BY <1>1, <1>3 DEF AcquisitionInv, AcquisitionTypes
  <2>2. \A c \in Disposing(s) : caller[c].at \in Creating
    BY DEF Disposing, Creating
  <2> QED BY <1>3, <1>4, <2>1, <2>2 DEF CallsMove, Creating
<1>6. \A c \in Callers : Reserves(c) /\ caller[c].on = s => c \in Disposing(s)
  BY <1>2 DEF Reserves, SpawnsAreNamed, Disposing
<1>7. \A c \in Disposing(s) : caller[c].on = s /\ caller[c].at \in Looking
  BY DEF Disposing, Looking
<1> QED BY <1>3, <1>4, <1>5, <1>6, <1>7 DEF Reserves

\* At most one release tears a session down.
LEMMA OneCleaner ==
    ASSUME SessionInv, NEW s \in Sessions
    PROVE  Cleaning(s) = {} \/ \E r \in Releases : Cleaning(s) = {r} /\ barrier[r].at = "cleaning"
<1> USE DEF SessionInv, OwnInv
<1>1. ASSUME NEW q \in Cleaning(s), NEW r \in Cleaning(s), q < r PROVE FALSE
  <2>1. q \in Releases /\ r \in Releases /\ barrier[q].at = "cleaning" /\ barrier[r].at = "cleaning" /\ SameId(q, r)
    BY DEF Cleaning, CleaningSessions, SameId
  <2> QED BY <1>1, <2>1, DueIsFirst DEF Unsettled
<1>2. \A q, r \in Cleaning(s) : q = r
  BY <1>1 DEF Cleaning, Releases
<1>3. \A q \in Cleaning(s) : q \in Releases /\ barrier[q].at = "cleaning"
  BY DEF Cleaning
<1> QED BY <1>2, <1>3

LEMMA RetiredReleases ==
    ASSUME SessionInv, NEW s \in Sessions, NEW ok \in BOOLEAN, Retired(s, ok)
    PROVE  /\ AcquisitionInv'
           /\ \A r \in Releases : barrier'[r].at = "cleaning" => barrier'[r] = barrier[r] /\ barrier[r].on # s
<1> USE DEF SessionInv, OwnInv
<1> DEFINE outcome == IF ok THEN "done" ELSE "failed"
<1>1. /\ barrier' = [r \in Releases |-> IF r \in Cleaning(s)
                         THEN SettledBarrier(barrier[r], barrier[r].failedCleanup, outcome) ELSE barrier[r]]
      /\ releases' = ReleasesAfter(Cleaning(s), barrier') /\ pending' = pending
  BY DEF Retired
<1>2. outcome \in Settled
  BY DEF Settled
<1> HIDE DEF outcome
<1>3. CallsMove
  BY RetiredCallers
<1>4. CASE Cleaning(s) = {}
  <2>1. barrier' = barrier
    BY <1>1, <1>4 DEF AcquisitionInv, AcquisitionTypes
  <2>2. releases' = releases
    BY <1>1, <1>4 DEF ReleasesAfter, AcquisitionInv, AcquisitionTypes
  <2>3. AcquisitionInv'
    BY <1>1, <1>3, <2>1, <2>2, MovesKeep
  <2> QED BY <1>4, <2>1, <2>3 DEF Cleaning
<1>5. ASSUME NEW r \in Releases, Cleaning(s) = {r}, barrier[r].at = "cleaning"
      PROVE  /\ AcquisitionInv'
             /\ \A q \in Releases : barrier'[q].at = "cleaning" => barrier'[q] = barrier[q] /\ barrier[q].on # s
  <2>1. barrier[r] \in Barriers /\ barrier[r].failedCleanup \in BOOLEAN /\ Failed(r) = barrier[r].failedCleanup
    BY <1>5 DEF AcquisitionInv, AcquisitionTypes, Barriers, Failed
  <2> DEFINE e == SettledBarrier(barrier[r], barrier[r].failedCleanup, outcome)
  <2>2. /\ e \in Barriers /\ e.at = outcome /\ e.id = barrier[r].id
        /\ e.failedCleanup <=> (outcome = "failed" \/ (outcome = "refused" /\ Failed(r)))
    BY <1>2, <2>1, SettledFacts
  <2>3. barrier'[r] = e /\ \A q \in Releases \ {r} : barrier'[q] = barrier[q]
    BY <1>1, <1>5
  <2> HIDE DEF e
  <2>4. barrier' \in [Releases -> Barriers]
    <3>1. \A q \in Releases : barrier'[q] \in Barriers
      BY <2>2, <2>3 DEF AcquisitionInv, AcquisitionTypes
    <3>2. barrier' = [q \in Releases |-> barrier'[q]]
      BY <1>1
    <3> HIDE <1>1
    <3> QED BY <3>1, <3>2
  <2>5. /\ releases' \in [Ids -> Releases \cup {None}]
        /\ \A i \in Ids : releases'[i] = IF releases[i] = r /\ Reusable(barrier'[r]) THEN None ELSE releases[i]
    BY <1>1, <1>5 DEF ReleasesAfter, AcquisitionInv, AcquisitionTypes
  <2>6. AcquisitionInv'
    BY ZenonT(40), <1>1, <1>2, <1>3, <1>5, <2>2, <2>3, <2>4, <2>5, SettlingKeeps
  <2>7. \A q \in Releases : barrier'[q].at = "cleaning" => q # r
    BY <1>2, <2>2, <2>3 DEF Settled
  <2> QED BY <1>5, <2>3, <2>6, <2>7 DEF Cleaning
<1> QED BY <1>4, <1>5, OneCleaner

LEMMA FreedFacts ==
    ASSUME SessionInv, NEW s \in Sessions, session[s].st = "retiring"
    PROVE  Freed(s) = IF s \in Reserved THEN 1 ELSE 0
<1> USE DEF SessionInv, OwnInv
<1> DEFINE F == {a \in Disposing(s) : caller[a].at = "failing"}
                  \cup {t \in DOMAIN warming : t = s /\ warming[t] = "failing"}
<1>1. Freed(s) = Cardinality(F)
  BY DEF Freed
<1>2. \A c \in Callers : Reserves(c) /\ caller[c].on = s => caller[c].at = "failing"
  BY DEF Reserves, SpawnsAreNamed
<1>3. s \in DOMAIN warming => warming[s] # "spawning"
  BY DEF WarmIsUnnamed
<1>4. ASSUME NEW a \in Callers, Reserves(a), caller[a].on = s PROVE F = {a} /\ s \in Reserved
  <2>1. \A c \in Callers : Reserves(c) /\ caller[c].on = s => c = a
    BY <1>4, OneCreation DEF Reserves, SpawnsAreNamed, Creating
  <2>2. s \notin DOMAIN warming
    BY <1>4, NotReserved
  <2>3. a \in Disposing(s) /\ caller[a].at = "failing"
    BY <1>2, <1>4 DEF Disposing
  <2> QED BY <1>4, <2>1, <2>2, <2>3 DEF Disposing, Reserves, Reserved
<1>5. ASSUME ~\E c \in Callers : Reserves(c) /\ caller[c].on = s
      PROVE  IF s \in Reserved THEN F = {s} ELSE F = {}
  BY <1>3, <1>5 DEF Disposing, Reserves, Reserved
<1> HIDE DEF F
<1>6. \A x : Cardinality({x}) = 1
  BY FS_Singleton
<1>7. Cardinality({}) = 0
  BY FS_EmptySet
<1> QED BY <1>1, <1>4, <1>5, <1>6, <1>7

LEMMA RetiredKeeps ==
    ASSUME SessionInv, NEW s \in Sessions, NEW ok \in BOOLEAN, Retired(s, ok)
    PROVE  SessionInv'
<1> USE DEF SessionInv, OwnInv
<1>1. /\ session[s].st = "retiring"
      /\ session' = IF ok THEN [session EXCEPT ![s] = Gone] ELSE SetState(s, "unconfirmed")
      /\ held' = [a \in Callers |-> IF ok /\ held[a] = s THEN None ELSE held[a]]
      /\ active' = [id \in Ids |-> IF ok /\ active[id] = s THEN None ELSE active[id]]
      /\ spawns' = spawns - Freed(s)
      /\ warming' = [t \in DOMAIN warming \ {s} |-> warming[t]] /\ pending' = pending /\ warm' = warm
  BY DEF Retired
<1>2. Gone \in SessionRows /\ Gone.id = None /\ ~Gone.cold /\ Gone.st = "gone"
  BY DEF Gone, NoSession, SessionRows
<1>3. /\ session' \in [Sessions -> SessionRows] /\ \A t \in Sessions \ {s} : session'[t] = session[t]
      /\ ok => session'[s] = Gone
      /\ ~ok => /\ session'[s].st = "unconfirmed" /\ session'[s].id = session[s].id
                /\ session'[s].cold = session[s].cold
  <2>1. CASE ok
    BY <1>1, <1>2, <2>1 DEF SessionTypes
  <2>2. CASE ~ok
    BY <1>1, <2>2, SetStateFacts
  <2> QED BY <2>1, <2>2
<1>4. \A id \in Ids : active'[id] = IF ok /\ active[id] = s THEN None ELSE active[id]
  BY <1>1
<1>5. DOMAIN warming' = DOMAIN warming \ {s} /\ \A t \in DOMAIN warming \ {s} : warming'[t] = warming[t]
  BY <1>1
<1>6. SessionTypes'
  <2>1. active' \in [Ids -> Sessions \cup {None}] /\ held' \in [Callers -> Sessions \cup {None}]
    BY <1>1 DEF SessionTypes
  <2> QED BY <1>1, <1>3, <1>5, <2>1 DEF SessionTypes
<1>7. /\ AcquisitionInv'
      /\ \A r \in Releases : barrier'[r].at = "cleaning" => barrier'[r] = barrier[r] /\ barrier[r].on # s
  BY RetiredReleases
<1>8. \A c \in Callers : /\ Reserves(c)' <=> Reserves(c) /\ caller[c].on # s
                         /\ Reserves(c)' => caller'[c] = caller[c]
                         /\ caller'[c].at \in Looking => caller[c].at \in Looking
                         /\ caller'[c].id = caller[c].id
  BY RetiredCallers
<1>9. UnnamedIsNobodys'
  BY <1>2, <1>3 DEF UnnamedIsNobodys
<1>10. ActiveIsNamed'
  BY <1>3, <1>4 DEF ActiveIsNamed, SessionTypes
<1>11. WarmIsUnnamed'
  <2>1. s \notin warm
    BY <1>1 DEF WarmIsUnnamed
  <2> QED BY <1>1, <1>3, <1>5, <2>1 DEF WarmIsUnnamed, SessionTypes
<1>12. SpawnsAreNamed'
  <2> SUFFICES ASSUME NEW c \in Callers, Reserves(c)'
               PROVE  /\ caller'[c].on \in Sessions
                      /\ session'[caller'[c].on].id = caller'[c].id /\ session'[caller'[c].on].cold
                      /\ caller'[c].at = "spawning" => session'[caller'[c].on].st = "spawning"
                      /\ caller'[c].at = "failing" => session'[caller'[c].on].st = "retiring"
    BY DEF SpawnsAreNamed
  <2>1. Reserves(c) /\ caller'[c] = caller[c] /\ caller[c].on # s
    BY <1>8
  <2> QED BY <1>3, <2>1 DEF SpawnsAreNamed
<1>13. NoneFound'
  <2> SUFFICES ASSUME NEW c \in Callers, caller'[c].at \in Looking PROVE active'[caller[c].id] = None
    BY <1>8 DEF NoneFound
  <2>1. caller[c].at \in Looking
    BY <1>8
  <2>2. active[caller[c].id] = None /\ caller[c].id \in Ids
    BY <2>1, OneCreation DEF NoneFound, Looking, Creating
  <2> QED BY <1>4, <2>2
<1>14. NamedIsKnown'
  <2> SUFFICES ASSUME NEW t \in Sessions, session'[t].id # None
               PROVE  \/ active'[session'[t].id] = t
                      \/ \E c \in Callers : Reserves(c)' /\ caller'[c].on = t
                      \/ session'[t].st = "unconfirmed"
    BY DEF NamedIsKnown
  <2>1. CASE t = s
    BY <1>2, <1>3, <2>1
  <2>2. CASE t # s
    <3>1. session'[t] = session[t] /\ session[t].id \in Ids
      BY <1>3, <2>2 DEF SessionTypes, SessionRows
    <3>2. active[session[t].id] = t => active'[session[t].id] = t
      BY <1>4, <2>2, <3>1
    <3>3. \A c \in Callers : Reserves(c) /\ caller[c].on = t => Reserves(c)' /\ caller'[c].on = t
      BY <1>8, <2>2
    <3> QED BY <3>1, <3>2, <3>3 DEF NamedIsKnown
  <2> QED BY <2>1, <2>2
<1>15. CleaningSessions'
  <2> SUFFICES ASSUME NEW r \in Releases, barrier'[r].at = "cleaning"
               PROVE  /\ barrier'[r].on \in Sessions /\ session'[barrier'[r].on].st = "retiring"
                      /\ session'[barrier'[r].on].id = barrier'[r].id
                      /\ active'[barrier'[r].id] \in {barrier'[r].on, None}
    BY DEF CleaningSessions
  <2>1. barrier'[r] = barrier[r] /\ barrier[r].on # s /\ barrier[r].id \in Ids
    BY <1>7 DEF AcquisitionInv, ReleaseInv, NumberedInOrder, Used
  <2>2. /\ barrier[r].on \in Sessions /\ session[barrier[r].on].st = "retiring"
        /\ session[barrier[r].on].id = barrier[r].id /\ active[barrier[r].id] \in {barrier[r].on, None}
    BY <2>1 DEF CleaningSessions
  <2> QED BY <1>3, <1>4, <2>1, <2>2
<1>16. Reserved' = Reserved \ {s}
  <2>1. ASSUME NEW t \in Sessions
        PROVE  (\E c \in Callers : Reserves(c)' /\ caller'[c].on = t)
                  <=> t # s /\ \E c \in Callers : Reserves(c) /\ caller[c].on = t
    BY <1>8
  <2> QED BY <1>5, <2>1 DEF Reserved
<1>17. ColdActive' \subseteq ColdActive
  <2> SUFFICES ASSUME NEW t \in ColdActive' PROVE t \in ColdActive
    OBVIOUS
  <2>1. PICK i \in Ids : t = active'[i] /\ t # None /\ session'[t].cold
    BY DEF ColdActive, Active
  <2>2. t = active[i] /\ t \in Sessions
    BY <1>4, <2>1 DEF SessionTypes
  <2>3. session[t].cold
    BY <1>2, <1>3, <2>1, <2>2
  <2> QED BY <2>1, <2>2, <2>3 DEF ColdActive, Active
<1>18. Counted'
  <2>1. CASE s \in Reserved
    <3>1. spawns' = spawns - 1 /\ ColdActive' \subseteq ColdActive \cup {s}
      BY <1>1, <1>17, <2>1, FreedFacts
    <3> QED BY <1>6, <1>16, <2>1, <3>1, CountFreed DEF Counted
  <2>2. CASE s \notin Reserved
    <3>1. spawns \in Nat
      BY FiniteParts DEF ReservationsCounted
    <3>2. spawns' = spawns /\ Reserved' = Reserved
      BY <1>1, <1>16, <2>2, <3>1, FreedFacts
    <3> QED BY <1>6, <1>17, <3>2, CountSame DEF Counted
  <2> QED BY <2>1, <2>2
<1> QED BY <1>6, <1>7, <1>9, <1>10, <1>11, <1>12, <1>13, <1>14, <1>15, <1>18 DEF Counted

-----------------------------------------------------------------------------
(***************************************************************************)
(* The invariant.                                                          *)
(***************************************************************************)
LEMMA SessionInitKeeps == SessionInit => SessionInv
<1> SUFFICES ASSUME SessionInit PROVE SessionInv
  OBVIOUS
<1>1. /\ \A a \in Callers : caller[a] = NoCall
      /\ \A r \in Releases : barrier[r] = Unused
      /\ \A s \in Sessions : session[s] = NoSession
      /\ \A id \in Ids : pending[id] = None /\ releases[id] = None /\ active[id] = None
      /\ warm = {} /\ warming = << >> /\ DOMAIN warming = {} /\ spawns = 0
  BY DEF SessionInit, AcquisitionInit
<1>2. NoCall \in Calls /\ Unused \in Barriers /\ NoSession \in SessionRows
  BY DEF NoCall, Calls, Things, Unused, Barriers, NoSession, SessionRows
<1>3. NoCall.at = "idle" /\ Unused.at = "unused"
  BY DEF NoCall, Unused
<1>4. NoSession.id = None /\ NoSession.cold = FALSE /\ NoSession.st = "none"
  BY DEF NoSession
<1>5. AcquisitionTypes
  BY <1>2 DEF AcquisitionTypes, SessionInit, AcquisitionInit
<1>6. CreationsAreMapped
  BY <1>1, <1>3 DEF CreationsAreMapped, Creating
<1>7. ReleaseInv
  BY <1>1, <1>3 DEF ReleaseInv, NumberedInOrder, LatestIsMapped, WaitsForPrevious, FailuresInherited,
                    Used, Unsettled, SameId, Covered, Settled
<1>8. WaitsForCreation /\ FailuresRepaired
  BY <1>1, <1>3 DEF WaitsForCreation, FailuresRepaired
<1>9. SessionTypes
  BY <1>1, <1>2 DEF SessionTypes, SessionInit
<1>10. OwnInv
  <2>1. \A c \in Callers : caller[c].at = "idle"
    BY <1>1, <1>3
  <2>2. \A r \in Releases : barrier[r].at = "unused"
    BY <1>1, <1>3
  <2> QED BY <1>1, <1>4, <2>1, <2>2
       DEF OwnInv, UnnamedIsNobodys, ActiveIsNamed, WarmIsUnnamed, SpawnsAreNamed, NoneFound, NamedIsKnown,
           CleaningSessions, Reserves, Looking
<1>11. Reserved = {}
  BY <1>1, <1>3 DEF Reserved, Reserves
<1>12. Active = {}
  BY <1>1 DEF Active
<1>13. ColdActive = {}
  BY <1>12 DEF ColdActive
<1>14. ReservationsCounted
  BY <1>1, <1>11, FS_EmptySet DEF ReservationsCounted
<1>15. Cardinality(ColdActive) = 0
  BY <1>13, FS_EmptySet
<1>16. WithinBudget
  BY <1>1, <1>15, SessionConstants DEF WithinBudget, ColdActive
<1> QED BY <1>5, <1>6, <1>7, <1>8, <1>9, <1>10, <1>14, <1>16 DEF SessionInv, AcquisitionInv

LEMMA CreationStepKeeps ==
    ASSUME SessionInv, NEW a \in Callers, CreationStep(a)
    PROVE  SessionInv'
<1>1. CASE FindExisting(a) \/ NoCapacity(a) \/ NotStarted(a) \/ Rejected(a) \/ EndSearch(a)
  BY <1>1, QuietStepsKeep
<1>2. CASE Evict(a) \/ Reclaim(a) \/ SpawnFails(a)
  BY <1>2, CallerRetires
<1>3. CASE TakeWarm(a)
  BY <1>3, TakeWarmKeeps
<1>4. CASE Spawn(a)
  BY <1>4, SpawnKeeps
<1>5. CASE Spawned(a)
  BY <1>5, SpawnedKeeps
<1> QED BY <1>1, <1>2, <1>3, <1>4, <1>5 DEF CreationStep

LEMMA SessionInvHolds == SessionSpec => []SessionInv
<1>1. SessionInv /\ [SessionNext]_sessionVars => SessionInv'
  <2> SUFFICES ASSUME SessionInv, [SessionNext]_sessionVars PROVE SessionInv'
    OBVIOUS
  <2>1. ASSUME NEW a \in Callers, NEW q \in Acquired, AcquireSession(a, q[1], q[2]) PROVE SessionInv'
    <3>1. q[1] \in Ids /\ q[2] \in Owners
      BY SessionConstants
    <3> QED BY <2>1, <3>1, AcquireKeeps
  <2>2. ASSUME NEW r \in Releases, NEW q \in Released, ReleaseSession(r, q[1], q[2]) PROVE SessionInv'
    <3>1. q[1] \in Ids /\ q[2] \in Owners
      BY SessionConstants
    <3> QED BY <2>2, <3>1, ReleaseSessionKeeps
  <2>3. ASSUME NEW a \in Callers, PastRelease(a) \/ CreationStep(a) PROVE SessionInv'
    BY <2>3, PastReleaseKeeps, CreationStepKeeps
  <2>4. ASSUME NEW r \in Releases, Cleanup(r) PROVE SessionInv'
    BY <2>4, CleanupKeeps
  <2>5. ASSUME NEW s \in Sessions, DisposalEnds(s) PROVE SessionInv'
    BY <2>5, RetiredKeeps DEF DisposalEnds
  <2>6. ASSUME NEW s \in Sessions, LateExit(s) \/ WarmStep(s) \/ WarmExpires(s) PROVE SessionInv'
    BY <2>6, LateExitKeeps, WarmReadyKeeps, WarmLandsKeeps, WarmEndsKeep DEF WarmStep
  <2>7. CASE WarmStart
    BY <2>7, WarmStartKeeps
  <2>8. CASE UNCHANGED sessionVars
    <3>1. /\ UNCHANGED <<pending, releases, caller, barrier>>
          /\ UNCHANGED <<session, active, warm, warming, spawns, held>>
      BY <2>8 DEF sessionVars, acquisitionVars, managerVars
    <3>2. AcquisitionInv'
      <4>1. CallsMove
        BY <3>1 DEF CallsMove, SessionInv, AcquisitionInv, AcquisitionTypes
      <4> QED BY <3>1, <4>1, MovesKeep DEF SessionInv
    <3>3. SessionTypes'
      BY <3>1 DEF SessionInv, SessionTypes
    <3>4. OwnInv'
      BY <3>1 DEF SessionInv, OwnInv, UnnamedIsNobodys, ActiveIsNamed, WarmIsUnnamed, SpawnsAreNamed,
         NoneFound, NamedIsKnown, CleaningSessions, Reserves
    <3>5. ReservationsCounted' /\ WithinBudget'
      BY <3>1 DEF SessionInv, ReservationsCounted, Reserved, Reserves, WithinBudget, Active
    <3> QED BY <3>2, <3>3, <3>4, <3>5 DEF SessionInv
  <2> QED BY <2>1, <2>2, <2>3, <2>4, <2>5, <2>6, <2>7, <2>8 DEF SessionNext
<1> QED BY <1>1, SessionInitKeeps, PTL DEF SessionSpec

(***************************************************************************)
(* The reservations of reserveSlot: sessions spawned for a caller and      *)
(* spawns under way stay within the budget.                                *)
(***************************************************************************)
THEOREM BudgetIsKept == SessionSpec => []WithinBudget
<1>1. SessionInv => WithinBudget
  BY DEF SessionInv
<1> QED BY <1>1, SessionInvHolds, PTL

(***************************************************************************)
(* sessionAcquisition.ts: "so two providers cannot overlap under one id".  *)
(***************************************************************************)
THEOREM OneProviderPerId == SessionSpec => []OneProvider
<1>1. SessionInv => OneProvider
  <2> SUFFICES ASSUME SessionInv, NEW id \in Ids
               PROVE  Cardinality({s \in Sessions : session[s].id = id /\ Running(s) /\ ~Stray(s)}) <= 1
    BY DEF OneProvider
  <2> USE DEF SessionInv, OwnInv
  <2> DEFINE S == {s \in Sessions : session[s].id = id /\ Running(s) /\ ~Stray(s)}
  <2>1. ASSUME NEW s \in S
        PROVE  \/ active[id] = s
               \/ active[id] = None /\ \E c \in Callers : Reserves(c) /\ caller[c].on = s
    <3>1. id # None
      BY AcquisitionConstants
    <3>2. \/ active[id] = s
          \/ \E c \in Callers : Reserves(c) /\ caller[c].on = s
          \/ session[s].st = "unconfirmed"
      BY <3>1 DEF NamedIsKnown
    <3>3. session[s].st = "unconfirmed" => active[id] = s
      BY ActiveFacts DEF Stray
    <3>4. ASSUME NEW c \in Callers, Reserves(c), caller[c].on = s PROVE active[id] = None
      BY <3>4 DEF SpawnsAreNamed, NoneFound, Looking, Reserves
    <3> QED BY <3>2, <3>3, <3>4
  <2>2. ASSUME NEW s \in S, NEW t \in S PROVE s = t
    <3>1. s # None /\ t # None
      BY DEF Sessions, None
    <3>2. ASSUME NEW c \in Callers, Reserves(c), caller[c].on = s,
                 NEW d \in Callers, Reserves(d), caller[d].on = t
          PROVE  c = d
      <4>1. caller[c].id = id /\ caller[d].id = id /\ caller[c].at \in Creating /\ caller[d].at \in Creating
        BY <3>2 DEF SpawnsAreNamed, Reserves, Creating
      <4> QED BY <4>1, OneCreation
    <3> QED BY <2>1, <3>1, <3>2
  <2> HIDE DEF S
  <2>3. CASE S = {}
    <3>1. Cardinality(S) = 0
      BY <2>3, FS_EmptySet
    <3> QED BY <3>1 DEF S
  <2>4. ASSUME NEW s \in S PROVE Cardinality(S) <= 1
    <3>1. S = {s}
      BY <2>2
    <3>2. Cardinality(S) = 1
      BY <3>1, FS_Singleton
    <3> QED BY <3>2
  <2> QED BY <2>3, <2>4 DEF S
<1> QED BY <1>1, SessionInvHolds, PTL

-----------------------------------------------------------------------------
(***************************************************************************)
(* What a step does to the outcome of a release.                           *)
(***************************************************************************)
LEMMA BarrierSteps ==
    ASSUME SessionInv, SessionNext, NEW r \in Releases, barrier[r].at # "done", barrier'[r].at = "done"
    PROVE  \/ Cleanup(r)
           \/ \E s \in Sessions : Retired(s, TRUE) /\ r \in Cleaning(s)
<1> USE DEF SessionInv, AcquisitionInv
<1>1. barrier' # barrier
  OBVIOUS
<1>2. ASSUME NEW a \in Callers, NEW ok, WorkSettles(a, ok) PROVE FALSE
  <2>1. [barrier[r] EXCEPT !.on = None].at = barrier[r].at
    BY DEF AcquisitionTypes, Barriers
  <2> QED BY <1>2, <2>1 DEF WorkSettles
<1>3. ASSUME NEW a \in Callers, CreationStep(a) PROVE FALSE
  <2>1. CASE FindExisting(a) \/ TakeWarm(a) \/ NoCapacity(a) \/ Spawned(a) \/ NotStarted(a) \/ Rejected(a)
    BY <1>2, <2>1 DEF FindExisting, TakeWarm, NoCapacity, Spawned, NotStarted, Rejected, Deliver
  <2>2. CASE Evict(a) \/ Reclaim(a) \/ EndSearch(a) \/ Spawn(a) \/ SpawnFails(a)
    BY <1>1, <2>2 DEF Evict, Reclaim, EndSearch, Spawn, SpawnFails
  <2> QED BY <1>3, <2>1, <2>2 DEF CreationStep
<1>4. ASSUME NEW q \in Releases, NEW id, NEW owner, ReleaseSession(q, id, owner) PROVE FALSE
  BY <1>4 DEF ReleaseSession, Release, AcquisitionTypes
<1>5. ASSUME NEW q \in Releases, Cleanup(q) PROVE q = r
  BY <1>5 DEF Cleanup, AcquisitionTypes
<1>6. ASSUME NEW s \in Sessions, NEW ok \in BOOLEAN, Retired(s, ok) PROVE ok /\ r \in Cleaning(s)
  <2>1. barrier'[r] = IF r \in Cleaning(s)
                      THEN SettledBarrier(barrier[r], barrier[r].failedCleanup, IF ok THEN "done" ELSE "failed")
                      ELSE barrier[r]
    BY <1>6 DEF Retired
  <2>2. r \in Cleaning(s)
    BY <2>1
  <2>3. barrier[r] \in Barriers /\ barrier[r].failedCleanup \in BOOLEAN /\ "failed" \in Settled
    BY DEF AcquisitionTypes, Barriers, Settled
  <2>4. SettledBarrier(barrier[r], barrier[r].failedCleanup, "failed").at = "failed"
    BY <2>3, SettledFacts
  <2> QED BY <2>1, <2>2, <2>4
<1>7. CASE barrier' = barrier
  BY <1>1, <1>7
<1> QED BY <1>3, <1>4, <1>5, <1>6, <1>7
     DEF SessionNext, AcquireSession, Acquire, PastRelease, PastBarrier, DisposalEnds, LateExit, WarmStep,
         WarmReady, WarmFails, WarmLands, WarmExpires, WarmStart, acquisitionVars

(***************************************************************************)
(* A release that succeeds leaves no session of its id, not even one whose *)
(* creation was under way when it was called.                              *)
(***************************************************************************)
THEOREM ReleasesAreThorough == SessionSpec => ReleasedIsGone
<1> DEFINE Thorough == \A r \in Releases : barrier[r].at # "done" /\ barrier'[r].at = "done" =>
                          active'[barrier[r].id] = None /\ pending'[barrier[r].id] = None
<1>1. SessionInv /\ [SessionNext]_sessionVars => [Thorough]_sessionVars
  <2> SUFFICES ASSUME SessionInv, SessionNext, NEW r \in Releases, barrier[r].at # "done", barrier'[r].at = "done"
               PROVE  active'[barrier[r].id] = None /\ pending'[barrier[r].id] = None
    OBVIOUS
  <2> USE DEF SessionInv, OwnInv
  <2>1. CASE Cleanup(r)
    <3>1. CleanupDue(r) /\ active' = active /\ pending' = pending
      BY <2>1 DEF Cleanup
    <3>2. pending[barrier[r].id] = None
      BY <3>1, DueIsFirst
    <3>3. barrier[r] \in Barriers /\ Inherits(r) \in BOOLEAN
      BY DEF AcquisitionInv, AcquisitionTypes, Barriers, Inherits
    <3>4. ASSUME active[barrier[r].id] # None PROVE FALSE
      <4>1. \/ barrier'[r].at = "cleaning"
            \/ barrier'[r] = SettledBarrier(barrier[r], Inherits(r), "refused")
        BY <2>1, <3>4 DEF Cleanup, AcquisitionInv, AcquisitionTypes, Barriers
      <4>2. SettledBarrier(barrier[r], Inherits(r), "refused").at = "refused"
        BY <3>3, SettledFacts DEF Settled
      <4> QED BY <4>1, <4>2
    <3> QED BY <3>1, <3>2, <3>4
  <2>2. ASSUME NEW s \in Sessions, Retired(s, TRUE), r \in Cleaning(s)
        PROVE  active'[barrier[r].id] = None /\ pending'[barrier[r].id] = None
    <3>1. barrier[r].at = "cleaning" /\ barrier[r].on = s
      BY <2>2 DEF Cleaning
    <3>2. pending[barrier[r].id] = None /\ barrier[r].id \in Ids
      BY <3>1, DueIsFirst
    <3>3. active[barrier[r].id] \in {s, None}
      BY <3>1 DEF CleaningSessions
    <3> QED BY <2>2, <3>2, <3>3 DEF Retired
  <2> QED BY <2>1, <2>2, BarrierSteps
<1> QED BY <1>1, SessionInvHolds, PTL DEF SessionSpec, ReleasedIsGone

\* What a creation that ends gives its callers.
LEMMA GivesSound ==
    ASSUME SessionInv, NEW a \in Callers, caller[a].at \in Creating, NEW s \in Sessions \cup {None},
           Deliver(a, s, session'),
           s # None => /\ session'[s].id = caller[a].id
                       /\ session[s].st # "retiring" \/ session[s].id = caller[a].id,
           NEW c \in Callers, held'[c] # held[c], held'[c] # None
    PROVE  /\ Cleaning(held'[c]) = {}
           /\ \A r \in Releases : barrier[r].at = "failed" /\ barrier[r].id = session'[held'[c]].id =>
                \E q \in Releases : q > r /\ barrier[q].at = "done" /\ barrier[q].id = barrier[r].id
<1> USE DEF SessionInv, OwnInv
<1>1. held'[c] = s /\ s # None
  BY DEF Deliver
<1>2. /\ caller[a].id \in Ids
      /\ \A r \in Releases : barrier[r].at = "cleaning" => barrier[r].id # caller[a].id
  BY OneCreation
<1>3. Cleaning(s) = {}
  BY <1>1, <1>2 DEF Cleaning, CleaningSessions
<1>4. pending[caller[a].id] # None
  BY AcquisitionConstants DEF AcquisitionInv, CreationsAreMapped
<1>5. ASSUME NEW r \in Releases, barrier[r].at = "failed", barrier[r].id = caller[a].id
      PROVE  \E q \in Releases : q > r /\ barrier[q].at = "done" /\ barrier[q].id = barrier[r].id
  <2>1. PICK q \in Releases : r < q /\ barrier[q].at = "done" /\ SameId(q, r)
    BY <1>4, <1>5 DEF AcquisitionInv, FailuresRepaired
  <2> QED BY <2>1 DEF SameId, Releases
<1> QED BY <1>1, <1>3, <1>5

(***************************************************************************)
(* A session that a release is tearing down, or could not tear down, is    *)
(* given to nobody.                                                        *)
(***************************************************************************)
THEOREM NoneIsGivenAway == SessionSpec => NotGivenAway
<1> DEFINE Sound(c) == held'[c] # held[c] /\ held'[c] # None =>
              /\ Cleaning(held'[c]) = {}
              /\ \A r \in Releases : barrier[r].at = "failed" /\ barrier[r].id = session'[held'[c]].id =>
                    \E q \in Releases : q > r /\ barrier[q].at = "done" /\ barrier[q].id = barrier[r].id
       Given == \A a \in Callers : held'[a] # held[a] /\ held'[a] # None =>
          /\ Cleaning(held'[a]) = {}
          /\ \A r \in Releases : barrier[r].at = "failed" /\ barrier[r].id = session'[held'[a]].id =>
                \E q \in Releases : q > r /\ barrier[q].at = "done" /\ barrier[q].id = barrier[r].id
<1>1. SessionInv /\ [SessionNext]_sessionVars => [Given]_sessionVars
  <2> SUFFICES ASSUME SessionInv, SessionNext, NEW c \in Callers PROVE Sound(c)
    OBVIOUS
  <2> USE DEF SessionInv, OwnInv
  <2>1. CASE held'[c] = held[c] \/ held'[c] = None
    BY <2>1
  <2>2. ASSUME NEW a \in Callers, NEW id, NEW owner, AcquireSession(a, id, owner) PROVE Sound(c)
    BY <2>2 DEF AcquireSession, SessionTypes
  <2>3. ASSUME NEW a \in Callers, FindExisting(a) PROVE Sound(c)
    <3> DEFINE f == active[caller[a].id]
               s == IF session[f].owner = caller[a].owner THEN f ELSE None
    <3>1. caller[a].at = "creating" /\ f # None /\ Deliver(a, s, session) /\ session' = session
      BY <2>3 DEF FindExisting
    <3>2. caller[a].id \in Ids /\ caller[a].at \in Creating
      BY <3>1, OneCreation DEF Creating
    <3>3. s \in Sessions \cup {None} /\ (s # None => session[s].id = caller[a].id)
      BY <3>1, <3>2 DEF SessionTypes, ActiveIsNamed
    <3> HIDE DEF s
    <3> QED BY <3>1, <3>2, <3>3, GivesSound
  <2>4. ASSUME NEW a \in Callers, TakeWarm(a) PROVE Sound(c)
    <3>1. PICK s \in warm :
             /\ session' = [session EXCEPT ![s].id = caller[a].id, ![s].owner = caller[a].owner]
             /\ Deliver(a, s, session') /\ caller[a].at = "creating"
      BY <2>4 DEF TakeWarm
    <3>2. s \in Sessions /\ session[s].st # "retiring" /\ caller[a].at \in Creating
      BY <3>1 DEF SessionTypes, WarmIsUnnamed, Creating
    <3>3. session'[s].id = caller[a].id
      BY <3>1, <3>2 DEF SessionTypes, SessionRows
    <3> QED BY <3>1, <3>2, <3>3, GivesSound
  <2>5. ASSUME NEW a \in Callers, Spawned(a) PROVE Sound(c)
    <3> DEFINE s == caller[a].on
    <3>1. /\ caller[a].at = "spawning" /\ session' = SetState(s, "idle") /\ Deliver(a, s, session')
      BY <2>5 DEF Spawned
    <3>2. s \in Sessions /\ session[s].st # "retiring" /\ caller[a].at \in Creating /\ session[s].id = caller[a].id
      BY <3>1 DEF SpawnsAreNamed, Reserves, Creating
    <3>3. session'[s].id = caller[a].id
      BY <3>1, <3>2, SetStateFacts
    <3> QED BY <3>1, <3>2, <3>3, GivesSound
  <2>6. ASSUME NEW a \in Callers, NoCapacity(a) \/ NotStarted(a) \/ Rejected(a) PROVE Sound(c)
    BY <2>1, <2>6 DEF NoCapacity, NotStarted, Rejected, Deliver
  <2>7. ASSUME NEW s \in Sessions, DisposalEnds(s) \/ LateExit(s) PROVE Sound(c)
    BY <2>1, <2>7 DEF DisposalEnds, Retired, LateExit
  <2>8. CASE held' = held
    BY <2>1, <2>8
  <2> QED BY <2>2, <2>3, <2>4, <2>5, <2>6, <2>7, <2>8
       DEF SessionNext, CreationStep, ReleaseSession, PastRelease, managerVars, Evict, Reclaim, EndSearch, Spawn,
           SpawnFails, Cleanup, WarmStep, WarmReady, WarmFails, WarmLands, WarmExpires, WarmStart
<1> QED BY <1>1, SessionInvHolds, PTL DEF SessionSpec, NotGivenAway
=============================================================================
