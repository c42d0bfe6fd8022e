------------------------- MODULE JobSchedulerProofs -------------------------
(***************************************************************************)
(* Theorems about JobScheduler, for any number of processes, jobs and      *)
(* runs, any limits, with and without failing writes.                      *)
(***************************************************************************)
EXTENDS JobScheduler, FiniteSetTheorems, TLAPS

(***************************************************************************)
(* Types.  The job of a run row that is not used yet means nothing.        *)
(***************************************************************************)
RunRow == [status : {"unused", "running", "deleted"} \cup Terminal, job : Jobs \cup {CHOOSE j \in Jobs : TRUE},
           trigger : {"scheduled", "manual"}, attention : BOOLEAN]

Batch == [job : Jobs, run : Runs, after : Int, nextAfter : Int]

RowTypes ==
    /\ jobs \in [Jobs -> Job] /\ runs \in [Runs -> RunRow]
    /\ \A r \in Runs : runs[r].status # "unused" => runs[r].job \in Jobs
    /\ consumed \subseteq Batch /\ counter \in Nat

ProcTypes ==
    /\ lease \in [holder : Instances \cup {NoOne}, gen : Nat, live : BOOLEAN]
    /\ claimed \subseteq Runs /\ claim \in [Runs -> Claim]
    /\ proc \in [Instances -> {"off", "up", "stopped", "dead"}]
    /\ held \in [Instances -> Nat]
    /\ step \in [Instances -> {"idle", "sweep", "now"}]
    /\ executing \subseteq Runs

ActiveTypes == active \in [Runs -> ActiveRun]

Types == RowTypes /\ ProcTypes /\ ActiveTypes

(***************************************************************************)
(* Claims: parts of the inductive invariant.                               *)
(***************************************************************************)

\* A handler between its transactions has had the lease, in a process that is up.
HandlersHold ==
    /\ lease.live => lease.gen > 0
    /\ \A i \in Instances : step[i] # "idle" => held[i] > 0 /\ Alive(i)

\* A run in memory has the claim its process took for it.
ActiveIsClaimed ==
    \A r \in Runs : active[r].phase # "none" =>
        /\ active[r].owner \in Instances /\ Alive(active[r].owner)
        /\ active[r].gen > 0 /\ HoldsClaim(r)

\* A claim that a process took, as opposed to one made for a row left behind.
Taken == {r \in claimed : claim[r].gen > 0}

\* While the process of a claim is alive it has the run in memory.
ClaimsAreKnown ==
    /\ \A r \in claimed : runs[r].status # "unused"
    /\ \A r \in Taken : /\ claim[r].holder \in Instances /\ proc[claim[r].holder] # "off"
                        /\ Alive(claim[r].holder) =>
                              active[r].phase # "none" /\ active[r].owner = claim[r].holder

ClaimsExclude ==
    /\ \A q, r \in Taken : runs[q].job = runs[r].job => q = r
    /\ Cardinality(Taken) <= MaxConcurrent

\* Every turn that goes on has a claim, also when its process is gone.
TurnsAreClaimed ==
    \A r \in executing :
        /\ r \in Taken
        /\ IF active[r].phase = "none" THEN ~ExitSafe
           ELSE active[r].phase \in {"begun", "live"} /\ active[r].outcome = "none"

\* A run that has not begun has no outcome.
StartsOpen == \A r \in Runs : active[r].phase = "starting" => active[r].outcome = "none"

ClaimInv ==
    /\ HandlersHold /\ ActiveIsClaimed /\ ClaimsAreKnown /\ ClaimsExclude
    /\ TurnsAreClaimed /\ StartsOpen /\ NoLostRun

(***************************************************************************)
(* Rows: parts of the inductive invariant.                                 *)
(***************************************************************************)

\* Cursors and batches never pass the turns there are.
BatchesAreRead ==
    /\ \A j \in Jobs : jobs[j].cursor # NoCursor => 0 <= jobs[j].cursor /\ jobs[j].cursor <= counter
    /\ \A r \in Runs : active[r].after # NoCursor =>
          0 <= active[r].after /\ active[r].after <= active[r].nextAfter /\ active[r].nextAfter <= counter

\* A cursor is past everything consumed.
ConsumedIsBehind ==
    \A a \in consumed :
        /\ a.nextAfter <= counter
        /\ jobs[a.job].cursor # NoCursor => a.nextAfter <= jobs[a.job].cursor

\* Runs of j that its schedule has started, and whether one more is to come.
Started(j) ==
    {r \in Runs : runs[r].status # "unused" /\ runs[r].job = j /\ runs[r].trigger = "scheduled"}

OneShotsCounted ==
    \A j \in OneShot : Cardinality(Started(j)) + (IF jobs[j].next = "none" THEN 0 ELSE 1) <= jobs[j].armed

RowInv == BatchesAreRead /\ ConsumedIsBehind /\ BatchesApart /\ OneShotsCounted

SchedInv == Types /\ ClaimInv /\ RowInv

\* What a handler has read of a cursor, it has read from a job record.
SeenInv ==
    /\ seen \in [Instances -> [Jobs -> Int]]
    /\ \A i \in Instances, j \in Jobs :
          seen[i][j] \notin {Unread, NoCursor} => 0 <= seen[i][j] /\ seen[i][j] <= counter

(***************************************************************************)
(* What steps do.  A row ages: its result is final, and a run that was     *)
(* stopped does not succeed.                                               *)
(***************************************************************************)
Stopped(r) == active[r].cancelled \/ active[r].timedOut \/ active[r].finalized

RowAges(r) ==
    /\ runs'[r].job = runs[r].job /\ runs'[r].trigger = runs[r].trigger
    /\ runs'[r].status = "unused" <=> runs[r].status = "unused"
    /\ runs'[r].status = "running" => runs[r].status = "running"
    /\ runs[r].status \in Terminal => runs'[r].status \in {runs[r].status, "deleted"}
    /\ runs[r].status = "deleted" => runs'[r].status = "deleted"
    /\ runs[r].status # "running" => runs'[r].attention = runs[r].attention
    /\ runs[r].status = "running" /\ Stopped(r) => runs'[r].status # "succeeded"

RowsAge == \A r \in Runs : RowAges(r)

\* A step of the claims that frees those of F and takes none.
ClaimStep(F) ==
    /\ lease'.holder = lease.holder /\ lease'.gen = lease.gen /\ (lease'.live => lease.live)
    /\ \A i \in Instances : /\ Alive(i)' <=> Alive(i)
                            /\ proc[i] # "off" => proc'[i] # "off"
                            /\ step'[i] # "idle" => step'[i] = step[i] /\ held'[i] = held[i]
    /\ claimed' = claimed \ F
    /\ \A r \in Runs \ F : claim'[r].holder = claim[r].holder /\ claim'[r].gen = claim[r].gen
    /\ executing' \subseteq executing /\ executing \cap F = {}
    /\ \A r \in F : /\ active'[r].phase = "none"
                    /\ active[r].phase = "none" \/ step[active[r].owner] = "idle"
    /\ \A r \in Runs \ F :
          /\ active'[r].owner = active[r].owner /\ active'[r].gen = active[r].gen
          /\ active'[r].phase = "none" <=> active[r].phase = "none"
          /\ r \in executing' => active'[r].phase \in {active[r].phase, "live"} /\ active'[r].outcome = active[r].outcome
          /\ active'[r].phase = "starting" => active[r].phase = "starting" /\ active'[r].outcome = active[r].outcome
    /\ \A r \in Runs : /\ runs[r].status # "unused" => runs'[r].status # "unused" /\ runs'[r].job = runs[r].job
                       /\ runs'[r].status = "running" => runs[r].status = "running"

\* A step that consumes nothing, moves no cursor and sets no one-shot time.
RowStep ==
    /\ RowsAge /\ consumed' = consumed /\ counter <= counter'
    /\ \A j \in Jobs : /\ jobs'[j].cursor = jobs[j].cursor /\ jobs'[j].armed = jobs[j].armed
                       /\ j \in OneShot /\ jobs[j].next = "none" => jobs'[j].next = "none"
    /\ \A r \in Runs : \/ active'[r].after = NoCursor
                       \/ active'[r].after = active[r].after /\ active'[r].nextAfter = active[r].nextAfter

LEMMA ClaimStepKeeps ==
    ASSUME Types, ClaimInv, Types', NEW F \in SUBSET Runs, ClaimStep(F)
    PROVE  ClaimInv'
<1> USE DEF ClaimInv
<1>1. HandlersHold'
  BY DEF HandlersHold, ClaimStep
<1>2. \A r \in Runs \ F : active[r].phase # "none" => HoldsClaim(r)'
  BY DEF ActiveIsClaimed, ClaimStep, HoldsClaim
<1>3. ActiveIsClaimed'
  <2> SUFFICES ASSUME NEW r \in Runs, active'[r].phase # "none"
               PROVE  /\ active'[r].owner \in Instances /\ Alive(active[r].owner)'
                      /\ active'[r].owner = active[r].owner
                      /\ active'[r].gen > 0 /\ HoldsClaim(r)'
    BY DEF ActiveIsClaimed, Alive
  <2>1. /\ r \notin F /\ active[r].phase # "none"
        /\ active'[r].owner = active[r].owner /\ active'[r].gen = active[r].gen
    BY DEF ClaimStep
  <2>2. active[r].owner \in Instances /\ Alive(active[r].owner) /\ active[r].gen > 0
    BY <2>1 DEF ActiveIsClaimed
  <2>3. Alive(active[r].owner)'
    BY <2>2 DEF ClaimStep
  <2> QED BY <1>2, <2>1, <2>2, <2>3
<1>4. Taken' = Taken \ F
  BY DEF Taken, ClaimStep, Types, ProcTypes
<1>5. \A r \in Taken : r \in Runs /\ r \in claimed
  BY DEF Taken, Types, ProcTypes
<1>6. ClaimsAreKnown'
  <2>1. \A r \in claimed' : runs'[r].status # "unused"
    BY DEF ClaimStep, ClaimsAreKnown, Types, ProcTypes
  <2>2. ASSUME NEW r \in Taken'
        PROVE  /\ claim'[r].holder \in Instances /\ proc'[claim'[r].holder] # "off"
               /\ proc'[claim'[r].holder] \in {"up", "stopped"} =>
                     active'[r].phase # "none" /\ active'[r].owner = claim'[r].holder
    <3>1. r \in Taken /\ r \in Runs \ F
      BY <1>4, <1>5
    <3>2. PICK h \in Instances : h = claim[r].holder
      BY <3>1 DEF ClaimsAreKnown
    <3>3. proc[h] # "off" /\ (Alive(h) => active[r].phase # "none" /\ active[r].owner = h)
      BY <3>1, <3>2 DEF ClaimsAreKnown
    <3>4. claim'[r].holder = h /\ active'[r].owner = active[r].owner
          /\ (active'[r].phase = "none" <=> active[r].phase = "none")
      BY <3>1, <3>2 DEF ClaimStep
    <3>5. (Alive(h)' <=> Alive(h)) /\ proc'[h] # "off"
      BY <3>3 DEF ClaimStep
    <3> QED BY <3>3, <3>4, <3>5 DEF Alive
  <2> QED BY <2>1, <2>2 DEF ClaimsAreKnown, Alive
<1>7. ClaimsExclude'
  <2>1. \A q, r \in Taken' : runs'[q].job = runs'[r].job => q = r
    BY <1>4, <1>5 DEF ClaimsExclude, ClaimsAreKnown, ClaimStep
  <2>2. IsFiniteSet(Taken)
    <3>1. Taken \subseteq Runs
      BY <1>5
    <3> QED BY <3>1, SchedulerConstants, FS_Subset
  <2>3. Cardinality(Taken') <= Cardinality(Taken) /\ Cardinality(Taken') \in Nat /\ Cardinality(Taken) \in Nat
    BY <1>4, <2>2, FS_Subset, FS_CardinalityType
  <2> QED BY <2>1, <2>3, SchedulerConstants DEF ClaimsExclude
<1>8. TurnsAreClaimed'
  <2> SUFFICES ASSUME NEW r \in executing'
               PROVE  /\ r \in Taken'
                      /\ IF active'[r].phase = "none" THEN ~ExitSafe
                         ELSE active'[r].phase \in {"begun", "live"} /\ active'[r].outcome = "none"
    BY DEF TurnsAreClaimed
  <2>1. r \in executing /\ r \in Runs \ F
    BY DEF ClaimStep, Types, ProcTypes
  <2>2. /\ r \in Taken
        /\ IF active[r].phase = "none" THEN ~ExitSafe
           ELSE active[r].phase \in {"begun", "live"} /\ active[r].outcome = "none"
    BY <2>1 DEF TurnsAreClaimed
  <2>3. /\ active'[r].phase \in {active[r].phase, "live"} /\ active'[r].outcome = active[r].outcome
        /\ active'[r].phase = "none" <=> active[r].phase = "none"
    BY <2>1 DEF ClaimStep
  <2> QED BY <1>4, <2>1, <2>2, <2>3
<1>9. NoLostRun'
  <2> SUFFICES ASSUME NEW r \in Runs, NEW i \in Instances, runs'[r].status = "running", step'[i] = "sweep", StillHolder(i)'
               PROVE  active'[r].phase # "none" /\ active'[r].owner = i
    BY DEF NoLostRun, ActiveOf
  <2>1. runs[r].status = "running" /\ step[i] = "sweep" /\ StillHolder(i)
    BY DEF ClaimStep, StillHolder
  <2>2. active[r].phase # "none" /\ active[r].owner = i
    BY <2>1 DEF NoLostRun, ActiveOf
  <2>3. r \notin F
    BY <2>1, <2>2 DEF ClaimStep
  <2> QED BY <2>2, <2>3 DEF ClaimStep
<1>10. StartsOpen'
  BY DEF StartsOpen, ClaimStep
<1> QED BY <1>1, <1>3, <1>6, <1>7, <1>8, <1>9, <1>10

LEMMA RowStepKeeps ==
    ASSUME Types, RowInv, Types', RowStep
    PROVE  RowInv'
<1> USE DEF RowInv
<1>1. BatchesAreRead'
  <2>1. \A j \in Jobs : jobs[j].cursor \in Int
    BY DEF Types, RowTypes, Job
  <2>2. \A r \in Runs : active[r].after \in Int /\ active[r].nextAfter \in Int
    BY DEF Types, ActiveTypes, ActiveRun
  <2>3. counter \in Nat /\ counter' \in Nat /\ counter <= counter'
    BY DEF RowStep, Types, RowTypes
  <2> QED BY <2>1, <2>2, <2>3 DEF BatchesAreRead, RowStep
<1>2. ConsumedIsBehind'
  <2>1. \A a \in consumed : a.job \in Jobs /\ a.nextAfter \in Int
    BY DEF Types, RowTypes, Batch
  <2>2. counter \in Nat /\ counter' \in Nat /\ counter <= counter'
    BY DEF RowStep, Types, RowTypes
  <2> QED BY <2>1, <2>2 DEF ConsumedIsBehind, RowStep
<1>3. BatchesApart'
  <2>1. \A a \in consumed : a.run \in Runs
    BY DEF Types, RowTypes, Batch
  <2>2. \A r \in Runs : runs[r].status \in {"succeeded", "deleted"} =>
            runs'[r].status \in {"succeeded", "deleted"} /\ runs'[r].attention = runs[r].attention
    BY DEF RowStep, RowsAge, RowAges, Terminal
  <2>3. consumed' = consumed
    BY DEF RowStep
  <2> QED BY <2>1, <2>2, <2>3 DEF BatchesApart
<1>4. OneShotsCounted'
  <2> SUFFICES ASSUME NEW j \in OneShot
               PROVE  Cardinality(Started(j)') + (IF jobs'[j].next = "none" THEN 0 ELSE 1) <= jobs'[j].armed
    BY DEF OneShotsCounted
  <2>1. j \in Jobs /\ jobs[j].armed \in Nat
    BY SchedulerConstants DEF Types, RowTypes, Job
  <2>2. Started(j)' = Started(j)
    BY DEF Started, RowStep, RowsAge, RowAges
  <2>3. Cardinality(Started(j)) \in Nat
    <3>1. Started(j) \subseteq Runs
      BY DEF Started
    <3> QED BY <3>1, SchedulerConstants, FS_Subset, FS_CardinalityType
  <2>4. Cardinality(Started(j)) + (IF jobs[j].next = "none" THEN 0 ELSE 1) <= jobs[j].armed
    BY DEF OneShotsCounted
  <2>5. jobs'[j].armed = jobs[j].armed /\ (jobs[j].next = "none" => jobs'[j].next = "none")
    BY <2>1 DEF RowStep
  <2> QED BY <2>1, <2>2, <2>3, <2>4, <2>5
<1> QED BY <1>1, <1>2, <1>3, <1>4

-----------------------------------------------------------------------------
(***************************************************************************)
(* Writes of one record.                                                   *)
(***************************************************************************)

\* b has the run of a in memory, with other flags.
SameRun(a, b) ==
    /\ b \in ActiveRun /\ b.phase = a.phase /\ b.owner = a.owner /\ b.gen = a.gen
    /\ b.after = a.after /\ b.nextAfter = a.nextAfter /\ b.outcome = a.outcome

\* The same in another phase.
SameRunAt(a, b, phase) ==
    /\ b \in ActiveRun /\ b.phase = phase /\ b.owner = a.owner /\ b.gen = a.gen
    /\ b.after = a.after /\ b.nextAfter = a.nextAfter /\ b.outcome = a.outcome

LEMMA ActiveWrites ==
    ASSUME NEW a \in ActiveRun
    PROVE  /\ SameRun(a, a)
           /\ SameRun(a, [a EXCEPT !.finalized = TRUE, !.aborted = TRUE])
           /\ SameRun(a, [a EXCEPT !.cancelled = TRUE, !.aborted = TRUE])
           /\ SameRun(a, [a EXCEPT !.cancelled = TRUE, !.aborted = TRUE, !.finalized = TRUE])
           /\ SameRun(a, [a EXCEPT !.timedOut = TRUE, !.aborted = TRUE])
           /\ SameRun(a, [a EXCEPT !.attention = TRUE])
BY DEF SameRun, ActiveRun

LEMMA PhaseWrites ==
    ASSUME NEW a \in ActiveRun, NEW phase \in Phases
    PROVE  /\ SameRunAt(a, [a EXCEPT !.phase = phase], phase)
           /\ SameRunAt(a, [a EXCEPT !.phase = phase, !.finalized = TRUE], phase)
           /\ SameRunAt(a, [a EXCEPT !.phase = phase, !.finalized = TRUE, !.aborted = TRUE], phase)
BY DEF SameRunAt, ActiveRun

LEMMA NoActiveFacts ==
    /\ NoActive \in ActiveRun /\ NoActive.phase = "none" /\ NoActive.after = NoCursor
    /\ NoActive.owner = NoOne /\ NoActive.gen = 0
    /\ NoClaim \in Claim /\ NoClaim.gen = 0
BY DEF NoActive, ActiveRun, NoCursor, Phases, NoClaim, Claim

LEMMA FencedFacts ==
    ASSUME ActiveTypes, NEW S
    PROVE  Fenced(S) \in [Runs -> ActiveRun] /\ \A r \in Runs : SameRun(active[r], Fenced(S)[r])
<1>1. \A r \in Runs : Fenced(S)[r] = IF r \in S THEN [active[r] EXCEPT !.finalized = TRUE, !.aborted = TRUE]
                                     ELSE active[r]
  BY DEF Fenced
<1>2. \A r \in Runs : SameRun(active[r], Fenced(S)[r])
  BY <1>1, ActiveWrites DEF ActiveTypes
<1>3. Fenced(S) = [r \in Runs |-> Fenced(S)[r]]
  BY DEF Fenced
<1>4. \A r \in Runs : Fenced(S)[r] \in ActiveRun
  BY <1>2 DEF SameRun
<1> QED BY <1>2, <1>3, <1>4

LEMMA QuarantinedFacts ==
    ASSUME ProcTypes, NEW S
    PROVE  /\ Quarantined(S) \in [Runs -> Claim]
           /\ \A r \in Runs : Quarantined(S)[r].holder = claim[r].holder /\ Quarantined(S)[r].gen = claim[r].gen
<1>1. \A r \in Runs : /\ [claim[r] EXCEPT !.quarantined = TRUE] \in Claim
                      /\ [claim[r] EXCEPT !.quarantined = TRUE].holder = claim[r].holder
                      /\ [claim[r] EXCEPT !.quarantined = TRUE].gen = claim[r].gen
  BY DEF ProcTypes, Claim
<1> QED BY <1>1 DEF Quarantined, ProcTypes

LEMMA StatusFacts ==
    ASSUME NEW row \in RunRow, NEW status \in {"unused", "running", "deleted"} \cup Terminal
    PROVE  /\ [row EXCEPT !.status = status] \in RunRow /\ [row EXCEPT !.status = status].status = status
           /\ [row EXCEPT !.status = status].job = row.job /\ [row EXCEPT !.status = status].trigger = row.trigger
           /\ [row EXCEPT !.status = status].attention = row.attention
BY DEF RunRow

LEMMA InterruptedFacts ==
    ASSUME RowTypes, NEW S
    PROVE  /\ Interrupted(S) \in [Runs -> RunRow]
           /\ \A r \in Runs :
                 /\ Interrupted(S)[r].job = runs[r].job /\ Interrupted(S)[r].trigger = runs[r].trigger
                 /\ Interrupted(S)[r].attention = runs[r].attention
                 /\ \/ Interrupted(S)[r].status = runs[r].status
                    \/ runs[r].status = "running" /\ Interrupted(S)[r].status = "interrupted"
<1>1. \A r \in Runs : /\ [runs[r] EXCEPT !.status = "interrupted"] \in RunRow
                      /\ [runs[r] EXCEPT !.status = "interrupted"].status = "interrupted"
                      /\ [runs[r] EXCEPT !.status = "interrupted"].job = runs[r].job
                      /\ [runs[r] EXCEPT !.status = "interrupted"].trigger = runs[r].trigger
                      /\ [runs[r] EXCEPT !.status = "interrupted"].attention = runs[r].attention
  BY ZenonT(40), StatusFacts DEF RowTypes, Terminal
<1> QED BY <1>1 DEF Interrupted, RowTypes

\* The rows after runs that were running have been interrupted.
LEMMA InterruptedRowsAge ==
    ASSUME RowTypes, NEW S, runs' = Interrupted(S)
    PROVE  /\ runs' \in [Runs -> RunRow] /\ RowsAge
           /\ \A r \in Runs : runs'[r].status # "unused" => runs'[r].job \in Jobs
<1>1. RowsAge
  BY InterruptedFacts DEF RowsAge, RowAges, Terminal
<1>2. runs' \in [Runs -> RunRow] /\ \A r \in Runs : runs'[r].status # "unused" => runs'[r].job \in Jobs
  BY InterruptedFacts DEF RowTypes, Terminal
<1> QED BY <1>1, <1>2

LEMMA InterruptedAge ==
    ASSUME RowTypes, NEW S, runs' = Interrupted(S), jobs' = jobs, consumed' = consumed, counter' = counter
    PROVE  RowTypes' /\ RowsAge
BY InterruptedRowsAge DEF RowTypes

LEMMA SameRowsAge ==
    ASSUME RowTypes, runs' = runs
    PROVE  RowsAge
BY DEF RowsAge, RowAges, RowTypes

LEMMA DeletedAge ==
    ASSUME RowTypes, NEW j \in Jobs, runs' = Deleted(j)
    PROVE  /\ runs' \in [Runs -> RunRow] /\ RowsAge
           /\ \A r \in Runs : runs'[r].status # "unused" => runs'[r].job \in Jobs
<1>1. \A r \in Runs : /\ [runs[r] EXCEPT !.status = "deleted"] \in RunRow
                      /\ [runs[r] EXCEPT !.status = "deleted"].status = "deleted"
                      /\ [runs[r] EXCEPT !.status = "deleted"].job = runs[r].job
                      /\ [runs[r] EXCEPT !.status = "deleted"].trigger = runs[r].trigger
                      /\ [runs[r] EXCEPT !.status = "deleted"].attention = runs[r].attention
  BY StatusFacts DEF RowTypes
<1>2. \A r \in Runs :
         /\ runs'[r].job = runs[r].job /\ runs'[r].trigger = runs[r].trigger /\ runs'[r].attention = runs[r].attention
         /\ \/ runs'[r].status = runs[r].status
            \/ runs[r].status # "unused" /\ runs'[r].status = "deleted"
  BY <1>1 DEF Deleted
<1>3. runs' \in [Runs -> RunRow]
  BY <1>1 DEF Deleted, RowTypes
<1>4. RowsAge
  BY <1>2 DEF RowsAge, RowAges, Terminal
<1> QED BY <1>2, <1>3, <1>4 DEF RowTypes

-----------------------------------------------------------------------------
(***************************************************************************)
(* finalize.                                                               *)
(***************************************************************************)
LEMMA JobAfterFacts ==
    ASSUME NEW job \in Job, NEW spent \in BOOLEAN, NEW status
    PROVE  /\ JobAfter(job, spent, status) \in Job
           /\ JobAfter(job, spent, status).cursor = job.cursor
           /\ JobAfter(job, spent, status).armed = job.armed
           /\ JobAfter(job, spent, status).next = IF spent THEN "none" ELSE job.next
<1> DEFINE failed == status \in {"failed", "timed_out"}
           count  == IF status = "succeeded" THEN 0 ELSE IF failed THEN job.failures + 1 ELSE job.failures
           paused == job.paused \/ (failed /\ count >= PauseAfter)
           enabled == job.enabled /\ ~spent
           next == IF spent THEN "none" ELSE job.next
<1>1. JobAfter(job, spent, status) =
         [job EXCEPT !.failures = count, !.paused = paused, !.enabled = enabled, !.next = next]
  BY DEF JobAfter
<1>2. count \in Nat /\ paused \in BOOLEAN /\ enabled \in BOOLEAN /\ next \in {"none", "later", "due"}
  BY DEF Job
<1>3. next = IF spent THEN "none" ELSE job.next
  OBVIOUS
<1> HIDE DEF count, paused, enabled, next
<1> QED BY <1>1, <1>2, <1>3 DEF Job

\* What happens to the batches of a run when its process goes on.
BatchesKept ==
    \A r \in Runs : \/ active'[r].after = NoCursor
                    \/ active'[r].after = active[r].after /\ active'[r].nextAfter = active[r].nextAfter

\* The job a result is recorded for, also when the second write fails.
LEMMA RecordedJob ==
    ASSUME RowTypes, ActiveTypes, NEW r \in Runs, runs[r].job \in Jobs, NEW status, NEW consume \in BOOLEAN,
           Record(r, status, consume)
    PROVE  /\ jobs' \in [Jobs -> Job]
           /\ \A k \in Jobs \ {runs[r].job} : jobs'[k] = jobs[k]
           /\ jobs'[runs[r].job].cursor = CursorAfter(r, consume /\ CanAdvance(r))
           /\ jobs'[runs[r].job].armed = jobs[runs[r].job].armed
           /\ jobs[runs[r].job].next = "none" => jobs'[runs[r].job].next = "none"
<1> DEFINE j == runs[r].job
           advance == consume /\ CanAdvance(r)
           final == IF consume /\ ~advance THEN "failed" ELSE status
           read == [jobs[j] EXCEPT !.cursor = CursorAfter(r, advance)]
           spent == Spends(j, runs[r].trigger)
<1>1. jobs' = [jobs EXCEPT ![j] = JobAfter(read, spent, final)] \/ jobs' = [jobs EXCEPT ![j] = read]
  BY DEF Record
<1>2. jobs[j] \in Job /\ CursorAfter(r, advance) \in Int
  BY DEF RowTypes, ActiveTypes, ActiveRun, Job, CursorAfter
<1>3. spent \in BOOLEAN
  BY DEF Spends
<1> HIDE DEF advance, final, spent
<1>4. /\ read \in Job /\ read.cursor = CursorAfter(r, advance)
      /\ read.armed = jobs[j].armed /\ read.next = jobs[j].next
  BY <1>2 DEF Job
<1> HIDE DEF read
<1>5. /\ JobAfter(read, spent, final) \in Job
      /\ JobAfter(read, spent, final).cursor = read.cursor /\ JobAfter(read, spent, final).armed = read.armed
      /\ JobAfter(read, spent, final).next = IF spent THEN "none" ELSE read.next
  BY <1>3, <1>4, JobAfterFacts
<1>6. PICK job : /\ jobs' = [jobs EXCEPT ![j] = job] /\ job \in Job
                 /\ job.cursor = read.cursor /\ job.armed = read.armed
                 /\ job.next = "none" \/ job.next = read.next
  BY <1>1, <1>4, <1>5
<1> QED BY <1>4, <1>6 DEF RowTypes, advance

LEMMA RecordKeeps ==
    ASSUME Types, RowInv, NEW r \in Runs, NEW status \in Terminal, NEW consume \in BOOLEAN,
           consume => status = "succeeded" /\ active[r].after # NoCursor,
           status = "succeeded" => ~Stopped(r),
           runs[r].status = "running", Record(r, status, consume), counter' = counter,
           ActiveTypes', BatchesKept
    PROVE  RowTypes' /\ RowsAge /\ RowInv'
<1> USE DEF RowInv
<1> DEFINE j == runs[r].job
           advance == consume /\ CanAdvance(r)
           final == IF consume /\ ~advance THEN "failed" ELSE status
           batch == [job |-> j, run |-> r, after |-> active[r].after, nextAfter |-> active[r].nextAfter]
           new == IF advance /\ active[r].nextAfter > active[r].after THEN {batch} ELSE {}
<1>1. j \in Jobs /\ runs[r] \in RunRow /\ runs[r].status = "running"
  BY DEF Types, RowTypes
<1>2. /\ runs' = [runs EXCEPT ![r].status = final]
      /\ consumed' = consumed \cup new
  BY DEF Record
<1>3. advance \in BOOLEAN /\ final \in Terminal
  BY DEF CanAdvance, Terminal
<1>4. advance => /\ final = "succeeded" /\ active[r].after # NoCursor
                 /\ jobs[j].cursor = active[r].after /\ ~runs[r].attention
  BY DEF CanAdvance
<1>5. final = "succeeded" => ~Stopped(r)
  OBVIOUS
<1>6. active[r].after \in Int /\ active[r].nextAfter \in Int
  BY DEF Types, ActiveTypes, ActiveRun
<1>7. /\ new \subseteq {batch} /\ (new # {} => advance)
      /\ batch \in Batch /\ batch.job = j /\ batch.run = r
      /\ batch.after = active[r].after /\ batch.nextAfter = active[r].nextAfter
  BY <1>1, <1>6 DEF Batch
<1>8. /\ jobs' \in [Jobs -> Job] /\ \A k \in Jobs \ {j} : jobs'[k] = jobs[k]
      /\ jobs'[j].cursor = CursorAfter(r, advance)
      /\ jobs'[j].armed = jobs[j].armed /\ (jobs[j].next = "none" => jobs'[j].next = "none")
  BY <1>1, RecordedJob DEF Types
<1> HIDE DEF advance, final, batch, new
<1>9. jobs'[j].cursor = IF advance THEN active[r].nextAfter ELSE jobs[j].cursor
  BY <1>8 DEF CursorAfter
<1>10. /\ runs' \in [Runs -> RunRow] /\ runs'[r].status = final /\ runs'[r].job = j
       /\ runs'[r].trigger = runs[r].trigger /\ runs'[r].attention = runs[r].attention
       /\ \A q \in Runs \ {r} : runs'[q] = runs[q]
  <2> DEFINE e == [runs[r] EXCEPT !.status = final]
  <2>1. /\ e \in RunRow /\ e.status = final /\ e.job = j /\ e.trigger = runs[r].trigger
        /\ e.attention = runs[r].attention
    BY <1>1, <1>3, StatusFacts
  <2>2. runs' = [runs EXCEPT ![r] = e]
    BY <1>2
  <2> HIDE DEF e
  <2> QED BY <2>1, <2>2 DEF Types, RowTypes
<1>11. RowTypes'
  BY <1>1, <1>2, <1>7, <1>8, <1>10 DEF Types, RowTypes
<1>12. RowsAge
  BY <1>1, <1>3, <1>5, <1>10 DEF RowsAge, RowAges, Terminal
<1>13. counter \in Nat /\ \A k \in Jobs : jobs[k].cursor \in Int
  BY DEF Types, RowTypes, Job
<1>14. advance => /\ 0 <= active[r].after /\ active[r].after <= active[r].nextAfter
                  /\ active[r].nextAfter <= counter
  BY <1>4 DEF BatchesAreRead
<1>15. BatchesAreRead'
  <2>1. \A k \in Jobs : jobs'[k].cursor # NoCursor => 0 <= jobs'[k].cursor /\ jobs'[k].cursor <= counter
    BY <1>6, <1>8, <1>9, <1>13, <1>14 DEF BatchesAreRead
  <2>2. \A q \in Runs : active'[q].after # NoCursor =>
           0 <= active'[q].after /\ active'[q].after <= active'[q].nextAfter /\ active'[q].nextAfter <= counter
    BY DEF BatchesKept, BatchesAreRead
  <2> QED BY <2>1, <2>2 DEF BatchesAreRead
<1>16. \A a \in consumed : /\ a.job \in Jobs /\ a.run \in Runs /\ a.nextAfter \in Int /\ a.after \in Int
                           /\ a.nextAfter <= counter
                           /\ jobs[a.job].cursor # NoCursor => a.nextAfter <= jobs[a.job].cursor
  BY DEF Types, RowTypes, Batch, ConsumedIsBehind
<1>17. advance => \A a \in consumed : a.job = j => a.nextAfter <= active[r].after
  BY <1>4, <1>16
<1>18. ConsumedIsBehind'
  <2>1. ASSUME NEW a \in consumed
        PROVE  a.nextAfter <= counter /\ (jobs'[a.job].cursor # NoCursor => a.nextAfter <= jobs'[a.job].cursor)
    <3>1. CASE a.job = j /\ advance
      BY <1>6, <1>8, <1>9, <1>14, <1>16, <1>17, <3>1
    <3>2. CASE ~(a.job = j /\ advance)
      BY <1>8, <1>9, <1>16, <3>2
    <3> QED BY <3>1, <3>2
  <2>2. advance => batch.nextAfter <= counter /\ batch.nextAfter <= jobs'[batch.job].cursor
    BY <1>6, <1>7, <1>9, <1>14
  <2>3. \A a \in consumed' : a \in consumed \/ (a = batch /\ advance)
    BY <1>2, <1>7
  <2> QED BY <2>1, <2>2, <2>3 DEF ConsumedIsBehind
<1>19. BatchesApart'
  <2>1. \A a \in consumed' : a \in consumed \/ (a = batch /\ advance)
    BY <1>2, <1>7
  <2>2. ASSUME NEW a \in consumed', NEW b \in consumed', a.job = b.job, a.run # b.run
        PROVE  a.nextAfter <= b.after \/ b.nextAfter <= a.after
    <3>1. CASE a \in consumed /\ b \in consumed
      BY <2>2, <3>1 DEF BatchesApart
    <3>2. CASE a \in consumed /\ b = batch /\ advance
      BY <1>7, <1>17, <2>2, <3>2
    <3>3. CASE b \in consumed /\ a = batch /\ advance
      BY <1>7, <1>17, <2>2, <3>3
    <3> QED BY <2>1, <2>2, <3>1, <3>2, <3>3
  <2>3. ASSUME NEW a \in consumed'
        PROVE  runs'[a.run].status \in {"succeeded", "deleted"} /\ ~runs'[a.run].attention
    <3>1. CASE a \in consumed
      <4>1. runs[a.run].status \in {"succeeded", "deleted"} /\ ~runs[a.run].attention /\ a.run \in Runs
        BY <1>16, <3>1 DEF BatchesApart
      <4>2. a.run # r
        BY <1>1, <4>1
      <4> QED BY <1>10, <4>1, <4>2
    <3>2. CASE a = batch /\ advance
      BY <1>4, <1>7, <1>10, <3>2
    <3> QED BY <2>1, <3>1, <3>2
  <2> QED BY <2>2, <2>3 DEF BatchesApart
<1>20. OneShotsCounted'
  <2> SUFFICES ASSUME NEW k \in OneShot
               PROVE  Cardinality(Started(k)') + (IF jobs'[k].next = "none" THEN 0 ELSE 1) <= jobs'[k].armed
    BY DEF OneShotsCounted
  <2>1. k \in Jobs /\ jobs[k].armed \in Nat
    BY SchedulerConstants DEF Types, RowTypes, Job
  <2>2. Started(k)' = Started(k)
    BY <1>12 DEF Started, RowsAge, RowAges
  <2>3. Cardinality(Started(k)) \in Nat
    <3>1. Started(k) \subseteq Runs
      BY DEF Started
    <3> QED BY <3>1, SchedulerConstants, FS_Subset, FS_CardinalityType
  <2>4. Cardinality(Started(k)) + (IF jobs[k].next = "none" THEN 0 ELSE 1) <= jobs[k].armed
    BY DEF OneShotsCounted
  <2>5. jobs'[k].armed = jobs[k].armed /\ (jobs[k].next = "none" => jobs'[k].next = "none")
    BY <1>8, <2>1
  <2> QED BY <2>1, <2>2, <2>3, <2>4, <2>5
<1> QED BY <1>11, <1>12, <1>15, <1>18, <1>19, <1>20

LEMMA FinalizeKeeps ==
    ASSUME Types, RowInv, NEW r \in Runs, NEW status \in Terminal, NEW consume \in BOOLEAN,
           consume => status = "succeeded" /\ active[r].after # NoCursor,
           status = "succeeded" => ~active[r].cancelled /\ ~active[r].timedOut,
           Finalize(r, status, consume), counter' = counter, ProcTypes', ActiveTypes', BatchesKept
    PROVE  RowTypes' /\ RowsAge /\ RowInv'
<1>1. CASE runs' = runs /\ jobs' = jobs /\ consumed' = consumed
  <2>1. RowTypes'
    BY <1>1 DEF Types, RowTypes
  <2>2. RowsAge
    BY <1>1, SameRowsAge DEF Types
  <2>3. counter \in Nat
    BY DEF Types, RowTypes
  <2>4. RowStep
    BY <1>1, <2>2, <2>3 DEF RowStep, BatchesKept
  <2> QED BY <2>1, <2>2, <2>4, RowStepKeeps DEF Types
<1>2. CASE runs' = Interrupted({r}) /\ jobs' = jobs /\ consumed' = consumed
  <2>1. RowTypes' /\ RowsAge
    BY <1>2, InterruptedAge DEF Types
  <2>2. counter \in Nat
    BY DEF Types, RowTypes
  <2>3. RowStep
    BY <1>2, <2>1, <2>2 DEF RowStep, BatchesKept
  <2> QED BY <2>1, <2>3, RowStepKeeps DEF Types
<1>3. CASE ~active[r].finalized /\ OwnsRun(r) /\ Record(r, status, consume)
  <2>1. runs[r].status = "running" /\ (status = "succeeded" => ~Stopped(r))
    BY <1>3 DEF OwnsRun, Stopped
  <2> QED BY <1>3, <2>1, RecordKeeps
<1> QED BY <1>1, <1>2, <1>3 DEF Finalize

-----------------------------------------------------------------------------
(***************************************************************************)
(* Steps that leave the claims alone but for their quarantine.             *)
(***************************************************************************)
LEMMA FlagsKeepClaims ==
    ASSUME Types, NEW S, claim' = Quarantined(S) \/ claim' = claim,
           lease' = lease, claimed' = claimed, proc' = proc, held' = held, step' = step, executing' = executing,
           active' \in [Runs -> ActiveRun],
           \A r \in Runs : \/ SameRun(active[r], active'[r])
                           \/ active[r].phase = "begun" /\ SameRunAt(active[r], active'[r], "live"),
           RowsAge
    PROVE  ProcTypes' /\ ActiveTypes' /\ BatchesKept /\ ClaimStep({})
<1>1. /\ claim' \in [Runs -> Claim]
      /\ \A r \in Runs : claim'[r].holder = claim[r].holder /\ claim'[r].gen = claim[r].gen
  BY QuarantinedFacts DEF Types, ProcTypes
<1>2. ProcTypes'
  BY <1>1 DEF Types, ProcTypes
<1>3. ActiveTypes' /\ BatchesKept
  BY DEF ActiveTypes, BatchesKept, SameRun, SameRunAt
<1>4. \A r \in Runs :
          /\ active'[r].owner = active[r].owner /\ active'[r].gen = active[r].gen
          /\ active'[r].phase = "none" <=> active[r].phase = "none"
          /\ active'[r].phase \in {active[r].phase, "live"} /\ active'[r].outcome = active[r].outcome
          /\ active'[r].phase = "starting" => active[r].phase = "starting"
  BY DEF SameRun, SameRunAt
<1>5. \A r \in Runs : /\ runs[r].status # "unused" => runs'[r].status # "unused" /\ runs'[r].job = runs[r].job
                      /\ runs'[r].status = "running" => runs[r].status = "running"
  BY DEF RowsAge, RowAges
<1>6. ClaimStep({})
  BY <1>1, <1>4, <1>5 DEF ClaimStep, Alive
<1> QED BY <1>2, <1>3, <1>6

LEMMA AttentionKeeps ==
    ASSUME SchedInv, NEW r \in Runs, Attention(r)
    PROVE  SchedInv' /\ RowsAge
<1> USE DEF SchedInv
<1>1. /\ lease' = lease /\ jobs' = jobs /\ claimed' = claimed /\ consumed' = consumed /\ proc' = proc
      /\ held' = held /\ step' = step /\ executing' = executing /\ counter' = counter
  BY DEF Attention, envVars
<1>2. CASE OwnsRun(r) /\ active' = [active EXCEPT ![r].attention = TRUE]
           /\ runs' = [runs EXCEPT ![r].attention = TRUE] /\ claim' = claim
  <2> DEFINE e == [active[r] EXCEPT !.attention = TRUE]
             row == [runs[r] EXCEPT !.attention = TRUE]
  <2>1. SameRun(active[r], e) /\ active' = [active EXCEPT ![r] = e]
    BY <1>2, ActiveWrites DEF Types, ActiveTypes
  <2>2. /\ row \in RunRow /\ row.status = runs[r].status /\ row.job = runs[r].job /\ row.trigger = runs[r].trigger
        /\ runs' = [runs EXCEPT ![r] = row] /\ runs[r].status = "running"
    BY <1>2 DEF Types, RowTypes, RunRow, OwnsRun
  <2> HIDE DEF e, row
  <2>3. active' \in [Runs -> ActiveRun] /\ \A q \in Runs : SameRun(active[q], active'[q])
    <3>1. e \in ActiveRun
      BY <2>1 DEF SameRun
    <3> QED BY <2>1, <3>1, ActiveWrites DEF Types, ActiveTypes
  <2>4. RowTypes' /\ RowsAge
    BY <1>1, <2>2 DEF Types, RowTypes, RowsAge, RowAges, Terminal
  <2>5. ProcTypes' /\ ActiveTypes' /\ BatchesKept /\ ClaimStep({})
    BY <1>1, <1>2, <2>3, <2>4, FlagsKeepClaims
  <2>6. counter \in Nat
    BY DEF Types, RowTypes
  <2>7. RowStep
    BY <1>1, <2>4, <2>5, <2>6 DEF RowStep, BatchesKept
  <2>8. Types'
    BY <2>4, <2>5 DEF Types
  <2> QED BY <2>4, <2>5, <2>7, <2>8, ClaimStepKeeps, RowStepKeeps
<1>3. CASE LoseOwnership({r})
  <2>1. active' = Fenced({r}) /\ claim' = Quarantined({r}) /\ runs' = Interrupted({r})
    BY <1>3 DEF LoseOwnership
  <2>2. active' \in [Runs -> ActiveRun] /\ \A q \in Runs : SameRun(active[q], active'[q])
    BY <2>1, FencedFacts DEF Types
  <2>3. RowTypes' /\ RowsAge
    BY <1>1, <2>1, InterruptedAge DEF Types
  <2>5. ProcTypes' /\ ActiveTypes' /\ BatchesKept /\ ClaimStep({})
    BY <1>1, <2>1, <2>2, <2>3, FlagsKeepClaims
  <2>6. counter \in Nat
    BY DEF Types, RowTypes
  <2>7. RowStep
    BY <1>1, <2>3, <2>5, <2>6 DEF RowStep, BatchesKept
  <2>8. Types'
    BY <2>3, <2>5 DEF Types
  <2> QED BY <2>3, <2>5, <2>7, <2>8, ClaimStepKeeps, RowStepKeeps
<1> QED BY <1>2, <1>3 DEF Attention

LEMMA TimeoutKeeps ==
    ASSUME SchedInv, NEW r \in Runs, Timeout(r)
    PROVE  SchedInv' /\ RowsAge
<1> USE DEF SchedInv
<1> DEFINE e == [active[r] EXCEPT !.timedOut = TRUE, !.aborted = TRUE]
<1>1. /\ lease' = lease /\ jobs' = jobs /\ runs' = runs /\ claimed' = claimed /\ consumed' = consumed
      /\ proc' = proc /\ held' = held /\ step' = step /\ executing' = executing /\ counter' = counter
      /\ claim' = Quarantined({r})
  BY DEF Timeout, envVars
<1>2. SameRun(active[r], e) /\ active' = [active EXCEPT ![r] = e]
  BY ActiveWrites DEF Types, ActiveTypes, Timeout
<1> HIDE DEF e
<1>3. active' \in [Runs -> ActiveRun] /\ \A q \in Runs : SameRun(active[q], active'[q])
  <2>1. e \in ActiveRun
    BY <1>2 DEF SameRun
  <2> QED BY <1>2, <2>1, ActiveWrites DEF Types, ActiveTypes
<1>4. RowTypes' /\ RowsAge
  BY <1>1, SameRowsAge DEF Types, RowTypes
<1>5. ProcTypes' /\ ActiveTypes' /\ BatchesKept /\ ClaimStep({})
  BY <1>1, <1>3, <1>4, FlagsKeepClaims
<1>6. counter \in Nat
  BY DEF Types, RowTypes
<1>7. RowStep
  BY <1>1, <1>4, <1>5, <1>6 DEF RowStep, BatchesKept
<1>8. Types'
  BY <1>4, <1>5 DEF Types
<1> QED BY <1>4, <1>5, <1>7, <1>8, ClaimStepKeeps, RowStepKeeps

LEMMA GraceKeeps ==
    ASSUME SchedInv, NEW r \in Runs, Grace(r)
    PROVE  SchedInv' /\ RowsAge
<1> USE DEF SchedInv
<1>1. /\ lease' = lease /\ claimed' = claimed /\ proc' = proc /\ held' = held /\ step' = step
      /\ executing' = executing /\ counter' = counter
      /\ claim' = Quarantined({r}) /\ active' = Fenced({r}) /\ Finalize(r, "timed_out", FALSE)
  BY DEF Grace, envVars
<1>2. active' \in [Runs -> ActiveRun] /\ \A q \in Runs : SameRun(active[q], active'[q])
  BY <1>1, FencedFacts DEF Types
<1>3. ActiveTypes' /\ BatchesKept
  BY <1>2 DEF ActiveTypes, BatchesKept, SameRun
<1>4. ProcTypes'
  BY <1>1, QuarantinedFacts DEF Types, ProcTypes
<1>5. RowTypes' /\ RowsAge /\ RowInv'
  BY <1>1, <1>3, <1>4, FinalizeKeeps DEF Terminal
<1>6. ClaimStep({})
  BY <1>1, <1>2, <1>5, FlagsKeepClaims
<1>7. Types'
  BY <1>3, <1>4, <1>5 DEF Types
<1> QED BY <1>5, <1>6, <1>7, ClaimStepKeeps

LEMMA HandleReturnedKeeps ==
    ASSUME SchedInv, NEW r \in Runs, HandleReturned(r)
    PROVE  SchedInv' /\ RowsAge
<1> USE DEF SchedInv
<1> DEFINE live == [active[r] EXCEPT !.phase = "live"]
           lost == [active[r] EXCEPT !.phase = "live", !.finalized = TRUE, !.aborted = TRUE]
<1>1. /\ lease' = lease /\ jobs' = jobs /\ claimed' = claimed /\ consumed' = consumed /\ proc' = proc
      /\ held' = held /\ step' = step /\ executing' = executing /\ counter' = counter /\ active[r].phase = "begun"
  BY DEF HandleReturned, envVars, Running
<1>2. /\ \/ active' = [active EXCEPT ![r] = live] \/ active' = [active EXCEPT ![r] = lost]
      /\ \/ runs' = runs /\ claim' = claim
         \/ runs' = Interrupted({r}) /\ claim' = Quarantined({r})
  BY DEF HandleReturned, Types, ActiveTypes
<1>3. SameRunAt(active[r], live, "live") /\ SameRunAt(active[r], lost, "live")
  BY PhaseWrites DEF Types, ActiveTypes, Phases
<1> HIDE DEF live, lost
<1>4. /\ active' \in [Runs -> ActiveRun] /\ SameRunAt(active[r], active'[r], "live")
      /\ \A q \in Runs \ {r} : SameRun(active[q], active'[q])
  <2>1. live \in ActiveRun /\ lost \in ActiveRun
    BY <1>3 DEF SameRunAt
  <2> QED BY <1>2, <1>3, <2>1, ActiveWrites DEF Types, ActiveTypes
<1>5. RowTypes' /\ RowsAge
  <2>1. CASE runs' = runs
    BY <1>1, <2>1, SameRowsAge DEF Types, RowTypes
  <2>2. CASE runs' = Interrupted({r})
    BY <1>1, <2>2, InterruptedAge DEF Types
  <2> QED BY <1>2, <2>1, <2>2
<1>6. ProcTypes' /\ ActiveTypes' /\ BatchesKept /\ ClaimStep({})
  <2>1. \A q \in Runs : \/ SameRun(active[q], active'[q])
                        \/ active[q].phase = "begun" /\ SameRunAt(active[q], active'[q], "live")
    BY <1>1, <1>4
  <2> QED BY <1>1, <1>2, <1>4, <1>5, <2>1, FlagsKeepClaims
<1>7. counter \in Nat
  BY DEF Types, RowTypes
<1>8. RowStep
  BY <1>1, <1>5, <1>6, <1>7 DEF RowStep, BatchesKept
<1>9. Types'
  BY <1>5, <1>6 DEF Types
<1> QED BY <1>5, <1>6, <1>8, <1>9, ClaimStepKeeps, RowStepKeeps

LEMMA AttachFailsKeeps ==
    ASSUME SchedInv, NEW r \in Runs, AttachFails(r)
    PROVE  SchedInv' /\ RowsAge
<1> USE DEF SchedInv
<1> DEFINE lost == [active[r] EXCEPT !.phase = "live", !.finalized = TRUE, !.aborted = TRUE]
<1>1. /\ lease' = lease /\ claimed' = claimed /\ proc' = proc
      /\ held' = held /\ step' = step /\ executing' = executing /\ counter' = counter
      /\ active[r].phase = "begun" /\ claim' = Quarantined({r}) /\ Finalize(r, "failed", FALSE)
  BY DEF AttachFails, envVars, Running
<1>2. active' = [active EXCEPT ![r] = lost]
  BY DEF AttachFails
<1>3. SameRunAt(active[r], lost, "live")
  BY PhaseWrites DEF Types, ActiveTypes, Phases
<1> HIDE DEF lost
<1>4. /\ active' \in [Runs -> ActiveRun] /\ SameRunAt(active[r], active'[r], "live")
      /\ \A q \in Runs \ {r} : SameRun(active[q], active'[q])
  <2>1. lost \in ActiveRun
    BY <1>3 DEF SameRunAt
  <2> QED BY <1>2, <1>3, <2>1, ActiveWrites DEF Types, ActiveTypes
<1>5. \A q \in Runs : \/ SameRun(active[q], active'[q])
                      \/ active[q].phase = "begun" /\ SameRunAt(active[q], active'[q], "live")
  BY <1>1, <1>4
<1>6. ActiveTypes' /\ BatchesKept
  BY <1>4, <1>5 DEF ActiveTypes, BatchesKept, SameRun, SameRunAt
<1>7. ProcTypes'
  BY <1>1, QuarantinedFacts DEF Types, ProcTypes
<1>8. RowTypes' /\ RowsAge /\ RowInv'
  BY <1>1, <1>6, <1>7, FinalizeKeeps DEF Terminal
<1>9. ClaimStep({})
  BY <1>1, <1>4, <1>5, <1>8, FlagsKeepClaims
<1>10. Types'
  BY <1>6, <1>7, <1>8 DEF Types
<1> QED BY <1>8, <1>9, <1>10, ClaimStepKeeps

-----------------------------------------------------------------------------
(***************************************************************************)
(* Controls of the user that only set flags.                               *)
(***************************************************************************)

\* Jobs whose cursor and count stay, and whose one-shot time is not set.
JobsKept ==
    /\ jobs' \in [Jobs -> Job]
    /\ \A j \in Jobs : /\ jobs'[j].cursor = jobs[j].cursor /\ jobs'[j].armed = jobs[j].armed
                       /\ j \in OneShot /\ jobs[j].next = "none" => jobs'[j].next = "none"

LEMMA JobRowGone ==
    ASSUME RowTypes, NEW j \in Jobs, jobs' = [jobs EXCEPT ![j].row = FALSE]
    PROVE  JobsKept
<1> DEFINE e == [jobs[j] EXCEPT !.row = FALSE]
<1>1. e \in Job /\ e.cursor = jobs[j].cursor /\ e.armed = jobs[j].armed /\ e.next = jobs[j].next
  BY DEF RowTypes, Job
<1>2. jobs' = [jobs EXCEPT ![j] = e]
  OBVIOUS
<1> HIDE DEF e
<1> QED BY <1>1, <1>2 DEF JobsKept, RowTypes

LEMMA FlagsKeep ==
    ASSUME SchedInv, NEW S, claim' = Quarantined(S) \/ claim' = claim,
           lease' = lease, claimed' = claimed, proc' = proc, held' = held, step' = step, executing' = executing,
           active' \in [Runs -> ActiveRun], \A r \in Runs : SameRun(active[r], active'[r]),
           JobsKept, RowTypes', RowsAge, consumed' = consumed, counter' = counter
    PROVE  SchedInv'
<1> USE DEF SchedInv
<1>1. ProcTypes' /\ ActiveTypes' /\ BatchesKept /\ ClaimStep({})
  BY FlagsKeepClaims
<1>2. counter \in Nat
  BY DEF Types, RowTypes
<1>3. RowStep
  BY <1>1, <1>2 DEF RowStep, BatchesKept, JobsKept
<1>4. Types'
  BY <1>1 DEF Types
<1> QED BY <1>1, <1>3, <1>4, ClaimStepKeeps, RowStepKeeps

LEMMA CancelRunKeeps ==
    ASSUME SchedInv, NEW i \in Instances, NEW j \in Jobs, CancelRun(i, j)
    PROVE  SchedInv' /\ RowsAge
<1> DEFINE hit == {r \in ActiveOf(i) : runs[r].job = j /\ ~active[r].finalized}
<1>1. /\ lease' = lease /\ jobs' = jobs /\ runs' = runs /\ claimed' = claimed /\ consumed' = consumed
      /\ proc' = proc /\ held' = held /\ step' = step /\ executing' = executing /\ counter' = counter
      /\ claim' = Quarantined(hit)
      /\ active' = [r \in Runs |-> IF r \in hit THEN [active[r] EXCEPT !.cancelled = TRUE, !.aborted = TRUE]
                                   ELSE active[r]]
  BY DEF CancelRun
<1> HIDE DEF hit
<1>2. Types
  BY DEF SchedInv
<1>3. \A r \in Runs : SameRun(active[r], active'[r])
  BY <1>1, <1>2, ActiveWrites DEF Types, ActiveTypes
<1>4. active' \in [Runs -> ActiveRun]
  BY <1>1, <1>3 DEF SameRun
<1>5. RowTypes' /\ RowsAge /\ JobsKept
  BY <1>1, <1>2, SameRowsAge DEF Types, RowTypes, JobsKept
<1> QED BY <1>1, <1>3, <1>4, <1>5, FlagsKeep

LEMMA DeleteJobKeeps ==
    ASSUME SchedInv, NEW i \in Instances, NEW j \in Jobs, DeleteJob(i, j)
    PROVE  SchedInv' /\ RowsAge
<1> DEFINE hit == {r \in ActiveOf(i) : runs[r].job = j}
<1>1. /\ lease' = lease /\ claimed' = claimed /\ consumed' = consumed
      /\ proc' = proc /\ held' = held /\ step' = step /\ executing' = executing /\ counter' = counter
      /\ claim' = Quarantined(hit) /\ jobs' = [jobs EXCEPT ![j].row = FALSE] /\ runs' = Deleted(j)
      /\ active' = [r \in Runs |-> IF r \in hit
                       THEN [active[r] EXCEPT !.cancelled = TRUE, !.aborted = TRUE, !.finalized = TRUE]
                       ELSE active[r]]
  BY DEF DeleteJob
<1> HIDE DEF hit
<1>2. Types
  BY DEF SchedInv
<1>3. \A r \in Runs : SameRun(active[r], active'[r])
  BY <1>1, <1>2, ActiveWrites DEF Types, ActiveTypes
<1>4. active' \in [Runs -> ActiveRun]
  BY <1>1, <1>3 DEF SameRun
<1>5. JobsKept
  BY <1>1, <1>2, JobRowGone DEF Types
<1>6. RowTypes' /\ RowsAge
  BY <1>1, <1>2, <1>5, DeletedAge DEF Types, RowTypes, JobsKept
<1> QED BY <1>1, <1>3, <1>4, <1>5, <1>6, FlagsKeep

LEMMA PurgeWorkspaceKeeps ==
    ASSUME SchedInv, NEW i \in Instances, NEW j \in Jobs, PurgeWorkspace(i, j)
    PROVE  SchedInv' /\ RowsAge
<1> DEFINE hit == {r \in ActiveOf(i) : runs[r].job = j /\ ~active[r].finalized}
<1>1. /\ lease' = lease /\ claimed' = claimed /\ consumed' = consumed
      /\ proc' = proc /\ held' = held /\ step' = step /\ executing' = executing /\ counter' = counter
      /\ claim' = claim /\ jobs' = [jobs EXCEPT ![j].row = FALSE] /\ runs' = Deleted(j)
      /\ active' = [r \in Runs |-> IF r \in hit THEN [active[r] EXCEPT !.cancelled = TRUE, !.aborted = TRUE]
                                   ELSE active[r]]
  BY DEF PurgeWorkspace
<1> HIDE DEF hit
<1>2. Types
  BY DEF SchedInv
<1>3. \A r \in Runs : SameRun(active[r], active'[r])
  BY <1>1, <1>2, ActiveWrites DEF Types, ActiveTypes
<1>4. active' \in [Runs -> ActiveRun]
  BY <1>1, <1>3 DEF SameRun
<1>5. JobsKept
  BY <1>1, <1>2, JobRowGone DEF Types
<1>6. RowTypes' /\ RowsAge
  BY <1>1, <1>2, <1>5, DeletedAge DEF Types, RowTypes, JobsKept
<1> QED BY <1>1, <1>3, <1>4, <1>5, <1>6, FlagsKeep

-----------------------------------------------------------------------------
(***************************************************************************)
(* Steps that leave runs, claims and the memory of the processes alone.    *)
(***************************************************************************)
LEMMA PassiveKeeps ==
    ASSUME SchedInv, active' = active, runs' = runs, claimed' = claimed, claim' = claim, consumed' = consumed,
           proc' = proc, held' = held, executing' \subseteq executing,
           lease' \in [holder : Instances \cup {NoOne}, gen : Nat, live : BOOLEAN],
           lease'.holder = lease.holder, lease'.gen = lease.gen, lease'.live => lease.live,
           step' \in [Instances -> {"idle", "sweep", "now"}],
           \A i \in Instances : step'[i] # "idle" => step'[i] = step[i],
           JobsKept, counter' \in Nat, counter <= counter'
    PROVE  SchedInv' /\ RowsAge
<1> USE DEF SchedInv
<1>1. RowTypes' /\ RowsAge
  BY SameRowsAge DEF Types, RowTypes, JobsKept
<1>2. Types'
  BY <1>1 DEF Types, ProcTypes, ActiveTypes
<1>3. ClaimStep({})
  BY DEF ClaimStep, Alive
<1>4. RowStep
  BY <1>1 DEF RowStep, JobsKept
<1> QED BY <1>1, <1>2, <1>3, <1>4, ClaimStepKeeps, RowStepKeeps

LEMMA JobNextFacts ==
    ASSUME RowTypes, NEW j \in Jobs, NEW next \in {"none", "later", "due"}, jobs[j].next # "none",
           jobs' = [jobs EXCEPT ![j].next = next]
    PROVE  JobsKept
<1> DEFINE e == [jobs[j] EXCEPT !.next = next]
<1>1. e \in Job /\ e.cursor = jobs[j].cursor /\ e.armed = jobs[j].armed
  BY DEF RowTypes, Job
<1>2. jobs' = [jobs EXCEPT ![j] = e]
  OBVIOUS
<1> HIDE DEF e
<1> QED BY <1>1, <1>2 DEF JobsKept, RowTypes

LEMMA TickSkipKeeps ==
    ASSUME SchedInv, NEW i \in Instances, NEW j \in Jobs, TickSkip(i, j)
    PROVE  SchedInv' /\ RowsAge
<1> DEFINE next == IF jobs[j].row THEN NextRun(j) ELSE jobs[j].next
           e == [jobs[j] EXCEPT !.next = next]
<1>1. /\ lease' = lease /\ runs' = runs /\ claimed' = claimed /\ claim' = claim /\ consumed' = consumed
      /\ proc' = proc /\ held' = held /\ step' = step /\ active' = active
      /\ executing' = executing /\ counter' = counter /\ jobs' = [jobs EXCEPT ![j] = e]
  BY DEF TickSkip, envVars
<1>2. /\ RowTypes /\ counter \in Nat /\ step \in [Instances -> {"idle", "sweep", "now"}]
      /\ lease \in [holder : Instances \cup {NoOne}, gen : Nat, live : BOOLEAN]
  BY DEF SchedInv, Types, RowTypes, ProcTypes
<1>3. /\ next \in {"none", "later", "due"}
      /\ j \in OneShot /\ jobs[j].next = "none" => next = "none"
  BY <1>2 DEF NextRun, RowTypes, Job
<1> HIDE DEF next
<1>4. e \in Job /\ e.cursor = jobs[j].cursor /\ e.armed = jobs[j].armed /\ e.next = next
  BY <1>2, <1>3 DEF RowTypes, Job
<1> HIDE DEF e
<1>5. JobsKept
  BY <1>1, <1>2, <1>3, <1>4 DEF JobsKept, RowTypes
<1> QED BY <1>1, <1>2, <1>5, PassiveKeeps

LEMMA BecomesDueKeeps ==
    ASSUME SchedInv, NEW j \in Jobs, BecomesDue(j)
    PROVE  SchedInv' /\ RowsAge
<1>1. /\ lease' = lease /\ runs' = runs /\ claimed' = claimed /\ claim' = claim /\ consumed' = consumed
      /\ proc' = proc /\ held' = held /\ step' = step /\ active' = active
      /\ executing' = executing /\ counter' = counter /\ jobs' = [jobs EXCEPT ![j].next = "due"]
      /\ jobs[j].next = "later"
  BY DEF BecomesDue, memVars, envVars
<1>2. /\ RowTypes /\ counter \in Nat /\ step \in [Instances -> {"idle", "sweep", "now"}]
      /\ lease \in [holder : Instances \cup {NoOne}, gen : Nat, live : BOOLEAN]
  BY DEF SchedInv, Types, RowTypes, ProcTypes
<1>3. JobsKept
  BY <1>1, <1>2, JobNextFacts
<1> QED BY <1>1, <1>2, <1>3, PassiveKeeps

\* A handler ends; a turn of the workspace completes; a job goes to Trash; the
\* lease expires; a turn of a process that is gone ends.
LEMMA QuietKeeps ==
    ASSUME SchedInv,
           \/ \E i \in Instances : TickEnd(i) \/ StartNowRefused(i)
           \/ TurnCompleted
           \/ \E j \in Jobs : TrashWorkspace(j)
           \/ LeaseExpires
           \/ \E r \in Runs : OrphanEnds(r)
    PROVE  SchedInv' /\ RowsAge
<1> USE DEF dbVars, memVars, envVars
<1>1. /\ RowTypes /\ counter \in Nat /\ step \in [Instances -> {"idle", "sweep", "now"}]
      /\ lease \in [holder : Instances \cup {NoOne}, gen : Nat, live : BOOLEAN]
  BY DEF SchedInv, Types, RowTypes, ProcTypes
<1>2. jobs' = jobs => JobsKept
  BY <1>1 DEF JobsKept, RowTypes
<1>3. ASSUME NEW i \in Instances, TickEnd(i) \/ StartNowRefused(i)
      PROVE  SchedInv' /\ RowsAge
  <2>1. /\ step' = [step EXCEPT ![i] = "idle"]
        /\ lease' = lease /\ jobs' = jobs /\ runs' = runs /\ claimed' = claimed /\ claim' = claim
        /\ consumed' = consumed /\ proc' = proc /\ held' = held /\ active' = active
        /\ executing' = executing /\ counter' = counter
    BY <1>3 DEF TickEnd, StartNowRefused
  <2>2. step' \in [Instances -> {"idle", "sweep", "now"}]
        /\ \A k \in Instances : step'[k] # "idle" => step'[k] = step[k]
    BY <1>1, <2>1
  <2> QED BY <1>1, <1>2, <2>1, <2>2, PassiveKeeps
<1>4. CASE TurnCompleted
  <2>1. /\ step' = step /\ lease' = lease /\ jobs' = jobs /\ runs' = runs /\ claimed' = claimed /\ claim' = claim
        /\ consumed' = consumed /\ proc' = proc /\ held' = held /\ active' = active
        /\ executing' = executing /\ counter' = counter + 1
    BY <1>4 DEF TurnCompleted
  <2>2. counter' \in Nat /\ counter <= counter'
    BY <1>1, <2>1
  <2> QED BY <1>1, <1>2, <2>1, <2>2, PassiveKeeps
<1>5. ASSUME NEW j \in Jobs, TrashWorkspace(j)
      PROVE  SchedInv' /\ RowsAge
  <2>1. /\ step' = step /\ lease' = lease /\ jobs' = jobs /\ runs' = runs /\ claimed' = claimed /\ claim' = claim
        /\ consumed' = consumed /\ proc' = proc /\ held' = held /\ active' = active
        /\ executing' = executing /\ counter' = counter
    BY <1>5 DEF TrashWorkspace
  <2> QED BY <1>1, <1>2, <2>1, PassiveKeeps
<1>6. CASE LeaseExpires
  <2>1. /\ lease' = [lease EXCEPT !.live = FALSE]
        /\ step' = step /\ jobs' = jobs /\ runs' = runs /\ claimed' = claimed /\ claim' = claim
        /\ consumed' = consumed /\ proc' = proc /\ held' = held /\ active' = active
        /\ executing' = executing /\ counter' = counter
    BY <1>6 DEF LeaseExpires
  <2>2. /\ lease' \in [holder : Instances \cup {NoOne}, gen : Nat, live : BOOLEAN]
        /\ lease'.holder = lease.holder /\ lease'.gen = lease.gen /\ lease'.live = FALSE
    BY <1>1, <2>1
  <2> QED BY <1>1, <1>2, <2>1, <2>2, PassiveKeeps
<1>7. ASSUME NEW r \in Runs, OrphanEnds(r)
      PROVE  SchedInv' /\ RowsAge
  <2>1. /\ step' = step /\ lease' = lease /\ jobs' = jobs /\ runs' = runs /\ claimed' = claimed /\ claim' = claim
        /\ consumed' = consumed /\ proc' = proc /\ held' = held /\ active' = active
        /\ executing' \subseteq executing /\ counter' = counter
    BY <1>7 DEF OrphanEnds
  <2> QED BY <1>1, <1>2, <2>1, PassiveKeeps
<1> QED BY <1>3, <1>4, <1>5, <1>6, <1>7

LEMMA TurnEndsKeeps ==
    ASSUME SchedInv, NEW r \in Runs, NEW outcome \in Outcomes, TurnEnds(r, outcome)
    PROVE  SchedInv' /\ RowsAge
<1> USE DEF SchedInv
<1> DEFINE e == [active[r] EXCEPT !.outcome = outcome]
<1>1. /\ step' = step /\ lease' = lease /\ jobs' = jobs /\ runs' = runs /\ claimed' = claimed /\ claim' = claim
      /\ consumed' = consumed /\ proc' = proc /\ held' = held /\ active' = [active EXCEPT ![r] = e]
      /\ executing' = executing \ {r} /\ counter' = counter
  BY DEF TurnEnds, dbVars
<1>2. /\ e \in ActiveRun /\ e.phase = active[r].phase /\ e.owner = active[r].owner /\ e.gen = active[r].gen
      /\ e.after = active[r].after /\ e.nextAfter = active[r].nextAfter
  BY DEF Types, ActiveTypes, ActiveRun
<1> HIDE DEF e
<1>3. /\ active' \in [Runs -> ActiveRun]
      /\ \A q \in Runs : /\ active'[q].phase = active[q].phase /\ active'[q].owner = active[q].owner
                         /\ active'[q].gen = active[q].gen /\ active'[q].after = active[q].after
                         /\ active'[q].nextAfter = active[q].nextAfter
                         /\ q # r => active'[q].outcome = active[q].outcome
      /\ active[r].phase # "starting"
  BY <1>1, <1>2 DEF Types, ActiveTypes, TurnEnds
<1>4. RowsAge
  BY <1>1, SameRowsAge DEF Types
<1>5. Types'
  BY <1>1, <1>3 DEF Types, RowTypes, ProcTypes, ActiveTypes
<1>6. ClaimStep({})
  BY <1>1, <1>3 DEF ClaimStep, Alive
<1>7. counter \in Nat
  BY DEF Types, RowTypes
<1>8. RowStep
  BY <1>1, <1>3, <1>4, <1>7 DEF RowStep
<1> QED BY <1>4, <1>5, <1>6, <1>8, ClaimStepKeeps, RowStepKeeps

-----------------------------------------------------------------------------
(***************************************************************************)
(* Processes come and go.                                                  *)
(***************************************************************************)
LEMMA StopKeeps ==
    ASSUME SchedInv, NEW i \in Instances, Stop(i)
    PROVE  SchedInv' /\ RowsAge
<1> USE DEF SchedInv
<1> DEFINE mine == ActiveOf(i)
           open == {r \in mine : ~active[r].finalized}
           spent(j) == \E r \in open : /\ OwnsRun(r) /\ runs[r].job = j
                                       /\ j \in OneShot /\ runs[r].trigger = "scheduled"
<1>1. /\ proc[i] = "up" /\ step[i] = "idle" /\ proc' = [proc EXCEPT ![i] = "stopped"]
      /\ held' = [held EXCEPT ![i] = 0] /\ runs' = Interrupted(open)
      /\ active' = Fenced(mine) /\ claim' = Quarantined(mine)
      /\ jobs' = [j \in Jobs |-> IF spent(j) THEN [jobs[j] EXCEPT !.enabled = FALSE, !.next = "none"] ELSE jobs[j]]
      /\ lease' = lease \/ lease' = [lease EXCEPT !.live = FALSE]
      /\ claimed' = claimed /\ consumed' = consumed /\ step' = step
      /\ executing' = executing /\ counter' = counter
  BY DEF Stop, Free
<1> HIDE DEF mine, open, spent
<1>2. /\ lease' \in [holder : Instances \cup {NoOne}, gen : Nat, live : BOOLEAN]
      /\ lease'.holder = lease.holder /\ lease'.gen = lease.gen /\ (lease'.live => lease.live)
  BY <1>1 DEF Types, ProcTypes
<1>3. /\ claim' \in [Runs -> Claim]
      /\ \A r \in Runs : claim'[r].holder = claim[r].holder /\ claim'[r].gen = claim[r].gen
  BY <1>1, QuarantinedFacts DEF Types
<1>4. active' \in [Runs -> ActiveRun] /\ \A r \in Runs : SameRun(active[r], active'[r])
  BY <1>1, FencedFacts DEF Types
<1>5. JobsKept
  <2>1. \A j \in Jobs : /\ [jobs[j] EXCEPT !.enabled = FALSE, !.next = "none"] \in Job
                        /\ [jobs[j] EXCEPT !.enabled = FALSE, !.next = "none"].cursor = jobs[j].cursor
                        /\ [jobs[j] EXCEPT !.enabled = FALSE, !.next = "none"].armed = jobs[j].armed
                        /\ [jobs[j] EXCEPT !.enabled = FALSE, !.next = "none"].next = "none"
    BY ZenonT(40) DEF Types, RowTypes, Job
  <2>2. \A j \in Jobs : jobs[j] \in Job
    BY DEF Types, RowTypes
  <2>3. \A j \in Jobs : /\ jobs'[j] \in Job /\ jobs'[j].cursor = jobs[j].cursor /\ jobs'[j].armed = jobs[j].armed
                        /\ jobs[j].next = "none" => jobs'[j].next = "none"
    BY <1>1, <2>1, <2>2
  <2> QED BY <1>1, <2>3 DEF JobsKept
<1>6. /\ runs' \in [Runs -> RunRow] /\ RowsAge
      /\ \A r \in Runs : runs'[r].status # "unused" => runs'[r].job \in Jobs
  <2>1. RowTypes /\ runs' = Interrupted(open)
    BY <1>1 DEF Types
  <2> QED BY <2>1, InterruptedRowsAge
<1>7. Types'
  <2>1. RowTypes'
    BY <1>1, <1>5, <1>6 DEF Types, RowTypes, JobsKept
  <2>2. ProcTypes'
    BY <1>1, <1>2, <1>3 DEF Types, ProcTypes
  <2> QED BY <1>4, <2>1, <2>2 DEF Types, ActiveTypes
<1>8. ClaimStep({})
  <2>1. \A k \in Instances : /\ Alive(k)' <=> Alive(k)
                             /\ proc[k] # "off" => proc'[k] # "off"
                             /\ step'[k] # "idle" => step'[k] = step[k] /\ held'[k] = held[k]
    BY <1>1 DEF Alive, Types, ProcTypes
  <2>2. \A r \in Runs :
          /\ active'[r].owner = active[r].owner /\ active'[r].gen = active[r].gen
          /\ active'[r].phase = active[r].phase /\ active'[r].outcome = active[r].outcome
    BY <1>4 DEF SameRun
  <2>3. \A r \in Runs : /\ runs[r].status # "unused" => runs'[r].status # "unused" /\ runs'[r].job = runs[r].job
                        /\ runs'[r].status = "running" => runs[r].status = "running"
    BY <1>6 DEF RowsAge, RowAges
  <2> QED BY <1>1, <1>2, <1>3, <2>1, <2>2, <2>3 DEF ClaimStep
<1>9. counter \in Nat
  BY DEF Types, RowTypes
<1>10. RowStep
  <2>1. consumed' = consumed /\ counter <= counter'
    <3>1. consumed' = consumed /\ counter' = counter
      BY <1>1
    <3> QED BY <1>9, <3>1
  <2>2. \A r \in Runs : active'[r].after = active[r].after /\ active'[r].nextAfter = active[r].nextAfter
    BY <1>4 DEF SameRun
  <2> QED BY <1>5, <1>6, <2>1, <2>2 DEF RowStep, JobsKept
<1> QED BY <1>6, <1>7, <1>8, <1>10, ClaimStepKeeps, RowStepKeeps

LEMMA BootKeeps ==
    ASSUME SchedInv, NEW i \in Instances, Boot(i)
    PROVE  SchedInv' /\ RowsAge
<1> USE DEF SchedInv, ClaimInv
<1>1. /\ proc[i] = "off" /\ proc' = [proc EXCEPT ![i] = "up"]
      /\ lease' = lease /\ jobs' = jobs /\ runs' = runs /\ claimed' = claimed /\ claim' = claim
      /\ consumed' = consumed /\ held' = held /\ step' = step /\ active' = active
      /\ executing' = executing /\ counter' = counter
  BY DEF Boot, dbVars, envVars
<1>2. Types' /\ RowsAge
  BY <1>1, SameRowsAge DEF Types, RowTypes, ProcTypes, ActiveTypes
<1>3. /\ ~Alive(i) /\ proc'[i] # "off"
      /\ \A k \in Instances \ {i} : (Alive(k)' <=> Alive(k)) /\ proc'[k] = proc[k]
      /\ \A k \in Instances : Alive(k) => Alive(k)'
  BY <1>1 DEF Alive, Types, ProcTypes
<1>4. HandlersHold'
  BY <1>1, <1>3 DEF HandlersHold
<1>5. ActiveIsClaimed'
  BY <1>1, <1>3 DEF ActiveIsClaimed, HoldsClaim, Alive
<1>6. Taken' = Taken
  BY <1>1 DEF Taken
<1>7. ClaimsAreKnown'
  <2>1. ASSUME NEW r \in Taken
        PROVE  /\ claim[r].holder \in Instances /\ proc'[claim[r].holder] # "off"
               /\ proc'[claim[r].holder] \in {"up", "stopped"} =>
                    active[r].phase # "none" /\ active[r].owner = claim[r].holder
    BY <1>1, <1>3 DEF ClaimsAreKnown, Alive
  <2> QED BY <1>1, <1>6, <2>1 DEF ClaimsAreKnown, Alive
<1>8. ClaimsExclude' /\ TurnsAreClaimed' /\ StartsOpen' /\ NoLostRun'
  BY <1>1, <1>6 DEF ClaimsExclude, TurnsAreClaimed, StartsOpen, NoLostRun, StillHolder, ActiveOf
<1>9. counter \in Nat
  BY DEF Types, RowTypes
<1>10. RowStep
  BY <1>1, <1>2, <1>9 DEF RowStep
<1> QED BY <1>2, <1>4, <1>5, <1>7, <1>8, <1>10, RowStepKeeps

LEMMA CrashKeeps ==
    ASSUME SchedInv, NEW i \in Instances, Crash(i)
    PROVE  SchedInv' /\ RowsAge
<1> USE DEF SchedInv, ClaimInv
<1>1. /\ proc' = [proc EXCEPT ![i] = "dead"] /\ held' = [held EXCEPT ![i] = 0]
      /\ step' = [step EXCEPT ![i] = "idle"]
      /\ active' = [r \in Runs |-> IF r \in ActiveOf(i) THEN NoActive ELSE active[r]]
      /\ executing' = IF ExitSafe THEN executing \ ActiveOf(i) ELSE executing
      /\ lease' = lease /\ jobs' = jobs /\ runs' = runs /\ claimed' = claimed /\ claim' = claim
      /\ consumed' = consumed /\ counter' = counter
  BY DEF Crash, dbVars
<1>2. /\ proc' \in [Instances -> {"off", "up", "stopped", "dead"}] /\ held' \in [Instances -> Nat]
      /\ step' \in [Instances -> {"idle", "sweep", "now"}]
      /\ ~Alive(i)' /\ proc'[i] # "off" /\ step'[i] = "idle"
      /\ \A k \in Instances \ {i} : /\ Alive(k)' <=> Alive(k)
                                    /\ proc'[k] = proc[k] /\ held'[k] = held[k] /\ step'[k] = step[k]
  BY <1>1 DEF Alive, Types, ProcTypes
<1>3. active' \in [Runs -> ActiveRun]
  BY <1>1, NoActiveFacts DEF Types, ActiveTypes
<1>4. \A r \in Runs : \/ active'[r] = active[r] /\ r \notin ActiveOf(i)
                      \/ active[r].owner = i /\ active[r].phase # "none" /\ r \in ActiveOf(i)
                         /\ active'[r].phase = "none" /\ active'[r].after = NoCursor
  BY <1>1, NoActiveFacts DEF ActiveOf
<1>5. \A r \in Runs : r \notin ActiveOf(i) => active[r].phase = "none" \/ active[r].owner # i
  BY DEF ActiveOf
<1>6. Types' /\ RowsAge
  BY <1>1, <1>2, <1>3, SameRowsAge DEF Types, RowTypes, ProcTypes, ActiveTypes
<1>7. HandlersHold'
  BY <1>1, <1>2 DEF HandlersHold
<1>8. ActiveIsClaimed'
  <2> SUFFICES ASSUME NEW r \in Runs, active'[r].phase # "none"
               PROVE  /\ active'[r].owner \in Instances /\ proc'[active'[r].owner] \in {"up", "stopped"}
                      /\ active'[r].gen > 0 /\ HoldsClaim(r)'
    BY DEF ActiveIsClaimed, Alive
  <2>1. active'[r] = active[r] /\ active[r].phase # "none" /\ active[r].owner # i
    BY <1>4, <1>5
  <2>2. active[r].owner \in Instances \ {i} /\ Alive(active[r].owner) /\ active[r].gen > 0 /\ HoldsClaim(r)
    BY <2>1 DEF ActiveIsClaimed
  <2> QED BY <1>1, <1>2, <2>1, <2>2 DEF HoldsClaim, Alive
<1>9. Taken' = Taken
  BY <1>1 DEF Taken
<1>10. ClaimsAreKnown'
  <2>1. ASSUME NEW r \in Taken
        PROVE  /\ claim[r].holder \in Instances /\ proc'[claim[r].holder] # "off"
               /\ proc'[claim[r].holder] \in {"up", "stopped"} =>
                    active'[r].phase # "none" /\ active'[r].owner = claim[r].holder
    <3>1. r \in Runs
      BY DEF Taken, Types, ProcTypes
    <3>2. PICK h \in Instances : h = claim[r].holder
      BY DEF ClaimsAreKnown
    <3>3. proc[h] # "off" /\ (Alive(h) => active[r].phase # "none" /\ active[r].owner = h)
      BY <3>2 DEF ClaimsAreKnown
    <3>4. CASE h = i
      BY <1>2, <3>2, <3>4 DEF Alive
    <3>5. CASE h # i
      BY <1>2, <1>4, <3>1, <3>2, <3>3, <3>5 DEF Alive
    <3> QED BY <3>4, <3>5
  <2> QED BY <1>1, <1>9, <2>1 DEF ClaimsAreKnown, Alive
<1>11. ClaimsExclude'
  BY <1>1, <1>9 DEF ClaimsExclude
<1>12. TurnsAreClaimed'
  <2> SUFFICES ASSUME NEW r \in executing'
               PROVE  /\ r \in Taken
                      /\ IF active'[r].phase = "none" THEN ~ExitSafe
                         ELSE active'[r].phase \in {"begun", "live"} /\ active'[r].outcome = "none"
    BY <1>9 DEF TurnsAreClaimed
  <2>1. r \in executing /\ r \in Runs /\ (ExitSafe => r \notin ActiveOf(i))
    BY <1>1 DEF Types, ProcTypes
  <2> QED BY <1>4, <2>1 DEF TurnsAreClaimed
<1>13. NoLostRun'
  <2> SUFFICES ASSUME NEW r \in Runs, NEW k \in Instances, runs'[r].status = "running", step'[k] = "sweep", StillHolder(k)'
               PROVE  active'[r].phase # "none" /\ active'[r].owner = k
    BY DEF NoLostRun, ActiveOf
  <2>1. k # i /\ runs[r].status = "running" /\ step[k] = "sweep" /\ StillHolder(k)
    BY <1>1, <1>2 DEF StillHolder
  <2>2. active[r].phase # "none" /\ active[r].owner = k
    BY <2>1 DEF NoLostRun, ActiveOf
  <2> QED BY <1>4, <2>1, <2>2
<1>14. counter \in Nat
  BY DEF Types, RowTypes
<1>15. RowStep
  BY <1>1, <1>4, <1>6, <1>14 DEF RowStep
<1>16. StartsOpen'
  BY <1>4 DEF StartsOpen
<1> QED BY <1>6, <1>7, <1>8, <1>10, <1>11, <1>12, <1>13, <1>15, <1>16, RowStepKeeps

-----------------------------------------------------------------------------
(***************************************************************************)
(* releaseEndedExecution.                                                  *)
(***************************************************************************)
LEMMA ReleaseTypes ==
    ASSUME Types, NEW r \in Runs, Release(r), lease' = lease, proc' = proc, held' = held, step' = step,
           executing' = executing
    PROVE  ProcTypes' /\ ActiveTypes' /\ BatchesKept
<1> USE NoActiveFacts
<1>1. CASE /\ claimed' = IF HoldsClaim(r) THEN claimed \ {r} ELSE claimed
           /\ claim' = IF HoldsClaim(r) THEN [claim EXCEPT ![r] = NoClaim] ELSE claim
           /\ active' = [active EXCEPT ![r] = NoActive]
  <2>1. claimed' \subseteq Runs /\ claim' \in [Runs -> Claim]
    BY <1>1 DEF Types, ProcTypes
  <2>2. ActiveTypes' /\ BatchesKept
    BY <1>1 DEF Types, ActiveTypes, BatchesKept
  <2> QED BY <2>1, <2>2 DEF Types, ProcTypes
<1>2. CASE /\ claim' = Quarantined({r}) /\ claimed' = claimed
           /\ active' = [active EXCEPT ![r].phase = "ended", ![r].finalized = TRUE]
  <2> DEFINE e == [active[r] EXCEPT !.phase = "ended", !.finalized = TRUE]
  <2>1. SameRunAt(active[r], e, "ended") /\ active' = [active EXCEPT ![r] = e]
    BY <1>2, PhaseWrites DEF Types, ActiveTypes, Phases
  <2> HIDE DEF e
  <2>2. e \in ActiveRun /\ e.after = active[r].after /\ e.nextAfter = active[r].nextAfter
    BY <2>1 DEF SameRunAt
  <2>3. ActiveTypes' /\ BatchesKept
    BY <2>1, <2>2 DEF Types, ActiveTypes, BatchesKept
  <2>4. ProcTypes'
    BY <1>2, QuarantinedFacts DEF Types, ProcTypes
  <2> QED BY <2>3, <2>4
<1> QED BY <1>1, <1>2 DEF Release

LEMMA ReleaseClaims ==
    ASSUME Types, ClaimInv, NEW r \in Runs, Release(r), active[r].phase # "none", Free(active[r].owner),
           r \notin executing, RowsAge, lease' = lease, proc' = proc, held' = held, step' = step,
           executing' = executing
    PROVE  \E F \in SUBSET Runs : ClaimStep(F)
<1> USE NoActiveFacts
<1>1. \A q \in Runs : /\ runs[q].status # "unused" => runs'[q].status # "unused" /\ runs'[q].job = runs[q].job
                      /\ runs'[q].status = "running" => runs[q].status = "running"
  BY DEF RowsAge, RowAges
<1>2. HoldsClaim(r) /\ step[active[r].owner] = "idle"
  BY DEF ClaimInv, ActiveIsClaimed, Free
<1>3. CASE /\ claimed' = IF HoldsClaim(r) THEN claimed \ {r} ELSE claimed
           /\ claim' = IF HoldsClaim(r) THEN [claim EXCEPT ![r] = NoClaim] ELSE claim
           /\ active' = [active EXCEPT ![r] = NoActive]
  <2>1. /\ claimed' = claimed \ {r} /\ active'[r].phase = "none"
        /\ \A q \in Runs \ {r} : claim'[q] = claim[q] /\ active'[q] = active[q]
    BY <1>2, <1>3 DEF Types, ProcTypes, ActiveTypes
  <2>2. ClaimStep({r})
    BY <1>1, <1>2, <2>1 DEF ClaimStep, Alive
  <2> QED BY <2>2
<1>4. CASE /\ claim' = Quarantined({r}) /\ claimed' = claimed
           /\ active' = [active EXCEPT ![r].phase = "ended", ![r].finalized = TRUE]
  <2> DEFINE e == [active[r] EXCEPT !.phase = "ended", !.finalized = TRUE]
  <2>1. SameRunAt(active[r], e, "ended") /\ active' = [active EXCEPT ![r] = e]
    BY <1>4, PhaseWrites DEF Types, ActiveTypes, Phases
  <2> HIDE DEF e
  <2>2. /\ active'[r].phase = "ended" /\ active'[r].owner = active[r].owner /\ active'[r].gen = active[r].gen
        /\ \A q \in Runs \ {r} : active'[q] = active[q]
    BY <2>1 DEF Types, ActiveTypes, SameRunAt
  <2>3. \A q \in Runs : claim'[q].holder = claim[q].holder /\ claim'[q].gen = claim[q].gen
    BY <1>4, QuarantinedFacts DEF Types
  <2>4. ClaimStep({})
    BY <1>1, <1>4, <2>2, <2>3 DEF ClaimStep, Alive
  <2> QED BY <2>4
<1> QED BY <1>3, <1>4 DEF Release

LEMMA ReleaseKeeps ==
    ASSUME SchedInv, NEW r \in Runs, NEW status \in Terminal, NEW consume \in BOOLEAN,
           consume => status = "succeeded" /\ active[r].after # NoCursor,
           status = "succeeded" => ~active[r].cancelled /\ ~active[r].timedOut,
           Finalize(r, status, consume), Release(r), active[r].phase # "none", Free(active[r].owner),
           r \notin executing, lease' = lease, proc' = proc, held' = held, step' = step,
           executing' = executing, counter' = counter
    PROVE  SchedInv' /\ RowsAge
<1> USE DEF SchedInv
<1>1. ProcTypes' /\ ActiveTypes' /\ BatchesKept
  BY ReleaseTypes
<1>2. RowTypes' /\ RowsAge /\ RowInv'
  BY <1>1, FinalizeKeeps
<1>3. Types'
  BY <1>1, <1>2 DEF Types
<1>4. PICK F \in SUBSET Runs : ClaimStep(F)
  BY <1>2, ReleaseClaims
<1>5. ClaimInv'
  BY <1>3, <1>4, ClaimStepKeeps
<1> QED BY <1>2, <1>3, <1>5

LEMMA StartFailsKeeps ==
    ASSUME SchedInv, NEW r \in Runs, StartFails(r)
    PROVE  SchedInv' /\ RowsAge
<1> DEFINE status == StopStatus(r, "failed")
<1>1. /\ active[r].phase = "starting" /\ Free(active[r].owner) /\ Finalize(r, status, FALSE) /\ Release(r)
      /\ lease' = lease /\ proc' = proc /\ held' = held /\ step' = step
      /\ executing' = executing /\ counter' = counter
  BY DEF StartFails, Running, envVars
<1>2. status \in Terminal /\ status # "succeeded"
  BY DEF StopStatus, Terminal
<1>3. r \notin executing
  BY <1>1 DEF SchedInv, ClaimInv, TurnsAreClaimed
<1> HIDE DEF status
<1> QED BY <1>1, <1>2, <1>3, ReleaseKeeps

LEMMA SettleKeeps ==
    ASSUME SchedInv, NEW r \in Runs, Settle(r)
    PROVE  SchedInv' /\ RowsAge
<1> DEFINE batch == active[r].after # NoCursor
           whole == active[r].outcome = "succeeded" /\ ~active[r].attention
           outcome == IF active[r].outcome = "failed" THEN "failed"
                      ELSE IF batch /\ ~whole THEN "failed" ELSE "succeeded"
           status == StopStatus(r, outcome)
           consume == batch /\ status = "succeeded"
<1>1. /\ active[r].phase = "live" /\ active[r].outcome # "none" /\ Free(active[r].owner)
      /\ Finalize(r, status, consume) /\ Release(r)
      /\ lease' = lease /\ proc' = proc /\ held' = held /\ step' = step
      /\ executing' = executing /\ counter' = counter
  BY DEF Settle, Running, envVars
<1>2. /\ status \in Terminal /\ consume \in BOOLEAN
      /\ status = "succeeded" => ~active[r].cancelled /\ ~active[r].timedOut
      /\ consume => status = "succeeded" /\ active[r].after # NoCursor
  BY DEF StopStatus, Terminal
<1>3. r \notin executing
  BY <1>1 DEF SchedInv, ClaimInv, TurnsAreClaimed
<1> HIDE DEF status, consume
<1> QED BY <1>1, <1>2, <1>3, ReleaseKeeps

LEMMA ConfirmStoppedKeeps ==
    ASSUME SchedInv, NEW r \in Runs, ConfirmStopped(r)
    PROVE  SchedInv' /\ RowsAge
<1> USE DEF SchedInv
<1>1. /\ claim[r].gen # 0 => ~Alive(claim[r].holder)
      /\ r \notin executing /\ claimed' = claimed \ {r} /\ claim' = [claim EXCEPT ![r] = NoClaim]
      /\ lease' = lease /\ jobs' = jobs /\ runs' = runs /\ consumed' = consumed /\ proc' = proc
      /\ held' = held /\ step' = step /\ active' = active /\ executing' = executing /\ counter' = counter
  BY DEF ConfirmStopped, memVars
<1>2. active[r].phase = "none"
  BY <1>1 DEF ClaimInv, ActiveIsClaimed, HoldsClaim
<1>3. /\ claimed' \subseteq Runs /\ claim' \in [Runs -> Claim]
      /\ \A q \in Runs \ {r} : claim'[q] = claim[q]
  BY <1>1, NoActiveFacts DEF Types, ProcTypes
<1>4. Types' /\ RowsAge
  BY <1>1, <1>3, SameRowsAge DEF Types, RowTypes, ProcTypes, ActiveTypes
<1>5. ClaimStep({r})
  BY <1>1, <1>2, <1>3 DEF ClaimStep, Alive
<1>6. counter \in Nat
  BY DEF Types, RowTypes
<1>7. RowStep
  BY <1>1, <1>4, <1>6 DEF RowStep
<1> QED BY <1>4, <1>5, <1>7, ClaimStepKeeps, RowStepKeeps

LEMMA StartTurnKeeps ==
    ASSUME SchedInv, NEW r \in Runs, StartTurn(r)
    PROVE  SchedInv' /\ RowsAge
<1> USE DEF SchedInv, ClaimInv
<1> DEFINE e == [active[r] EXCEPT !.phase = "begun"]
<1>1. /\ active[r].phase = "starting" /\ executing' = executing \cup {r} /\ active' = [active EXCEPT ![r] = e]
      /\ lease' = lease /\ jobs' = jobs /\ runs' = runs /\ claimed' = claimed /\ claim' = claim
      /\ consumed' = consumed /\ proc' = proc /\ held' = held /\ step' = step /\ counter' = counter
  BY DEF StartTurn, Running, dbVars
<1>2. SameRunAt(active[r], e, "begun")
  BY PhaseWrites DEF Types, ActiveTypes, Phases
<1> HIDE DEF e
<1>3. /\ active' \in [Runs -> ActiveRun] /\ active'[r].phase = "begun"
      /\ \A q \in Runs : /\ active'[q].owner = active[q].owner /\ active'[q].gen = active[q].gen
                         /\ active'[q].after = active[q].after /\ active'[q].nextAfter = active[q].nextAfter
                         /\ active'[q].outcome = active[q].outcome
                         /\ q # r => active'[q] = active[q]
  <2>1. /\ e \in ActiveRun /\ e.phase = "begun" /\ e.owner = active[r].owner /\ e.gen = active[r].gen
        /\ e.after = active[r].after /\ e.nextAfter = active[r].nextAfter /\ e.outcome = active[r].outcome
    BY <1>2 DEF SameRunAt
  <2> QED BY <1>1, <2>1 DEF Types, ActiveTypes
<1>4. Types' /\ RowsAge
  BY <1>1, <1>3, SameRowsAge DEF Types, RowTypes, ProcTypes, ActiveTypes
<1>5. HandlersHold'
  BY <1>1 DEF HandlersHold, Alive
<1>6. \A q \in Runs : active'[q].phase # "none" <=> active[q].phase # "none"
  BY <1>1, <1>3
<1>7. ActiveIsClaimed'
  BY <1>1, <1>3, <1>6 DEF ActiveIsClaimed, HoldsClaim, Alive
<1>8. Taken' = Taken /\ Taken \subseteq Runs
  BY <1>1 DEF Taken, Types, ProcTypes
<1>9. ClaimsAreKnown' /\ ClaimsExclude'
  BY <1>1, <1>3, <1>6, <1>8 DEF ClaimsAreKnown, ClaimsExclude, Alive
<1>10. TurnsAreClaimed'
  <2>1. r \in Taken
    BY <1>1 DEF ActiveIsClaimed, HoldsClaim, Taken
  <2>2. active'[r].outcome = "none"
    BY <1>1, <1>3 DEF StartsOpen
  <2>3. \A q \in executing : q \in Runs
    BY DEF Types, ProcTypes
  <2> QED BY <1>1, <1>3, <1>8, <2>1, <2>2, <2>3 DEF TurnsAreClaimed
<1>11. StartsOpen' /\ NoLostRun'
  BY <1>1, <1>3, <1>6 DEF StartsOpen, NoLostRun, ActiveOf, StillHolder
<1>12. counter \in Nat
  BY DEF Types, RowTypes
<1>13. RowStep
  BY <1>1, <1>3, <1>4, <1>12 DEF RowStep
<1> QED BY <1>4, <1>5, <1>7, <1>9, <1>10, <1>11, <1>13, RowStepKeeps

-----------------------------------------------------------------------------
(***************************************************************************)
(* updateJob.                                                              *)
(***************************************************************************)
LEMMA EditJobKeeps ==
    ASSUME SchedInv, NEW j \in Jobs, EditJob(j)
    PROVE  SchedInv' /\ RowsAge
<1> USE DEF SchedInv
<1>1. /\ lease' = lease /\ runs' = runs /\ claimed' = claimed /\ claim' = claim
      /\ consumed' = consumed /\ proc' = proc /\ held' = held /\ step' = step /\ active' = active
      /\ executing' = executing /\ counter' = counter
  BY DEF EditJob, memVars
<1>2. jobs[j] \in Job /\ counter \in Nat
  BY DEF Types, RowTypes
<1>3. PICK e \in Job :
         /\ jobs' = [jobs EXCEPT ![j] = e]
         /\ e.cursor \in {jobs[j].cursor, counter, NoCursor}
         /\ \/ e.armed = jobs[j].armed /\ (jobs[j].next = "none" => e.next = "none")
            \/ e.armed = jobs[j].armed + 1
  <2> DEFINE more == jobs[j].armed + 1
             off == [jobs[j] EXCEPT !.enabled = FALSE, !.next = "none"]
             on  == [jobs[j] EXCEPT !.enabled = TRUE, !.paused = FALSE, !.failures = 0,
                                    !.next = "later", !.armed = more]
             set == [jobs[j] EXCEPT !.next = "later", !.armed = more]
             cursor == IF jobs[j].cursor = NoCursor THEN counter ELSE NoCursor
             reads == [jobs[j] EXCEPT !.cursor = cursor]
  <2>1. \/ jobs' = [jobs EXCEPT ![j] = off] \/ jobs' = [jobs EXCEPT ![j] = on]
        \/ jobs' = [jobs EXCEPT ![j] = set] \/ jobs' = [jobs EXCEPT ![j] = reads]
    BY DEF EditJob
  <2>2. off \in Job /\ off.cursor = jobs[j].cursor /\ off.armed = jobs[j].armed /\ off.next = "none"
    BY <1>2 DEF Job
  <2>7. more \in Nat /\ more = jobs[j].armed + 1
    BY <1>2 DEF Job
  <2> HIDE DEF more
  <2>3. on \in Job /\ on.cursor = jobs[j].cursor /\ on.armed = more
    BY <1>2, <2>7 DEF Job
  <2>4. set \in Job /\ set.cursor = jobs[j].cursor /\ set.armed = more
    BY <1>2, <2>7 DEF Job
  <2>5. cursor \in Int /\ cursor \in {counter, NoCursor}
    BY <1>2 DEF NoCursor
  <2> HIDE DEF cursor
  <2>6. reads \in Job /\ reads.cursor = cursor /\ reads.armed = jobs[j].armed /\ reads.next = jobs[j].next
    BY <1>2, <2>5 DEF Job
  <2> HIDE DEF off, on, set, reads
  <2> QED BY <2>1, <2>2, <2>3, <2>4, <2>5, <2>6, <2>7
<1>4. /\ jobs' \in [Jobs -> Job] /\ jobs'[j] = e
      /\ \A k \in Jobs \ {j} : jobs'[k] = jobs[k]
  BY <1>3 DEF Types, RowTypes
<1>5. Types' /\ RowsAge
  BY <1>1, <1>4, SameRowsAge DEF Types, RowTypes, ProcTypes, ActiveTypes
<1>6. ClaimStep({})
  BY <1>1 DEF ClaimStep, Alive
<1>7. \A k \in Jobs : jobs[k].cursor \in Int /\ jobs[k].armed \in Nat
  BY DEF Types, RowTypes, Job
<1>8. BatchesAreRead'
  <2>1. \A k \in Jobs : jobs'[k].cursor # NoCursor => 0 <= jobs'[k].cursor /\ jobs'[k].cursor <= counter
    BY <1>2, <1>3, <1>4 DEF RowInv, BatchesAreRead
  <2> QED BY <1>1, <2>1 DEF RowInv, BatchesAreRead
<1>9. ConsumedIsBehind'
  <2>1. ASSUME NEW a \in consumed
        PROVE  a.nextAfter <= counter /\ (jobs'[a.job].cursor # NoCursor => a.nextAfter <= jobs'[a.job].cursor)
    <3>1. a.job \in Jobs /\ a.nextAfter \in Int
      BY DEF Types, RowTypes, Batch
    <3>2. a.nextAfter <= counter /\ (jobs[a.job].cursor # NoCursor => a.nextAfter <= jobs[a.job].cursor)
      BY DEF RowInv, ConsumedIsBehind
    <3>3. jobs'[a.job].cursor \in {jobs[a.job].cursor, counter, NoCursor}
      BY <1>3, <1>4, <3>1
    <3> QED BY <3>2, <3>3
  <2> QED BY <1>1, <2>1 DEF ConsumedIsBehind
<1>10. BatchesApart'
  BY <1>1 DEF RowInv, BatchesApart
<1>11. OneShotsCounted'
  <2> SUFFICES ASSUME NEW k \in OneShot
               PROVE  Cardinality(Started(k)') + (IF jobs'[k].next = "none" THEN 0 ELSE 1) <= jobs'[k].armed
    BY DEF OneShotsCounted
  <2>1. k \in Jobs /\ jobs[k].armed \in Nat
    BY <1>7, SchedulerConstants
  <2>2. Started(k)' = Started(k)
    BY <1>1 DEF Started
  <2>3. Cardinality(Started(k)) \in Nat
    <3>1. Started(k) \subseteq Runs
      BY DEF Started
    <3> QED BY <3>1, SchedulerConstants, FS_Subset, FS_CardinalityType
  <2>4. Cardinality(Started(k)) + (IF jobs[k].next = "none" THEN 0 ELSE 1) <= jobs[k].armed
    BY DEF RowInv, OneShotsCounted
  <2>5. \/ jobs'[k].armed = jobs[k].armed /\ (jobs[k].next = "none" => jobs'[k].next = "none")
        \/ jobs'[k].armed = jobs[k].armed + 1
    BY <1>3, <1>4, <2>1
  <2> QED BY <2>1, <2>2, <2>3, <2>4, <2>5
<1> QED BY <1>5, <1>6, <1>8, <1>9, <1>10, <1>11, ClaimStepKeeps DEF RowInv

-----------------------------------------------------------------------------
(***************************************************************************)
(* acquireOwnership.                                                       *)
(***************************************************************************)
LEMMA EndedFacts ==
    ASSUME Types, ClaimInv, NEW i \in Instances, NEW ended \in SUBSET {r \in ActiveOf(i) : active[r].phase = "ended"}
    PROVE  /\ KeptClaims(ended) = claimed \ ended /\ ended \subseteq claimed /\ ended \subseteq Runs
           /\ executing \cap ended = {}
           /\ \A r \in ended : active[r].phase = "ended" /\ active[r].owner = i
<1>1. \A r \in ended : r \in Runs /\ active[r].phase = "ended" /\ active[r].owner = i
  BY DEF ActiveOf
<1>2. \A r \in ended : HoldsClaim(r)
  BY <1>1 DEF ClaimInv, ActiveIsClaimed
<1>3. executing \cap ended = {}
  BY <1>1 DEF ClaimInv, TurnsAreClaimed
<1> QED BY <1>1, <1>2, <1>3 DEF KeptClaims, HoldsClaim

LEMMA LeaseRefusedKeeps ==
    ASSUME SchedInv, NEW i \in Instances, NEW ended \in SUBSET {r \in ActiveOf(i) : active[r].phase = "ended"},
           LeaseRefused(i, ended), step[i] = "idle",
           step' = step, jobs' = jobs, consumed' = consumed, proc' = proc, executing' = executing, counter' = counter
    PROVE  SchedInv' /\ RowsAge
<1> USE DEF SchedInv
<1> DEFINE lost == ActiveOf(i) \ ended
<1>1. /\ held' = [held EXCEPT ![i] = 0] /\ runs' = Interrupted(lost) /\ lease' = lease
      /\ active' = [r \in Runs |-> IF r \in ended THEN NoActive ELSE Fenced(lost)[r]]
      /\ claimed' = KeptClaims(ended)
      /\ claim' = [r \in Runs |-> IF r \in claimed \ KeptClaims(ended) THEN NoClaim ELSE Quarantined(lost)[r]]
  BY DEF LeaseRefused
<1> HIDE DEF lost
<1>2. /\ KeptClaims(ended) = claimed \ ended /\ ended \subseteq claimed /\ ended \subseteq Runs
      /\ executing \cap ended = {}
      /\ \A r \in ended : active[r].phase = "ended" /\ active[r].owner = i
  BY EndedFacts
<1>3. RowTypes' /\ RowsAge
  BY <1>1, InterruptedAge DEF Types
<1>4. /\ claimed' = claimed \ ended /\ claim' \in [Runs -> Claim]
      /\ \A r \in Runs \ ended : claim'[r].holder = claim[r].holder /\ claim'[r].gen = claim[r].gen
  BY <1>1, <1>2, NoActiveFacts, QuarantinedFacts DEF Types
<1>5. active' \in [Runs -> ActiveRun] /\ \A r \in Runs \ ended : SameRun(active[r], active'[r])
  BY <1>1, NoActiveFacts, FencedFacts DEF Types
<1>6. \A r \in ended : active'[r].phase = "none" /\ active'[r].after = NoCursor
  BY <1>1, <1>2, NoActiveFacts
<1>7. Types'
  <2>1. ProcTypes'
    BY <1>1, <1>4 DEF Types, ProcTypes
  <2> QED BY <1>3, <1>5, <2>1 DEF Types, ActiveTypes
<1>8. ClaimStep(ended)
  <2>1. \A k \in Instances : step'[k] # "idle" => step'[k] = step[k] /\ held'[k] = held[k]
    BY <1>1 DEF Types, ProcTypes
  <2>2. \A r \in Runs \ ended :
          /\ active'[r].owner = active[r].owner /\ active'[r].gen = active[r].gen
          /\ active'[r].phase = active[r].phase /\ active'[r].outcome = active[r].outcome
    BY <1>5 DEF SameRun
  <2>3. \A r \in Runs : /\ runs[r].status # "unused" => runs'[r].status # "unused" /\ runs'[r].job = runs[r].job
                        /\ runs'[r].status = "running" => runs[r].status = "running"
    BY <1>3 DEF RowsAge, RowAges
  <2> QED BY <1>1, <1>2, <1>4, <1>6, <2>1, <2>2, <2>3 DEF ClaimStep, Alive
<1>9. counter \in Nat
  BY DEF Types, RowTypes
<1>10. \A r \in Runs : \/ active'[r].after = NoCursor
                       \/ active'[r].after = active[r].after /\ active'[r].nextAfter = active[r].nextAfter
  BY <1>5, <1>6 DEF SameRun
<1>11. RowStep
  BY <1>3, <1>9, <1>10 DEF RowStep
<1> QED BY <1>2, <1>3, <1>7, <1>8, <1>11, ClaimStepKeeps, RowStepKeeps

\* What acquireOwnership leaves, with the runs E released by this tick, the
\* rows made strays and the claims reaped.
LEMMA LeaseAcquiredKeeps ==
    ASSUME SchedInv, NEW i \in Instances, NEW ended \in SUBSET {r \in ActiveOf(i) : active[r].phase = "ended"},
           LeaseAcquired(i, ended), Alive(i), NEW at \in {"sweep", "now"}, step' = [step EXCEPT ![i] = at],
           jobs' = jobs, consumed' = consumed, proc' = proc, executing' = executing, counter' = counter
    PROVE  SchedInv' /\ RowsAge
<1> USE DEF SchedInv, ClaimInv
<1> DEFINE gen    == IF lease.holder = i /\ lease.live THEN lease.gen ELSE lease.gen + 1
           lost   == IF held[i] \in {0, gen} THEN {} ELSE ActiveOf(i) \ ended
           kept   == KeptClaims(ended)
           mine   == {r \in kept : claim[r].holder = i /\ claim[r].gen = gen}
           stale  == StaleRuns(mine)
           strays == stale \ kept
<1>1. /\ lease' = [holder |-> i, gen |-> gen, live |-> TRUE] /\ held' = [held EXCEPT ![i] = gen]
      /\ active' = [r \in Runs |-> IF r \in ended THEN NoActive ELSE Fenced(lost)[r]]
      /\ runs' = [r \in Runs |-> IF r \in stale THEN [runs[r] EXCEPT !.status = "interrupted"] ELSE runs[r]]
  BY DEF LeaseAcquired
<1>2. PICK reaped \in SUBSET Exited(i, kept \ mine) :
         /\ claimed' = (kept \cup strays) \ reaped
         /\ claim' = [r \in Runs |->
               IF r \in strays THEN [NoClaim EXCEPT !.quarantined = TRUE]
               ELSE IF r \notin kept \/ r \in reaped THEN NoClaim
               ELSE IF r \in mine THEN claim[r]
               ELSE [claim[r] EXCEPT !.quarantined = TRUE]]
  BY DEF LeaseAcquired
<1>3. gen \in Nat /\ gen > 0
  <2>1. lease.gen \in Nat /\ (lease.live => lease.gen > 0)
    BY DEF Types, ProcTypes, HandlersHold
  <2> QED BY <2>1
<1>4. /\ kept = claimed \ ended /\ ended \subseteq claimed /\ ended \subseteq Runs
      /\ executing \cap ended = {}
      /\ \A r \in ended : active[r].phase = "ended" /\ active[r].owner = i
  BY EndedFacts
<1>5. \A r \in Runs : (r \in stale <=> runs[r].status = "running" /\ r \notin mine)
  BY DEF StaleRuns
<1>6. stale \subseteq Runs /\ strays \subseteq stale /\ strays \cap kept = {}
  BY DEF StaleRuns
<1>7. \A r \in mine : r \in kept /\ claim[r].holder = i /\ claim[r].gen = gen
  OBVIOUS
<1>8. \A r \in reaped : r \in kept /\ r \notin mine /\ ExitSafe /\ ~Alive(claim[r].holder)
  BY <1>2 DEF Exited
<1> HIDE DEF gen, lost, kept, mine, stale, strays
<1>9. RowTypes' /\ RowsAge
  <2>1. \A r \in Runs : /\ [runs[r] EXCEPT !.status = "interrupted"] \in RunRow
                        /\ [runs[r] EXCEPT !.status = "interrupted"].status = "interrupted"
                        /\ [runs[r] EXCEPT !.status = "interrupted"].job = runs[r].job
                        /\ [runs[r] EXCEPT !.status = "interrupted"].trigger = runs[r].trigger
                        /\ [runs[r] EXCEPT !.status = "interrupted"].attention = runs[r].attention
    BY ZenonT(40), StatusFacts DEF Types, RowTypes, Terminal
  <2>2. \A r \in Runs :
           /\ runs'[r] \in RunRow
           /\ runs'[r].job = runs[r].job /\ runs'[r].trigger = runs[r].trigger
           /\ runs'[r].attention = runs[r].attention
           /\ \/ runs'[r].status = runs[r].status
              \/ runs[r].status = "running" /\ runs'[r].status = "interrupted"
    BY <1>1, <1>5, <2>1 DEF Types, RowTypes
  <2>3. runs' \in [Runs -> RunRow]
    BY <1>1, <2>2
  <2>4. RowsAge
    BY <2>2 DEF RowsAge, RowAges, Terminal
  <2> QED BY <2>2, <2>3, <2>4 DEF Types, RowTypes
<1>10. /\ active' \in [Runs -> ActiveRun] /\ \A r \in Runs \ ended : SameRun(active[r], active'[r])
       /\ \A r \in ended : active'[r].phase = "none" /\ active'[r].after = NoCursor
  BY <1>1, <1>4, NoActiveFacts, FencedFacts DEF Types
<1>11. \A r \in Runs \ ended :
          /\ active'[r].phase = active[r].phase /\ active'[r].owner = active[r].owner
          /\ active'[r].gen = active[r].gen /\ active'[r].outcome = active[r].outcome
          /\ active'[r].after = active[r].after /\ active'[r].nextAfter = active[r].nextAfter
  BY <1>10 DEF SameRun
<1>12. /\ claim' \in [Runs -> Claim]
       /\ \A r \in kept \ reaped : claim'[r].holder = claim[r].holder /\ claim'[r].gen = claim[r].gen
       /\ \A r \in strays : claim'[r].gen = 0
  <2>1. /\ [NoClaim EXCEPT !.quarantined = TRUE] \in Claim /\ [NoClaim EXCEPT !.quarantined = TRUE].gen = 0
        /\ NoClaim \in Claim
    BY DEF NoClaim, Claim
  <2>2. \A r \in Runs : /\ [claim[r] EXCEPT !.quarantined = TRUE] \in Claim /\ claim[r] \in Claim
                        /\ [claim[r] EXCEPT !.quarantined = TRUE].holder = claim[r].holder
                        /\ [claim[r] EXCEPT !.quarantined = TRUE].gen = claim[r].gen
    BY DEF Types, ProcTypes, Claim
  <2>3. kept \subseteq Runs /\ strays \subseteq Runs
    BY <1>4, <1>6 DEF Types, ProcTypes
  <2>4. \A r \in Runs : claim'[r] \in Claim
    BY <1>2, <2>1, <2>2
  <2>5. \A r \in kept \ reaped : claim'[r] = claim[r] \/ claim'[r] = [claim[r] EXCEPT !.quarantined = TRUE]
    BY <1>2, <1>6, <2>3
  <2>6. \A r \in strays : claim'[r] = [NoClaim EXCEPT !.quarantined = TRUE]
    BY <1>2, <2>3
  <2>7. claim' \in [Runs -> Claim]
    BY <1>2, <2>4
  <2> QED BY <2>1, <2>2, <2>3, <2>5, <2>6, <2>7
<1>13. /\ held' \in [Instances -> Nat] /\ held'[i] = gen /\ step' \in [Instances -> {"idle", "sweep", "now"}]
       /\ \A k \in Instances \ {i} : held'[k] = held[k] /\ step'[k] = step[k]
  BY <1>1, <1>3 DEF Types, ProcTypes
<1>14. Types'
  <2>1. lease' \in [holder : Instances \cup {NoOne}, gen : Nat, live : BOOLEAN]
    BY <1>1, <1>3
  <2>2. claimed' \subseteq Runs
    BY <1>2, <1>4, <1>6 DEF Types, ProcTypes
  <2> QED BY <1>9, <1>10, <1>12, <1>13, <2>1, <2>2 DEF Types, ProcTypes, ActiveTypes
<1>15. lease'.holder = i /\ lease'.gen = gen /\ lease'.live
  BY <1>1
<1>16. HandlersHold'
  BY <1>3, <1>13, <1>15 DEF HandlersHold, Alive
<1>17. /\ Taken \subseteq Runs /\ Taken \subseteq claimed /\ \A r \in Taken : claim[r].gen > 0
       /\ Taken' = Taken \ (ended \cup reaped)
  <2>1. Taken \subseteq Runs /\ Taken \subseteq claimed /\ \A r \in Taken : claim[r].gen > 0
    BY DEF Taken, Types, ProcTypes
  <2>2. \A r \in strays : r \notin Taken'
    BY <1>12 DEF Taken
  <2>3. \A r \in Taken' : r \in Taken /\ r \in kept /\ r \notin reaped
    BY <1>2, <1>4, <1>12, <2>2 DEF Taken
  <2>4. \A r \in Taken : r \in kept \ reaped => r \in Taken'
    BY <1>2, <1>12 DEF Taken
  <2> QED BY <1>4, <2>1, <2>3, <2>4
<1>18. ActiveIsClaimed'
  <2> SUFFICES ASSUME NEW r \in Runs, active'[r].phase # "none"
               PROVE  /\ active'[r].owner \in Instances /\ proc'[active'[r].owner] \in {"up", "stopped"}
                      /\ active'[r].gen > 0
                      /\ r \in claimed' /\ claim'[r].holder = active'[r].owner /\ claim'[r].gen = active'[r].gen
    BY DEF ActiveIsClaimed, Alive, HoldsClaim
  <2>1. r \notin ended /\ active[r].phase # "none"
    BY <1>10, <1>11
  <2>2. /\ active[r].owner \in Instances /\ Alive(active[r].owner) /\ active[r].gen > 0
        /\ r \in claimed /\ claim[r].holder = active[r].owner /\ claim[r].gen = active[r].gen
    BY <2>1 DEF ActiveIsClaimed, HoldsClaim
  <2>3. r \in kept \ reaped
    BY <1>4, <1>8, <2>1, <2>2
  <2> QED BY <1>2, <1>11, <1>12, <2>1, <2>2, <2>3 DEF Alive
<1>19. ClaimsAreKnown'
  <2>1. \A r \in claimed' : runs'[r].status # "unused"
    <3>1. \A r \in claimed' : r \in Runs /\ runs[r].status # "unused"
      BY <1>2, <1>4, <1>5, <1>6 DEF ClaimsAreKnown, Types, ProcTypes
    <3> QED BY <1>9, <3>1 DEF RowsAge, RowAges
  <2>2. ASSUME NEW r \in Taken'
        PROVE  /\ claim'[r].holder \in Instances /\ proc'[claim'[r].holder] # "off"
               /\ proc'[claim'[r].holder] \in {"up", "stopped"} =>
                     active'[r].phase # "none" /\ active'[r].owner = claim'[r].holder
    <3>1. r \in Taken /\ r \in Runs \ ended /\ r \in kept \ reaped
      BY <1>4, <1>17
    <3> QED BY <1>11, <1>12, <3>1 DEF ClaimsAreKnown, Alive
  <2> QED BY <2>1, <2>2 DEF ClaimsAreKnown, Alive
<1>20. ClaimsExclude'
  <2>1. \A q, r \in Taken' : runs'[q].job = runs'[r].job => q = r
    BY <1>9, <1>17 DEF ClaimsExclude, RowsAge, RowAges
  <2>2. IsFiniteSet(Taken)
    BY <1>17, SchedulerConstants, FS_Subset
  <2>3. Cardinality(Taken') <= Cardinality(Taken) /\ Cardinality(Taken') \in Nat /\ Cardinality(Taken) \in Nat
    BY <1>17, <2>2, FS_Subset, FS_CardinalityType
  <2> QED BY <2>1, <2>3, SchedulerConstants DEF ClaimsExclude
<1>21. TurnsAreClaimed'
  <2> SUFFICES ASSUME NEW r \in executing
               PROVE  /\ r \in Taken'
                      /\ IF active'[r].phase = "none" THEN ~ExitSafe
                         ELSE active'[r].phase \in {"begun", "live"} /\ active'[r].outcome = "none"
    BY DEF TurnsAreClaimed
  <2>1. r \in Runs \ ended /\ r \in Taken
    BY <1>4 DEF TurnsAreClaimed, Types, ProcTypes
  <2>2. IF active[r].phase = "none" THEN ~ExitSafe
        ELSE active[r].phase \in {"begun", "live"} /\ active[r].outcome = "none"
    BY DEF TurnsAreClaimed
  <2>3. r \notin reaped
    <3>1. ASSUME r \in reaped PROVE FALSE
      <4>1. ExitSafe /\ ~Alive(claim[r].holder)
        BY <1>8, <3>1
      <4>2. Alive(claim[r].holder)
        BY <2>1, <2>2, <4>1 DEF ActiveIsClaimed, HoldsClaim
      <4> QED BY <4>1, <4>2
    <3> QED BY <3>1
  <2> QED BY <1>11, <1>17, <2>1, <2>2, <2>3
<1>22. StartsOpen'
  BY <1>10, <1>11 DEF StartsOpen
<1>23. NoLostRun'
  <2> SUFFICES ASSUME NEW r \in Runs, NEW k \in Instances, runs'[r].status = "running", StillHolder(k)'
               PROVE  active'[r].phase # "none" /\ active'[r].owner = k
    BY DEF NoLostRun, ActiveOf
  <2>1. k = i
    BY <1>15 DEF StillHolder
  <2>2. r \notin stale
    BY <1>1, StatusFacts DEF Types, RowTypes, Terminal
  <2>3. runs[r].status = "running"
    BY <1>9 DEF RowsAge, RowAges
  <2>4. r \in mine
    BY <1>5, <2>2, <2>3
  <2>5. r \in Taken /\ claim[r].holder = i /\ r \notin ended
    BY <1>3, <1>4, <1>7, <2>4 DEF Taken
  <2>6. active[r].phase # "none" /\ active[r].owner = i
    BY <2>5 DEF ClaimsAreKnown
  <2> QED BY <1>11, <2>1, <2>5, <2>6
<1>24. counter \in Nat
  BY DEF Types, RowTypes
<1>25. RowStep
  BY <1>9, <1>10, <1>11, <1>24 DEF RowStep
<1> QED BY <1>9, <1>14, <1>16, <1>18, <1>19, <1>20, <1>21, <1>22, <1>23, <1>25, RowStepKeeps

LEMMA TickBeginKeeps ==
    ASSUME SchedInv, NEW i \in Instances, TickBegin(i)
    PROVE  SchedInv' /\ RowsAge
<1> DEFINE ended == {r \in ActiveOf(i) : active[r].phase = "ended"}
<1>1. /\ Alive(i) /\ step[i] = "idle"
      /\ \/ LeaseAcquired(i, ended) /\ step' = [step EXCEPT ![i] = "sweep"]
         \/ LeaseRefused(i, ended) /\ step' = step
      /\ jobs' = jobs /\ consumed' = consumed /\ proc' = proc /\ executing' = executing /\ counter' = counter
  BY DEF TickBegin, Free, envVars
<1>2. ended \in SUBSET {r \in ActiveOf(i) : active[r].phase = "ended"}
  OBVIOUS
<1> HIDE DEF ended
<1>3. CASE LeaseAcquired(i, ended) /\ step' = [step EXCEPT ![i] = "sweep"]
  BY <1>1, <1>2, <1>3, LeaseAcquiredKeeps
<1>4. CASE LeaseRefused(i, ended) /\ step' = step
  BY <1>1, <1>2, <1>4, LeaseRefusedKeeps
<1> QED BY <1>1, <1>3, <1>4

LEMMA StartNowBeginKeeps ==
    ASSUME SchedInv, NEW i \in Instances, NEW j \in Jobs, StartNowBegin(i, j)
    PROVE  SchedInv' /\ RowsAge
<1>1. /\ Alive(i) /\ step[i] = "idle"
      /\ \/ LeaseAcquired(i, {}) /\ step' = [step EXCEPT ![i] = "now"]
         \/ LeaseRefused(i, {}) /\ step' = step
      /\ jobs' = jobs /\ consumed' = consumed /\ proc' = proc /\ executing' = executing /\ counter' = counter
  BY DEF StartNowBegin, Free
<1>2. {} \in SUBSET {r \in ActiveOf(i) : active[r].phase = "ended"}
  OBVIOUS
<1>3. CASE LeaseAcquired(i, {}) /\ step' = [step EXCEPT ![i] = "now"]
  BY <1>1, <1>2, <1>3, LeaseAcquiredKeeps
<1>4. CASE LeaseRefused(i, {}) /\ step' = step
  BY <1>1, <1>2, <1>4, LeaseRefusedKeeps
<1> QED BY <1>1, <1>3, <1>4

-----------------------------------------------------------------------------
(***************************************************************************)
(* launch.                                                                 *)
(***************************************************************************)

\* What every step does to rows that have a result or were stopped.
RowsFinal ==
    \A r \in Runs :
        /\ runs[r].status \in Terminal => runs'[r].status \in {runs[r].status, "deleted"}
        /\ runs[r].status = "running" /\ Stopped(r) => runs'[r].status # "succeeded"

LEMMA AgedIsFinal == RowsAge => RowsFinal
BY DEF RowsAge, RowAges, RowsFinal

\* A row of job j is used for the first time.
LEMMA NewRowKeeps ==
    ASSUME Types, RowInv, NEW j \in Jobs, NEW r \in Runs, NEW row \in RunRow, NEW job \in Job,
           NEW trigger \in {"scheduled", "manual"},
           runs[r].status = "unused", row.status # "unused", row.job = j, row.trigger = trigger,
           runs' = [runs EXCEPT ![r] = row], jobs' = [jobs EXCEPT ![j] = job],
           job.cursor = jobs[j].cursor, job.armed = jobs[j].armed,
           IF trigger = "scheduled" THEN jobs[j].next # "none" /\ job.next = NextRun(j)
                                    ELSE job.next = jobs[j].next,
           consumed' = consumed, counter' = counter, ActiveTypes',
           \A q \in Runs : \/ active'[q] = active[q]
                           \/ active'[q].after # NoCursor =>
                                 0 <= active'[q].after /\ active'[q].after <= active'[q].nextAfter
                                 /\ active'[q].nextAfter <= counter
    PROVE  RowTypes' /\ RowsFinal /\ RowInv'
<1> USE DEF RowInv
<1>1. /\ runs' \in [Runs -> RunRow] /\ runs'[r] = row
      /\ \A q \in Runs \ {r} : runs'[q] = runs[q]
  BY DEF Types, RowTypes
<1>2. /\ jobs' \in [Jobs -> Job] /\ jobs'[j] = job
      /\ \A k \in Jobs \ {j} : jobs'[k] = jobs[k]
  BY DEF Types, RowTypes
<1>3. RowTypes'
  BY <1>1, <1>2 DEF Types, RowTypes
<1>4. RowsFinal
  BY <1>1 DEF RowsFinal, Terminal, Types, RowTypes
<1>5. \A k \in Jobs : jobs'[k].cursor = jobs[k].cursor /\ jobs'[k].armed = jobs[k].armed
  BY <1>2
<1>6. BatchesAreRead'
  BY <1>5 DEF BatchesAreRead
<1>7. ConsumedIsBehind'
  <2>1. \A a \in consumed : a.job \in Jobs
    BY DEF Types, RowTypes, Batch
  <2> QED BY <1>5, <2>1 DEF ConsumedIsBehind
<1>8. BatchesApart'
  <2>1. \A a \in consumed : a.run \in Runs \ {r}
    BY DEF Types, RowTypes, Batch, BatchesApart
  <2> QED BY <1>1, <2>1 DEF BatchesApart
<1>9. OneShotsCounted'
  <2> SUFFICES ASSUME NEW k \in OneShot
               PROVE  Cardinality(Started(k)') + (IF jobs'[k].next = "none" THEN 0 ELSE 1) <= jobs'[k].armed
    BY DEF OneShotsCounted
  <2>1. k \in Jobs /\ jobs[k].armed \in Nat /\ jobs'[k].armed = jobs[k].armed
    BY <1>5, SchedulerConstants DEF Types, RowTypes, Job
  <2>2. Started(k) \subseteq Runs /\ IsFiniteSet(Started(k)) /\ Cardinality(Started(k)) \in Nat
    <3>1. Started(k) \subseteq Runs
      BY DEF Started
    <3> QED BY <3>1, SchedulerConstants, FS_Subset, FS_CardinalityType
  <2>3. Cardinality(Started(k)) + (IF jobs[k].next = "none" THEN 0 ELSE 1) <= jobs[k].armed
    BY DEF OneShotsCounted
  <2>4. CASE k = j /\ trigger = "scheduled"
    <3>1. Started(k)' = Started(k) \cup {r} /\ r \notin Started(k)
      BY <1>1, <2>4 DEF Started
    <3>2. Cardinality(Started(k) \cup {r}) = Cardinality(Started(k)) + 1
      BY <2>2, <3>1, FS_AddElement
    <3>3. jobs'[k].next = "none" /\ jobs[k].next # "none"
      BY <1>2, <2>4 DEF NextRun
    <3> QED BY <2>1, <2>2, <2>3, <3>1, <3>2, <3>3
  <2>5. CASE ~(k = j /\ trigger = "scheduled")
    <3>1. Started(k)' = Started(k)
      BY <1>1, <2>5 DEF Started
    <3>2. jobs'[k].next = jobs[k].next
      BY <1>2, <2>1, <2>5
    <3> QED BY <2>1, <2>2, <2>3, <3>1, <3>2
  <2> QED BY <2>4, <2>5
<1> QED BY <1>3, <1>4, <1>6, <1>7, <1>8, <1>9

\* A claim is taken for a run of job j that was not used before.
LEMMA NewClaimKeeps ==
    ASSUME Types, ClaimInv, Types', NEW i \in Instances, NEW j \in Jobs, NEW r \in Runs,
           Admits(i, j), step[i] # "idle", runs[r].status = "unused",
           runs'[r].status # "unused", runs'[r].job = j,
           \A q \in Runs \ {r} : runs'[q] = runs[q] /\ active'[q] = active[q] /\ claim'[q] = claim[q],
           claimed' = claimed \cup {r}, claim'[r].holder = i, claim'[r].gen = held[i],
           active'[r].phase = "starting", active'[r].owner = i, active'[r].gen = held[i],
           active'[r].outcome = "none",
           \A k \in Instances : step'[k] # "idle" => step'[k] = step[k],
           lease' = lease, proc' = proc, held' = held, executing' = executing
    PROVE  ClaimInv'
<1> USE DEF ClaimInv
<1>1. held[i] \in Nat /\ held[i] > 0 /\ Alive(i)
  BY DEF HandlersHold, Types, ProcTypes
<1>2. r \notin claimed /\ active[r].phase = "none" /\ r \notin executing
  BY DEF ClaimsAreKnown, ActiveIsClaimed, HoldsClaim, TurnsAreClaimed, Taken
<1>3. claimed \subseteq Runs /\ Taken \subseteq claimed /\ Taken' = Taken \cup {r}
  BY <1>1, <1>2 DEF Taken, Types, ProcTypes
<1>4. HandlersHold'
  BY DEF HandlersHold, Alive
<1>5. ActiveIsClaimed'
  BY <1>1, <1>2 DEF ActiveIsClaimed, HoldsClaim, Alive
<1>6. ClaimsAreKnown'
  <2>1. \A q \in claimed' : runs'[q].status # "unused"
    BY <1>3 DEF ClaimsAreKnown
  <2>2. \A q \in Taken' : q = r \/ (q \in Taken /\ q \in Runs \ {r})
    BY <1>2, <1>3
  <2>3. /\ claim'[r].holder \in Instances /\ proc'[claim'[r].holder] # "off"
        /\ active'[r].phase # "none" /\ active'[r].owner = claim'[r].holder
    BY <1>1 DEF Alive
  <2> QED BY <2>1, <2>2, <2>3 DEF ClaimsAreKnown, Alive
<1>7. ClaimsExclude'
  <2>1. \A q \in Taken : q \in Runs \ {r} /\ runs'[q].job # j
    BY <1>2, <1>3 DEF Admits, JobRunning
  <2>2. \A p, q \in Taken' : runs'[p].job = runs'[q].job => p = q
    BY <1>3, <2>1 DEF ClaimsExclude
  <2>3. IsFiniteSet(claimed) /\ IsFiniteSet(Taken)
    BY <1>3, SchedulerConstants, FS_Subset
  <2>4. /\ Cardinality(Taken) <= Cardinality(claimed) /\ Cardinality(Taken) \in Nat
        /\ Cardinality(claimed) \in Nat /\ Cardinality(Taken \cup {r}) = Cardinality(Taken) + 1
    BY <1>2, <1>3, <2>3, FS_Subset, FS_CardinalityType, FS_AddElement
  <2>5. Cardinality(Taken') <= MaxConcurrent
    BY <1>3, <2>4, SchedulerConstants DEF Admits
  <2> QED BY <2>2, <2>5 DEF ClaimsExclude
<1>8. TurnsAreClaimed'
  <2>1. \A q \in executing : q \in Runs \ {r} /\ q \in Taken
    BY <1>2, <1>3 DEF TurnsAreClaimed
  <2> QED BY <1>3, <2>1 DEF TurnsAreClaimed
<1>9. StartsOpen'
  BY DEF StartsOpen
<1>10. NoLostRun'
  <2> SUFFICES ASSUME NEW q \in Runs, NEW k \in Instances, runs'[q].status = "running", step'[k] = "sweep", StillHolder(k)'
               PROVE  active'[q].phase # "none" /\ active'[q].owner = k
    BY DEF NoLostRun, ActiveOf
  <2>1. step[k] = "sweep" /\ StillHolder(k) /\ k = i
    BY DEF StillHolder, Admits
  <2>2. CASE q = r
    BY <2>1, <2>2
  <2>3. CASE q # r
    BY <2>1, <2>3 DEF NoLostRun, ActiveOf
  <2> QED BY <2>2, <2>3
<1> QED BY <1>4, <1>5, <1>6, <1>7, <1>8, <1>9, <1>10

LEMMA LaunchKeeps ==
    ASSUME SchedInv, SeenInv, NEW i \in Instances, NEW j \in Jobs, NEW r \in Runs,
           NEW trigger \in {"scheduled", "manual"}, Launch(i, j, r, trigger), j \in Listed(i), step[i] # "idle",
           trigger = "scheduled" => jobs[j].next = "due",
           step' \in [Instances -> {"idle", "sweep", "now"}],
           \A k \in Instances : step'[k] # "idle" => step'[k] = step[k]
    PROVE  SchedInv' /\ RowsFinal
<1> USE DEF SchedInv
<1> DEFINE after == seen[i][j]
           next  == IF trigger = "scheduled" THEN NextRun(j) ELSE jobs[j].next
           spent == Spends(j, trigger)
           row   == [status |-> "running", job |-> j, trigger |-> trigger, attention |-> FALSE]
           read  == IF after = NoCursor THEN NoCursor ELSE PageEnd(after)
           mine  == [holder |-> i, gen |-> held[i], quarantined |-> FALSE]
           begun == [NoActive EXCEPT !.phase = "starting", !.owner = i, !.gen = held[i],
                                     !.after = after, !.nextAfter = read]
           due   == [jobs[j] EXCEPT !.next = next]
           end   == IF ~lease.live THEN "interrupted"
                    ELSE IF jobs[j].cursor = after THEN "succeeded" ELSE "failed"
           done  == [row EXCEPT !.status = end]
           idle  == IF lease.live THEN JobAfter(due, spent, end) ELSE due
<1>1. /\ Admits(i, j) /\ runs[r].status = "unused" /\ lease' = lease /\ consumed' = consumed /\ proc' = proc
      /\ held' = held /\ executing' = executing /\ counter' = counter
  BY DEF Launch, envVars, Unused
<1>2. \/ /\ runs' = [runs EXCEPT ![r] = row] /\ jobs' = [jobs EXCEPT ![j] = due]
         /\ claimed' = claimed \cup {r} /\ claim' = [claim EXCEPT ![r] = mine]
         /\ active' = [active EXCEPT ![r] = begun]
      \/ /\ runs' = [runs EXCEPT ![r] = done] /\ jobs' = [jobs EXCEPT ![j] = idle]
         /\ claimed' = claimed /\ claim' = claim /\ active' = active
  BY DEF Launch
<1>3. jobs[j] \in Job /\ counter \in Nat /\ held[i] \in Nat /\ after \in Int /\ after # Unread
  BY DEF Types, RowTypes, ProcTypes, SeenInv, Listed
<1>4. next \in {"none", "later", "due"}
  BY <1>3 DEF Job, NextRun
<1>5. /\ IF trigger = "scheduled" THEN jobs[j].next # "none" /\ next = NextRun(j) ELSE next = jobs[j].next
      /\ spent \in BOOLEAN /\ (spent => next = "none")
  BY DEF Spends, NextRun
<1>6. /\ row \in RunRow /\ row.status # "unused" /\ row.job = j /\ row.trigger = trigger
      /\ end \in {"succeeded", "interrupted", "failed"}
      /\ done \in RunRow /\ done.status = end /\ done.job = j /\ done.trigger = trigger
  BY DEF RunRow, Terminal
<1>7. due \in Job /\ due.cursor = jobs[j].cursor /\ due.armed = jobs[j].armed /\ due.next = next
  <2> HIDE DEF next
  <2> QED BY <1>3, <1>4 DEF Job
<1>8. /\ read \in Int
      /\ after # NoCursor => 0 <= after /\ after <= read /\ read <= counter
  <2>1. after # NoCursor => 0 <= after /\ after <= counter
    BY <1>3 DEF SeenInv
  <2>2. PageLimit \in Nat
    BY SchedulerConstants
  <2> QED BY <1>3, <2>1, <2>2 DEF PageEnd, NoCursor
<1> HIDE DEF next, spent, read, after, row, done, end, due
<1>9. idle \in Job /\ idle.cursor = jobs[j].cursor /\ idle.armed = jobs[j].armed /\ idle.next = next
  <2>1. /\ JobAfter(due, spent, end) \in Job
        /\ JobAfter(due, spent, end).cursor = due.cursor /\ JobAfter(due, spent, end).armed = due.armed
        /\ JobAfter(due, spent, end).next = IF spent THEN "none" ELSE due.next
    BY <1>5, <1>7, JobAfterFacts
  <2> QED BY <1>5, <1>7, <2>1
<1>10. /\ begun \in ActiveRun /\ begun.phase = "starting" /\ begun.owner = i /\ begun.gen = held[i]
       /\ begun.after = after /\ begun.nextAfter = read /\ begun.outcome = "none"
  BY <1>3, <1>8 DEF NoActive, ActiveRun, Phases
<1>11. mine \in Claim /\ mine.holder = i /\ mine.gen = held[i]
  BY <1>3 DEF Claim
<1> HIDE DEF idle, begun, mine
<1>12. CASE /\ runs' = [runs EXCEPT ![r] = row] /\ jobs' = [jobs EXCEPT ![j] = due]
            /\ claimed' = claimed \cup {r} /\ claim' = [claim EXCEPT ![r] = mine]
            /\ active' = [active EXCEPT ![r] = begun]
  <2>1. active' \in [Runs -> ActiveRun] /\ active'[r] = begun /\ \A q \in Runs \ {r} : active'[q] = active[q]
    BY <1>10, <1>12 DEF Types, ActiveTypes
  <2>2. ActiveTypes'
    BY <2>1 DEF ActiveTypes
  <2>3. \A q \in Runs : \/ active'[q] = active[q]
                        \/ active'[q].after # NoCursor =>
                              0 <= active'[q].after /\ active'[q].after <= active'[q].nextAfter
                              /\ active'[q].nextAfter <= counter
    BY <1>8, <1>10, <2>1
  <2>4. RowTypes' /\ RowsFinal /\ RowInv'
    BY <1>1, <1>5, <1>6, <1>7, <1>12, <2>2, <2>3, NewRowKeeps
  <2>5. /\ claim' \in [Runs -> Claim] /\ claim'[r] = mine /\ \A q \in Runs \ {r} : claim'[q] = claim[q]
    BY <1>11, <1>12 DEF Types, ProcTypes
  <2>6. ProcTypes'
    BY <1>1, <1>12, <2>5 DEF Types, ProcTypes
  <2>7. Types'
    BY <2>2, <2>4, <2>6 DEF Types
  <2>8. runs'[r] = row /\ \A q \in Runs \ {r} : runs'[q] = runs[q]
    BY <1>12 DEF Types, RowTypes
  <2>9. ClaimInv'
    BY <1>1, <1>6, <1>10, <1>11, <1>12, <2>1, <2>5, <2>7, <2>8, NewClaimKeeps
  <2> QED BY <2>4, <2>7, <2>9
<1>13. CASE /\ runs' = [runs EXCEPT ![r] = done] /\ jobs' = [jobs EXCEPT ![j] = idle]
            /\ claimed' = claimed /\ claim' = claim /\ active' = active
  <2>1. ActiveTypes' /\ \A q \in Runs : active'[q] = active[q]
    BY <1>13 DEF Types, ActiveTypes
  <2>2. done.status # "unused"
    BY <1>6
  <2>3. RowTypes' /\ RowsFinal /\ RowInv'
    BY <1>1, <1>5, <1>6, <1>9, <1>13, <2>1, <2>2, NewRowKeeps
  <2>4. Types'
    BY <1>1, <1>13, <2>1, <2>3 DEF Types, ProcTypes
  <2>5. \A q \in Runs : /\ runs[q].status # "unused" => runs'[q].status # "unused" /\ runs'[q].job = runs[q].job
                        /\ runs'[q].status = "running" => runs[q].status = "running"
    BY <1>1, <1>6, <1>13 DEF Types, RowTypes
  <2>6. ClaimStep({})
    BY <1>1, <1>13, <2>1, <2>5 DEF ClaimStep, Alive
  <2> QED BY <2>3, <2>4, <2>6, ClaimStepKeeps
<1> QED BY <1>2, <1>12, <1>13

LEMMA TickLaunchKeeps ==
    ASSUME SchedInv, SeenInv, NEW i \in Instances, NEW j \in Jobs, NEW r \in Runs, TickLaunch(i, j, r)
    PROVE  SchedInv' /\ RowsFinal
<1>1. /\ step[i] # "idle" /\ j \in Listed(i) /\ jobs[j].next = "due" /\ Launch(i, j, r, "scheduled") /\ step' = step
  BY DEF TickLaunch, Due
<1>2. step \in [Instances -> {"idle", "sweep", "now"}]
  BY DEF SchedInv, Types, ProcTypes
<1> QED BY <1>1, <1>2, LaunchKeeps

LEMMA StartNowLaunchKeeps ==
    ASSUME SchedInv, SeenInv, NEW i \in Instances, NEW j \in Jobs, NEW r \in Runs, StartNowLaunch(i, j, r)
    PROVE  SchedInv' /\ RowsFinal
<1>1. /\ step[i] # "idle" /\ j \in Listed(i) /\ Launch(i, j, r, "manual") /\ step' = [step EXCEPT ![i] = "idle"]
  BY DEF StartNowLaunch
<1>2. step \in [Instances -> {"idle", "sweep", "now"}]
  BY DEF SchedInv, Types, ProcTypes
<1>3. step' \in [Instances -> {"idle", "sweep", "now"}] /\ \A k \in Instances : step'[k] # "idle" => step'[k] = step[k]
  BY <1>1, <1>2
<1> QED BY <1>1, <1>3, LaunchKeeps

-----------------------------------------------------------------------------
(***************************************************************************)
(* The invariant, and what follows from it.                                *)
(***************************************************************************)
LEMMA InitHolds == Init => SchedInv
<1> SUFFICES ASSUME Init PROVE SchedInv
  OBVIOUS
<1> USE DEF Init
<1>1. \A r \in Runs : runs[r].status = "unused"
  <2> DEFINE row == [status |-> "unused", job |-> CHOOSE j \in Jobs : TRUE, trigger |-> "manual", attention |-> FALSE]
  <2>1. runs \in [Runs -> {row}] /\ row.status = "unused"
    OBVIOUS
  <2> HIDE DEF row
  <2> QED BY <2>1
<1>2. RowTypes
  <2>1. \A j \in Jobs : [row |-> TRUE, enabled |-> TRUE, paused |-> FALSE, failures |-> 0, next |-> "later", armed |-> 1,
                         cursor |-> IF j \in Consumers THEN 0 ELSE NoCursor] \in Job
    BY DEF Job, NoCursor
  <2>2. jobs \in [Jobs -> Job]
    BY <2>1
  <2>3. runs \in [Runs -> RunRow]
    <3> DEFINE row == [status |-> "unused", job |-> CHOOSE j \in Jobs : TRUE, trigger |-> "manual", attention |-> FALSE]
    <3>1. runs \in [Runs -> {row}]
      OBVIOUS
    <3>2. row \in RunRow
      BY DEF RunRow
    <3> HIDE DEF row
    <3> QED BY <3>1, <3>2
  <2> QED BY <1>1, <2>2, <2>3 DEF RowTypes
<1>3. ProcTypes /\ ActiveTypes
  BY NoActiveFacts DEF ProcTypes, ActiveTypes
<1>4. Taken = {} /\ Cardinality(Taken) = 0
  BY FS_EmptySet DEF Taken
<1>5. \A r \in Runs : active[r] = NoActive
  OBVIOUS
<1>6. \A r \in Runs : active[r].phase = "none" /\ active[r].after = NoCursor
  BY <1>5, NoActiveFacts
<1>7. ClaimInv
  <2>1. HandlersHold /\ ActiveIsClaimed /\ ClaimsAreKnown
    BY <1>4, <1>6 DEF HandlersHold, ActiveIsClaimed, ClaimsAreKnown
  <2>2. ClaimsExclude
    BY <1>4, SchedulerConstants DEF ClaimsExclude
  <2>3. TurnsAreClaimed /\ StartsOpen /\ NoLostRun
    BY <1>6 DEF TurnsAreClaimed, StartsOpen, NoLostRun
  <2> QED BY <2>1, <2>2, <2>3 DEF ClaimInv
<1>8. RowInv
  <2>1. \A j \in Jobs : jobs[j].cursor \in {0, NoCursor} /\ jobs[j].armed = 1
    OBVIOUS
  <2>2. BatchesAreRead
    BY <1>6, <2>1 DEF BatchesAreRead
  <2>3. ConsumedIsBehind /\ BatchesApart
    BY DEF ConsumedIsBehind, BatchesApart
  <2>4. OneShotsCounted
    <3>1. \A j : Started(j) = {}
      BY <1>1 DEF Started
    <3>2. \A j : Cardinality(Started(j)) = 0
      BY <3>1, FS_EmptySet
    <3> QED BY <2>1, <3>2, SchedulerConstants DEF OneShotsCounted
  <2> QED BY <2>2, <2>3, <2>4 DEF RowInv
<1> QED BY <1>2, <1>3, <1>7, <1>8 DEF SchedInv, Types

LEMMA NextKeeps ==
    ASSUME SchedInv, SeenInv, Next
    PROVE  SchedInv' /\ RowsFinal
<1>1. ASSUME NEW i \in Instances, TickStep(i)
      PROVE  SchedInv' /\ RowsFinal
  <2>1. CASE TickBegin(i)
    BY <2>1, TickBeginKeeps, AgedIsFinal
  <2>2. CASE TickEnd(i)
    BY <2>2, QuietKeeps, AgedIsFinal
  <2>3. ASSUME NEW j \in Jobs, TickSkip(i, j)
        PROVE  SchedInv' /\ RowsFinal
    BY <2>3, TickSkipKeeps, AgedIsFinal
  <2>4. ASSUME NEW j \in Jobs, NEW r \in Runs, TickLaunch(i, j, r)
        PROVE  SchedInv' /\ RowsFinal
    BY <2>4, TickLaunchKeeps
  <2> QED BY <1>1, <2>1, <2>2, <2>3, <2>4 DEF TickStep
<1>2. ASSUME NEW i \in Instances, StartNowStep(i)
      PROVE  SchedInv' /\ RowsFinal
  <2>1. CASE StartNowRefused(i)
    BY <2>1, QuietKeeps, AgedIsFinal
  <2>2. ASSUME NEW j \in Jobs, NEW r \in Runs, StartNowLaunch(i, j, r)
        PROVE  SchedInv' /\ RowsFinal
    BY <2>2, StartNowLaunchKeeps
  <2> QED BY <1>2, <2>1, <2>2 DEF StartNowStep
<1>3. ASSUME NEW r \in Runs, ExecuteStep(r)
      PROVE  SchedInv' /\ RowsFinal
  <2>1. CASE StartFails(r) \/ StartTurn(r) \/ HandleReturned(r) \/ AttachFails(r) \/ Settle(r)
    BY <2>1, StartFailsKeeps, StartTurnKeeps, HandleReturnedKeeps, AttachFailsKeeps, SettleKeeps, AgedIsFinal
  <2>2. CASE Attention(r) \/ Timeout(r) \/ Grace(r) \/ OrphanEnds(r)
    BY <2>2, AttentionKeeps, TimeoutKeeps, GraceKeeps, QuietKeeps, AgedIsFinal
  <2>3. ASSUME NEW outcome \in Outcomes, TurnEnds(r, outcome)
        PROVE  SchedInv' /\ RowsFinal
    BY <2>3, TurnEndsKeeps, AgedIsFinal
  <2> QED BY <1>3, <2>1, <2>2, <2>3 DEF ExecuteStep
<1>4. CASE UserStep
  <2>1. ASSUME NEW i \in Instances, NEW j \in Jobs, StartNowBegin(i, j)
        PROVE  SchedInv' /\ RowsFinal
    BY <2>1, StartNowBeginKeeps, AgedIsFinal
  <2>2. ASSUME NEW i \in Instances, NEW j \in Jobs, CancelRun(i, j) \/ DeleteJob(i, j) \/ PurgeWorkspace(i, j)
        PROVE  SchedInv' /\ RowsFinal
    BY <2>2, CancelRunKeeps, DeleteJobKeeps, PurgeWorkspaceKeeps, AgedIsFinal
  <2>3. ASSUME NEW j \in Jobs, EditJob(j)
        PROVE  SchedInv' /\ RowsFinal
    BY <2>3, EditJobKeeps, AgedIsFinal
  <2>4. ASSUME NEW r \in Runs, ConfirmStopped(r)
        PROVE  SchedInv' /\ RowsFinal
    BY <2>4, ConfirmStoppedKeeps, AgedIsFinal
  <2> QED BY <1>4, <2>1, <2>2, <2>3, <2>4 DEF UserStep
<1>5. CASE WorldStep
  <2>1. ASSUME NEW i \in Instances, Boot(i) \/ Stop(i) \/ Crash(i)
        PROVE  SchedInv' /\ RowsFinal
    BY <2>1, BootKeeps, StopKeeps, CrashKeeps, AgedIsFinal
  <2>2. CASE LeaseExpires \/ TurnCompleted
    BY <2>2, QuietKeeps, AgedIsFinal
  <2>3. ASSUME NEW j \in Jobs, BecomesDue(j) \/ TrashWorkspace(j)
        PROVE  SchedInv' /\ RowsFinal
    BY <2>3, BecomesDueKeeps, QuietKeeps, AgedIsFinal
  <2> QED BY <1>5, <2>1, <2>2, <2>3 DEF WorldStep
<1> QED BY <1>1, <1>2, <1>3, <1>4, <1>5 DEF Next

LEMMA StutterKeeps ==
    ASSUME SchedInv, UNCHANGED schedVars
    PROVE  SchedInv' /\ RowsFinal
<1> USE DEF SchedInv
<1>1. /\ lease' = lease /\ jobs' = jobs /\ runs' = runs /\ claimed' = claimed /\ claim' = claim
      /\ consumed' = consumed /\ proc' = proc /\ held' = held /\ step' = step /\ active' = active
      /\ executing' = executing /\ counter' = counter
  BY DEF schedVars, dbVars, memVars, envVars
<1>2. /\ counter \in Nat /\ step \in [Instances -> {"idle", "sweep", "now"}]
      /\ lease \in [holder : Instances \cup {NoOne}, gen : Nat, live : BOOLEAN]
  BY DEF Types, RowTypes, ProcTypes
<1>3. JobsKept
  BY <1>1 DEF JobsKept, Types, RowTypes
<1> QED BY <1>1, <1>2, <1>3, PassiveKeeps, AgedIsFinal

\* A cursor that a handler has read was that of a job record.
LEMMA SeenKeeps ==
    ASSUME SchedInv, SeenInv, [Next]_schedVars
    PROVE  SeenInv'
<1>1. counter \in Nat /\ \A j \in Jobs : jobs[j].cursor \in Int
  BY DEF SchedInv, Types, RowTypes, Job
<1>2. counter' = counter \/ counter' = counter + 1
  <2>1. ASSUME NEW i \in Instances, TickStep(i) \/ StartNowStep(i)
        PROVE  counter' = counter
    BY <2>1 DEF TickStep, StartNowStep, TickBegin, TickEnd, TickSkip, TickLaunch, StartNowLaunch,
                StartNowRefused, Launch, envVars
  <2>2. ASSUME NEW r \in Runs, ExecuteStep(r)
        PROVE  counter' = counter
    BY <2>2 DEF ExecuteStep, StartFails, StartTurn, HandleReturned, AttachFails, Settle, Attention,
                Timeout, Grace, OrphanEnds, TurnEnds, envVars
  <2>3. UserStep => counter' = counter
    BY DEF UserStep, StartNowBegin, CancelRun, DeleteJob, PurgeWorkspace, EditJob, ConfirmStopped
  <2>4. WorldStep => counter' = counter \/ counter' = counter + 1
    BY DEF WorldStep, Boot, Stop, Crash, LeaseExpires, TurnCompleted, BecomesDue, TrashWorkspace, envVars
  <2>5. UNCHANGED schedVars => counter' = counter
    BY DEF schedVars, envVars
  <2> QED BY <2>1, <2>2, <2>3, <2>4, <2>5 DEF Next
<1>3. \/ seen' = seen
      \/ \E i \in Instances, j \in Jobs : \/ seen' = [seen EXCEPT ![i][j] = Unread]
                                          \/ seen' = [seen EXCEPT ![i][j] = jobs[j].cursor]
      \/ \E i \in Instances :
            \/ seen' = [seen EXCEPT ![i] = NothingRead]
            \/ seen' = [seen EXCEPT ![i] = [j \in Jobs |-> IF Due(j) THEN jobs[j].cursor ELSE Unread]]
  BY DEF Next, TickStep, StartNowStep, ExecuteStep, UserStep, WorldStep, schedVars, memVars,
         TickBegin, TickEnd, TickSkip, TickLaunch, StartNowBegin, StartNowLaunch, StartNowRefused,
         StartFails, StartTurn, HandleReturned, AttachFails, Settle, Attention, Timeout, Grace, OrphanEnds, TurnEnds,
         CancelRun, DeleteJob, PurgeWorkspace, EditJob, ConfirmStopped,
         Boot, Stop, Crash, LeaseExpires, TurnCompleted, BecomesDue, TrashWorkspace
<1>4. /\ seen' \in [Instances -> [Jobs -> Int]]
      /\ \A i \in Instances, j \in Jobs : seen'[i][j] \in {seen[i][j], Unread, jobs[j].cursor}
  BY <1>1, <1>3 DEF SeenInv, NothingRead, Unread
<1>5. \A j \in Jobs : jobs[j].cursor # NoCursor => 0 <= jobs[j].cursor /\ jobs[j].cursor <= counter
  BY DEF SchedInv, RowInv, BatchesAreRead
<1> QED BY <1>1, <1>2, <1>4, <1>5 DEF SeenInv

\* A result is recorded at the end of a start that fails, a turn or its grace.
LEMMA ResultsAreFinalized ==
    ASSUME [Next]_schedVars
    PROVE  \/ consumed' = consumed
           \/ \E r \in Runs, status \in Terminal, consume \in BOOLEAN :
                 Finalize(r, status, consume) /\ (consume => active[r].after # NoCursor)
<1>1. ASSUME NEW r \in Runs, StartFails(r) \/ AttachFails(r) \/ Grace(r)
      PROVE  \E status \in Terminal : Finalize(r, status, FALSE)
  BY <1>1 DEF StartFails, AttachFails, Grace, StopStatus, Terminal
<1>2. ASSUME NEW r \in Runs, Settle(r)
      PROVE  \E status \in Terminal :
                Finalize(r, status, active[r].after # NoCursor /\ status = "succeeded")
  <2> DEFINE whole == active[r].outcome = "succeeded" /\ ~active[r].attention
             outcome == IF active[r].outcome = "failed" THEN "failed"
                        ELSE IF active[r].after # NoCursor /\ ~whole THEN "failed" ELSE "succeeded"
             status == StopStatus(r, outcome)
  <2>1. status \in Terminal
    BY DEF StopStatus, Terminal
  <2>2. Finalize(r, status, active[r].after # NoCursor /\ status = "succeeded")
    BY <1>2 DEF Settle
  <2> QED BY <2>1, <2>2
<1>3. \/ consumed' = consumed
      \/ \E r \in Runs : StartFails(r) \/ AttachFails(r) \/ Grace(r) \/ Settle(r)
  <2>1. ASSUME NEW i \in Instances, TickStep(i) \/ StartNowStep(i)
        PROVE  consumed' = consumed
    BY <2>1 DEF TickStep, StartNowStep, TickBegin, TickEnd, TickSkip, TickLaunch, StartNowLaunch,
                StartNowRefused, Launch, dbVars
  <2>2. ASSUME NEW r \in Runs, ExecuteStep(r)
        PROVE  consumed' = consumed \/ StartFails(r) \/ AttachFails(r) \/ Grace(r) \/ Settle(r)
    BY <2>2 DEF ExecuteStep, StartTurn, HandleReturned, Attention, Timeout, OrphanEnds, TurnEnds, dbVars
  <2>3. UserStep => consumed' = consumed
    BY DEF UserStep, StartNowBegin, CancelRun, DeleteJob, PurgeWorkspace, EditJob, ConfirmStopped
  <2>4. WorldStep => consumed' = consumed
    BY DEF WorldStep, Boot, Stop, Crash, LeaseExpires, TurnCompleted, BecomesDue, TrashWorkspace, dbVars
  <2>5. UNCHANGED schedVars => consumed' = consumed
    BY DEF schedVars, dbVars
  <2> QED BY <2>1, <2>2, <2>3, <2>4, <2>5 DEF Next
<1> QED BY <1>1, <1>2, <1>3

LEMMA ResultsAdvanceCursors ==
    ASSUME SchedInv, [Next]_schedVars
    PROVE  ResultsAdvance
<1> SUFFICES ASSUME NEW a \in consumed' \ consumed
             PROVE  jobs[a.job].cursor # NoCursor /\ jobs[a.job].cursor <= jobs'[a.job].cursor
  BY DEF ResultsAdvance
<1>1. PICK r \in Runs, status \in Terminal, consume \in BOOLEAN :
         Finalize(r, status, consume) /\ (consume => active[r].after # NoCursor)
  BY ResultsAreFinalized
<1>2. Record(r, status, consume) /\ OwnsRun(r)
  BY <1>1 DEF Finalize
<1>3. /\ consume /\ CanAdvance(r) /\ active[r].nextAfter > active[r].after
      /\ a = [job |-> runs[r].job, run |-> r, after |-> active[r].after, nextAfter |-> active[r].nextAfter]
  BY <1>2 DEF Record
<1>4. runs[r].job \in Jobs
  BY <1>2 DEF OwnsRun, SchedInv, Types, RowTypes
<1>5. jobs'[runs[r].job].cursor = active[r].nextAfter
  <2>1. jobs'[runs[r].job].cursor = CursorAfter(r, consume /\ CanAdvance(r))
    BY <1>2, <1>4, RecordedJob DEF SchedInv, Types
  <2> QED BY <1>3, <2>1 DEF CursorAfter
<1>6. active[r].after \in Int /\ active[r].nextAfter \in Int /\ jobs[runs[r].job].cursor = active[r].after
  BY <1>3 DEF CanAdvance, SchedInv, Types, ActiveTypes, ActiveRun
<1>7. a.job = runs[r].job
  BY <1>3
<1> QED BY <1>1, <1>3, <1>5, <1>6, <1>7

\* The inductive invariant of the scheduled jobs: what the rows, the claims and
\* the memory of all processes agree on, after any steps.
THEOREM SchedInvariant == Spec => [](SchedInv /\ SeenInv)
<1>1. Init => SeenInv
  BY DEF Init, SeenInv, NothingRead, Unread
<1>2. SchedInv /\ SeenInv /\ [Next]_schedVars => SchedInv' /\ SeenInv'
  BY NextKeeps, StutterKeeps, SeenKeeps
<1> QED BY <1>1, <1>2, InitHolds, PTL DEF Spec

\* A run that a sweep of the current lease holder finds as running is one it
\* runs itself, for any number of processes, crashes and takeovers.
THEOREM NoRunIsLost == Spec => []NoLostRun
<1>1. SchedInv => NoLostRun
  BY DEF SchedInv, ClaimInv
<1> QED BY <1>1, SchedInvariant, PTL

\* Conversation batches of a job never overlap, are only those of recorded
\* successes that asked for no help, and take the cursor of a consumer that is
\* still one forward: whatever the handlers had read of the job.
THEOREM TurnsAreConsumedOnce == Spec => TurnsConsumedOnce
<1>1. SchedInv => BatchesApart
  BY DEF SchedInv, RowInv
<1>2. SchedInv /\ [Next]_schedVars => [ResultsAdvance]_schedVars
  BY ResultsAdvanceCursors
<1> QED BY <1>1, <1>2, SchedInvariant, PTL DEF Spec, TurnsConsumedOnce

\* A one-shot job is started by its schedule at most once per time it was set.
THEOREM OneShotsRunOnce == Spec => []OneShotOnce
<1>1. SchedInv => OneShotOnce
  <2> SUFFICES ASSUME SchedInv, NEW j \in OneShot
               PROVE  Cardinality(Started(j)) <= jobs[j].armed
    BY DEF OneShotOnce, Started
  <2>1. j \in Jobs /\ jobs[j].armed \in Nat
    BY SchedulerConstants DEF SchedInv, Types, RowTypes, Job
  <2>2. Cardinality(Started(j)) \in Nat
    <3>1. Started(j) \subseteq Runs
      BY DEF Started
    <3> QED BY <3>1, SchedulerConstants, FS_Subset, FS_CardinalityType
  <2>3. Cardinality(Started(j)) + (IF jobs[j].next = "none" THEN 0 ELSE 1) <= jobs[j].armed
    BY DEF SchedInv, RowInv, OneShotsCounted
  <2> QED BY <2>1, <2>2, <2>3
<1> QED BY <1>1, SchedInvariant, PTL

\* A recorded result is final: neither a process that lost its lease nor the one
\* that took over rewrites it.
THEOREM ResultsAreFinal == Spec => ResultIsFinal
<1> DEFINE A == \A r \in Runs : runs[r].status \in Terminal
                                   => runs'[r].status \in {runs[r].status, "deleted"}
<1>1. SchedInv /\ SeenInv /\ [Next]_schedVars => [A]_schedVars
  BY NextKeeps DEF RowsFinal
<1> QED BY <1>1, SchedInvariant, PTL DEF Spec, ResultIsFinal

\* A run that was cancelled, timed out or lost never ends as a success.
THEOREM StoppedRunsNeverSucceed == Spec => StoppedNeverSucceeds
<1> DEFINE A == \A r \in Runs : /\ runs[r].status = "running"
                                /\ active[r].cancelled \/ active[r].timedOut \/ active[r].finalized
                                => runs'[r].status # "succeeded"
<1>1. SchedInv /\ SeenInv /\ [Next]_schedVars => [A]_schedVars
  BY NextKeeps DEF RowsFinal, Stopped
<1> QED BY <1>1, SchedInvariant, PTL DEF Spec, StoppedNeverSucceeds

-----------------------------------------------------------------------------
(***************************************************************************)
(* Admission implements ExclusiveWork.                                     *)
(***************************************************************************)
LEMMA TurnsOnlyEnd ==
    ASSUME SchedInv, Next
    PROVE  \/ executing' \subseteq executing /\ \A r \in executing : runs'[r].job = runs[r].job
           \/ \E r \in Runs : StartTurn(r)
<1>1. \A r \in executing : r \in Runs /\ runs[r].status # "unused"
  BY DEF SchedInv, Types, ProcTypes, ClaimInv, TurnsAreClaimed, ClaimsAreKnown, Taken
<1>2. RowsAge => \A r \in executing : runs'[r].job = runs[r].job
  BY <1>1 DEF RowsAge, RowAges
<1>3. ASSUME NEW i \in Instances, NEW j \in Jobs, NEW r \in Runs, TickLaunch(i, j, r) \/ StartNowLaunch(i, j, r)
      PROVE  executing' = executing /\ \A q \in executing : runs'[q].job = runs[q].job
  <2>1. PICK row : runs' = [runs EXCEPT ![r] = row]
    BY <1>3 DEF TickLaunch, StartNowLaunch, Launch
  <2>2. runs[r].status = "unused" /\ executing' = executing
    BY <1>3 DEF TickLaunch, StartNowLaunch, Launch, Unused, envVars
  <2> QED BY <1>1, <2>1, <2>2 DEF SchedInv, Types, RowTypes
<1>4. ASSUME NEW i \in Instances, TickStep(i) \/ StartNowStep(i)
      PROVE  executing' \subseteq executing /\ \A r \in executing : runs'[r].job = runs[r].job
  <2>1. CASE TickBegin(i) \/ TickEnd(i) \/ StartNowRefused(i) \/ \E j \in Jobs : TickSkip(i, j)
    <3>1. RowsAge
      BY <2>1, TickBeginKeeps, QuietKeeps, TickSkipKeeps
    <3>2. executing' = executing
      BY <2>1 DEF TickBegin, TickEnd, StartNowRefused, TickSkip, envVars
    <3> QED BY <1>2, <3>1, <3>2
  <2>2. CASE \E j \in Jobs, r \in Runs : TickLaunch(i, j, r) \/ StartNowLaunch(i, j, r)
    BY <1>3, <2>2
  <2> QED BY <1>4, <2>1, <2>2 DEF TickStep, StartNowStep
<1>5. ASSUME NEW r \in Runs, ExecuteStep(r), ~StartTurn(r)
      PROVE  executing' \subseteq executing /\ \A q \in executing : runs'[q].job = runs[q].job
  <2>1. RowsAge
    BY <1>5, StartFailsKeeps, HandleReturnedKeeps, AttachFailsKeeps, SettleKeeps,
       AttentionKeeps, TimeoutKeeps, GraceKeeps, QuietKeeps, TurnEndsKeeps DEF ExecuteStep
  <2>2. executing' = executing \/ executing' = executing \ {r}
    BY <1>5 DEF ExecuteStep, StartFails, HandleReturned, AttachFails, Settle, Attention, Timeout, Grace,
       OrphanEnds, TurnEnds, envVars
  <2> QED BY <1>2, <2>1, <2>2
<1>6. CASE UserStep
  <2>1. RowsAge
    BY <1>6, StartNowBeginKeeps, CancelRunKeeps, DeleteJobKeeps, PurgeWorkspaceKeeps, EditJobKeeps,
       ConfirmStoppedKeeps DEF UserStep
  <2>2. executing' = executing
    BY <1>6 DEF UserStep, StartNowBegin, CancelRun, DeleteJob, PurgeWorkspace, EditJob, ConfirmStopped
  <2> QED BY <1>2, <2>1, <2>2
<1>7. CASE WorldStep
  <2>1. RowsAge
    BY <1>7, BootKeeps, StopKeeps, CrashKeeps, BecomesDueKeeps, QuietKeeps DEF WorldStep
  <2>2. executing' \subseteq executing
    BY <1>7 DEF WorldStep, Boot, Stop, Crash, LeaseExpires, TurnCompleted, BecomesDue, TrashWorkspace, envVars
  <2> QED BY <1>2, <2>1, <2>2
<1> QED BY <1>4, <1>5, <1>6, <1>7 DEF Next

\* The executions of the abstract specification.
Going == {<<r, runs[r].job>> : r \in executing}

LEMMA SameCardinality == \A S : Work!Cardinality(S) = Cardinality(S)
BY DEF Work!Cardinality, Cardinality

LEMMA StartTurnBegins ==
    ASSUME SchedInv, NEW r \in Runs, StartTurn(r)
    PROVE  /\ runs[r].job \in Jobs /\ \A w \in Going : w[1] # r /\ w[2] # runs[r].job
           /\ Cardinality(Going) < MaxConcurrent
           /\ Going' = Going \cup {<<r, runs[r].job>>}
<1> USE DEF SchedInv, ClaimInv
<1>1. active[r].phase = "starting" /\ executing' = executing \cup {r} /\ runs' = runs
  BY DEF StartTurn, Running, dbVars
<1>2. r \in Taken /\ r \notin executing /\ Taken \subseteq Runs
  BY <1>1 DEF ActiveIsClaimed, HoldsClaim, Taken, TurnsAreClaimed, Types, ProcTypes
<1>3. executing \subseteq Taken \ {r}
  BY <1>2 DEF TurnsAreClaimed
<1>4. \A q \in executing : q # r /\ runs[q].job # runs[r].job
  BY <1>2, <1>3 DEF ClaimsExclude
<1>5. runs[r].job \in Jobs
  BY <1>2 DEF ClaimsAreKnown, Taken, Types, RowTypes
<1>6. Going' = Going \cup {<<r, runs[r].job>>}
  BY <1>1 DEF Going
<1>7. \A w \in Going : w[1] # r /\ w[2] # runs[r].job
  BY <1>4 DEF Going
<1>8. Cardinality(Going) < MaxConcurrent
  <2>1. IsFiniteSet(Taken)
    BY <1>2, SchedulerConstants, FS_Subset
  <2>2. /\ IsFiniteSet(Taken \ {r}) /\ Cardinality(Taken \ {r}) = Cardinality(Taken) - 1
        /\ Cardinality(Taken) \in Nat
    BY <1>2, <2>1, FS_RemoveElement, FS_CardinalityType
  <2>3. IsFiniteSet(executing) /\ Cardinality(executing) <= Cardinality(Taken \ {r}) /\ Cardinality(executing) \in Nat
    BY <1>3, <2>2, FS_Subset, FS_CardinalityType
  <2> DEFINE f == [q \in executing |-> <<q, runs[q].job>>]
  <2>4. f \in Surjection(executing, Going)
    BY DEF Going, Surjection
  <2>5. Cardinality(Going) <= Cardinality(executing) /\ IsFiniteSet(Going)
    BY <2>3, <2>4, FS_Surjection
  <2>6. Cardinality(Going) \in Nat
    BY <2>5, FS_CardinalityType
  <2>7. Cardinality(Taken) <= MaxConcurrent
    BY DEF ClaimsExclude
  <2> QED BY <2>2, <2>3, <2>5, <2>6, <2>7, SchedulerConstants
<1> QED BY <1>5, <1>6, <1>7, <1>8

\* Whatever expires, crashes, times out or is deleted, a job never has two agent
\* turns going on and never more than maxConcurrentRuns go on together.
THEOREM AdmissionImplementsExclusiveWork == Spec => AdmissionIsExclusive
<1>1. Init => Work!Init
  BY DEF Init, Work!Init
<1>2. SchedInv /\ [Next]_schedVars => [Work!Next]_Going
  <2> SUFFICES ASSUME SchedInv, [Next]_schedVars
               PROVE  Work!Next \/ Going' = Going
    OBVIOUS
  <2>1. ASSUME NEW r \in Runs, StartTurn(r)
        PROVE  Work!Next
    <3>1. PICK j \in Jobs : /\ \A w \in Going : w[1] # r /\ w[2] # j
                            /\ Cardinality(Going) < MaxConcurrent
                            /\ Going' = Going \cup {<<r, j>>}
      BY <2>1, StartTurnBegins
    <3>2. Work!Begin(r, j)
      BY <3>1, SameCardinality DEF Work!Begin, Going
    <3> QED BY <3>2 DEF Work!Next
  <2>2. CASE executing' \subseteq executing /\ \A r \in executing : runs'[r].job = runs[r].job
    <3>1. Going' \subseteq Going
      BY <2>2 DEF Going
    <3> QED BY <3>1 DEF Work!Next, Work!End, Going
  <2>3. CASE UNCHANGED schedVars
    BY <2>3 DEF Going, schedVars, dbVars, envVars
  <2> QED BY <2>1, <2>2, <2>3, TurnsOnlyEnd
<1> QED BY <1>1, <1>2, SchedInvariant, PTL DEF Spec, AdmissionIsExclusive, Work!Spec, Going
=============================================================================
