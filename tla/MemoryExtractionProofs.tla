----------------------- MODULE MemoryExtractionProofs -----------------------
(***************************************************************************)
(* Theorems about MemoryExtraction, for any number of turns, workspaces,   *)
(* texts, executions, mode changes and removals.                           *)
(***************************************************************************)
EXTENDS MemoryExtraction, FiniteSetTheorems, WellFoundedInduction, TLAPS

(***************************************************************************)
(* The parts of the inductive invariant.                                   *)
(***************************************************************************)

\* An execution with its sources, receipts and candidates.
ExecutionRecord ==
    [state : {"unused", "active", "failed", "succeeded"}, owned : BOOLEAN,
     after : Int, through : Int, sources : SUBSET Turns, read : SUBSET Turns, noChange : SUBSET Turns,
     candidates : SUBSET [turn : Turns, body : Bodies], staged : SUBSET [turn : Turns, body : Bodies]]

\* Numbers and cursors are integers, and executions are records.
ReaderTypes ==
    /\ place \in [Turns -> Workspaces]
    /\ number \in [Turns -> Int]
    /\ counter \in [Workspaces -> Nat]
    /\ auto \in BOOLEAN /\ newer \in BOOLEAN /\ listeners \in Nat
    /\ cursor \in Nat \cup {NoCursor}
    /\ exec \in [Executions -> ExecutionRecord]
    /\ settled \subseteq Turns /\ passed \subseteq Turns

\* A workspace has given out every number its turns have.
NumbersGivenOut == \A t \in Turns : number[t] <= counter[place[t]]

CursorGivenOut == cursor <= Counter

\* The batch of an active execution: nothing readable of its range is missing,
\* and the range ends where numbers were already given out.
BatchComplete ==
    \A x \in Executions : exec[x].state = "active" =>
        /\ 0 <= exec[x].after /\ exec[x].after < exec[x].through /\ exec[x].through <= Counter
        /\ Readable(exec[x].after, exec[x].through) \subseteq exec[x].sources

\* What a (re)start passed over has finished, and stays behind the cursor.
PassedIsBehind ==
    \A t \in passed : /\ number[t] # Unfinished
                      /\ place[t] = Home /\ 0 < number[t] => number[t] <= cursor

ReaderInv ==
    /\ ReaderTypes /\ NumbersGivenOut /\ CursorGivenOut /\ BatchComplete
    /\ PassedIsBehind /\ NoTurnSkipped

-----------------------------------------------------------------------------
(***************************************************************************)
(* A finite set has an element with the greatest number.  The sets of the  *)
(* elements above each element are finite, so one of them is minimal.      *)
(***************************************************************************)
LEMMA GreatestExists ==
    ASSUME NEW S, IsFiniteSet(S), S # {}, NEW f, \A t \in S : f[t] \in Int
    PROVE  \E t \in S : \A u \in S : f[u] <= f[t]
<1> DEFINE Above(t) == {u \in S : f[u] > f[t]}
           Aboves == {Above(t) : t \in S}
           R == StrictSubsetOrdering(S)
<1>1. IsWellFoundedOn(R, SUBSET S)
  BY FS_StrictSubsetOrderingWellFounded, FS_FiniteSubsetsOfFinite
<1>2. Aboves \subseteq SUBSET S /\ Aboves # {}
  OBVIOUS
<1>3. \E A \in Aboves : \A B \in Aboves : ~(<<B, A>> \in R)
  <2> HIDE DEF R, Aboves
  <2> QED BY <1>1, <1>2, WFMin
<1>4. PICK t \in S : \A B \in Aboves : ~(<<B, Above(t)>> \in R)
  BY <1>3
<1>5. ASSUME NEW u \in S, f[u] > f[t] PROVE FALSE
  <2>1. Above(u) \subseteq Above(t)
    BY <1>5
  <2>2. u \in Above(t) /\ u \notin Above(u)
    BY <1>5
  <2>3. <<Above(u), Above(t)>> \in R
    BY <2>1, <2>2 DEF StrictSubsetOrdering
  <2>4. Above(u) \in Aboves
    OBVIOUS
  <2> QED BY <1>4, <2>3, <2>4
<1> QED BY <1>5

(***************************************************************************)
(* The last number of a batch is the number of one of its turns.           *)
(***************************************************************************)
LEMMA LastIsGreatest ==
    ASSUME ReaderTypes, NEW S \in SUBSET Turns, S # {}
    PROVE  \E t \in S : Last(S) = number[t] /\ \A u \in S : number[u] <= Last(S)
<1>1. IsFiniteSet(S)
  BY FS_Subset, ExtractionAssumption
<1>2. \A t \in S : number[t] \in Int
  BY DEF ReaderTypes, ExecutionRecord
<1>3. \E t \in S : \A u \in S : number[u] <= number[t]
  BY <1>1, <1>2, GreatestExists
<1>4. \E q \in {number[t] : t \in S} : \A t \in S : number[t] <= q
  BY <1>3
<1>5. Last(S) \in {number[t] : t \in S} /\ \A t \in S : number[t] <= Last(S)
  BY <1>4 DEF Last
<1> QED BY <1>5

(***************************************************************************)
(* A page holds every readable turn up to the last of its own.             *)
(***************************************************************************)
LEMMA PageIsPrefix ==
    ASSUME ReaderTypes, NEW n \in Nat, NEW u \in Page(cursor, n), NEW t \in Readable(cursor, number[u])
    PROVE  t \in Page(cursor, n)
<1>1. /\ t \in Turns /\ u \in Turns /\ number[t] \in Int /\ number[u] \in Int /\ cursor \in Int
      /\ Counter \in Int
  BY ExtractionAssumption DEF Page, Readable, ReaderTypes, ExecutionRecord, NoCursor, Counter
<1>2. number[t] <= number[u] /\ number[u] <= Counter
  BY DEF Readable, Page
<1>3. Readable(cursor, number[t]) \subseteq Readable(cursor, number[u])
  BY <1>1, <1>2 DEF Readable, ReaderTypes, ExecutionRecord
<1>4. IsFiniteSet(Readable(cursor, number[u]))
  BY FS_Subset, ExtractionAssumption DEF Readable
<1>5. /\ Cardinality(Readable(cursor, number[t])) \in Nat
      /\ Cardinality(Readable(cursor, number[u])) \in Nat
      /\ Cardinality(Readable(cursor, number[t])) <= Cardinality(Readable(cursor, number[u]))
  BY <1>3, <1>4, FS_Subset, FS_CardinalityType
<1>6. Cardinality(Readable(cursor, number[u])) <= n
  BY DEF Page
<1>7. t \in Readable(cursor, Counter)
  BY <1>1, <1>2 DEF Readable
<1>8. Cardinality(Readable(cursor, number[t])) <= n
  BY <1>5, <1>6
<1> QED BY <1>7, <1>8 DEF Page

(***************************************************************************)
(* What a batch answers for is in it.                                      *)
(***************************************************************************)
LEMMA ThroughIsCovered ==
    ASSUME ReaderTypes, NEW n \in Nat \ {0}, Cardinality(Page(cursor, n)) = n, Counter > cursor
    PROVE  LET picked == Page(cursor, n)
           IN  /\ Through(picked) \in Int
               /\ cursor < Through(picked) /\ Through(picked) <= Counter
               /\ Readable(cursor, Through(picked)) \subseteq picked
<1> DEFINE picked == Page(cursor, n)
<1>1. cursor \in Int /\ Counter \in Int
  BY ExtractionAssumption DEF ReaderTypes, ExecutionRecord, NoCursor, Counter
<1>2. CASE picked = Readable(cursor, Counter)
  BY <1>1, <1>2 DEF Through
<1>3. CASE picked # Readable(cursor, Counter)
  <2>1. picked # {}
    BY FS_EmptySet
  <2>2. picked \subseteq Turns
    BY DEF Page, Readable
  <2>3. PICK u \in picked : Last(picked) = number[u]
    BY <2>1, <2>2, LastIsGreatest
  <2>4. number[u] \in Int /\ cursor < number[u] /\ number[u] <= Counter
    BY <2>2 DEF Page, Readable, ReaderTypes, ExecutionRecord
  <2>5. Readable(cursor, number[u]) \subseteq picked
    BY PageIsPrefix
  <2> QED BY <1>3, <2>3, <2>4, <2>5 DEF Through
<1> QED BY <1>2, <1>3

-----------------------------------------------------------------------------
(***************************************************************************)
(* What a step of the feed does to a reader of Home: a readable turn was   *)
(* readable with the same number before, or has just been given a number   *)
(* beyond the counter.                                                     *)
(***************************************************************************)
LEMMA FeedEffect ==
    ASSUME ReaderTypes, NumbersGivenOut, FeedNext
    PROVE  /\ place' \in [Turns -> Workspaces] /\ number' \in [Turns -> Int]
           /\ counter' \in [Workspaces -> Nat]
           /\ \A w \in Workspaces : counter[w] <= counter'[w]
           /\ NumbersGivenOut'
           /\ \A t \in Turns : number[t] # Unfinished => number'[t] # Unfinished
           /\ \A t \in Turns : place'[t] = Home /\ 0 < number'[t] =>
                 \/ place[t] = Home /\ number'[t] = number[t]
                 \/ number[t] = Unfinished /\ number'[t] > Counter
<1> DEFINE Goal ==
           /\ place' \in [Turns -> Workspaces] /\ number' \in [Turns -> Int]
           /\ counter' \in [Workspaces -> Nat]
           /\ \A w \in Workspaces : counter[w] <= counter'[w]
           /\ NumbersGivenOut'
           /\ \A t \in Turns : number[t] # Unfinished => number'[t] # Unfinished
           /\ \A t \in Turns : place'[t] = Home /\ 0 < number'[t] =>
                 \/ place[t] = Home /\ number'[t] = number[t]
                 \/ number[t] = Unfinished /\ number'[t] > Counter
<1> USE DEF ReaderTypes, ExecutionRecord, NumbersGivenOut, Unfinished, Unnumbered, Counter
<1>1. ASSUME NEW t \in Turns, Complete(t) PROVE Goal
  <2> DEFINE w == place[t]
  <2>1. w \in Workspaces /\ counter[w] \in Nat
    OBVIOUS
  <2>2. /\ number[t] = Unfinished /\ place' = place
        /\ number' = [number EXCEPT ![t] = counter[w] + 1]
        /\ counter' = [counter EXCEPT ![w] = counter[w] + 1]
    BY <1>1 DEF Complete
  <2>3. /\ counter'[w] = counter[w] + 1
        /\ \A v \in Workspaces \ {w} : counter'[v] = counter[v]
    BY <2>1, <2>2
  <2>4. /\ number'[t] = counter[w] + 1
        /\ \A u \in Turns \ {t} : number'[u] = number[u]
    BY <2>2
  <2>5. \A v \in Workspaces : counter[v] \in Nat /\ counter[v] <= counter'[v]
    BY <2>1, <2>3
  <2>6. NumbersGivenOut'
    <3> SUFFICES ASSUME NEW u \in Turns PROVE number'[u] <= counter'[place[u]]
      BY <2>2
    <3>1. CASE u = t
      BY <3>1, <2>3, <2>4, <2>1
    <3>2. CASE u # t
      <4>1. place[u] \in Workspaces /\ number[u] <= counter[place[u]] /\ number[u] \in Int
        OBVIOUS
      <4>2. counter[place[u]] <= counter'[place[u]] /\ counter'[place[u]] \in Nat
        BY <4>1, <2>2, <2>5
      <4> QED BY <3>2, <2>4, <4>1, <4>2
    <3> QED BY <3>1, <3>2
  <2>7. place' \in [Turns -> Workspaces] /\ number' \in [Turns -> Int] /\ counter' \in [Workspaces -> Nat]
    BY <2>1, <2>2
  <2>8. \A u \in Turns : number[u] # Unfinished => number'[u] # Unfinished
    BY <2>1, <2>2, <2>4
  <2>9. \A u \in Turns : place'[u] = Home /\ 0 < number'[u] =>
           \/ place[u] = Home /\ number'[u] = number[u]
           \/ number[u] = Unfinished /\ number'[u] > Counter
    <3> SUFFICES ASSUME NEW u \in Turns, place[u] = Home
                 PROVE  \/ number'[u] = number[u]
                        \/ number[u] = Unfinished /\ number'[u] > Counter
      BY <2>2
    <3>1. CASE u = t
      BY <3>1, <2>1, <2>2, <2>4
    <3>2. CASE u # t
      BY <3>2, <2>4
    <3> QED BY <3>1, <3>2
  <2> QED BY <2>5, <2>6, <2>7, <2>8, <2>9
<1>2. ASSUME NEW S \in SUBSET Turns, EndUntold(S) PROVE Goal
  <2>1. /\ place' = place /\ counter' = counter
        /\ number' = [t \in Turns |-> IF t \in S THEN 0 ELSE number[t]]
        /\ \A t \in S : number[t] = Unfinished
    BY <1>2 DEF EndUntold
  <2>2. \A t \in Turns : number'[t] = IF t \in S THEN 0 ELSE number[t]
    BY <2>1
  <2>3. \A t \in Turns : place[t] \in Workspaces /\ counter[place[t]] \in Nat
    OBVIOUS
  <2> QED BY <2>1, <2>2, <2>3
<1>3. ASSUME NEW S \in SUBSET Turns, NEW to \in Workspaces, Move(S, to) PROVE Goal
  <2>1. /\ counter' = counter
        /\ place' = [t \in Turns |-> IF t \in S THEN to ELSE place[t]]
        /\ number' = [t \in Turns |-> IF t \in S /\ place[t] # to /\ number[t] # Unfinished
                                      THEN 0 ELSE number[t]]
    BY <1>3 DEF Move
  <2>2. \A t \in Turns : /\ place'[t] = IF t \in S THEN to ELSE place[t]
                         /\ number'[t] = IF t \in S /\ place[t] # to /\ number[t] # Unfinished
                                         THEN 0 ELSE number[t]
    BY <2>1
  <2>3. \A t \in Turns : /\ place[t] \in Workspaces /\ counter[place[t]] \in Nat
                         /\ counter[to] \in Nat /\ number[t] \in Int
    OBVIOUS
  <2>4. NumbersGivenOut'
    BY <2>1, <2>2, <2>3
  <2>5. \A t \in Turns : number[t] # Unfinished => number'[t] # Unfinished
    BY <2>2
  <2>6. \A t \in Turns : place'[t] = Home /\ 0 < number'[t] => place[t] = Home /\ number'[t] = number[t]
    BY <2>2, <2>3
  <2> QED BY <2>1, <2>3, <2>4, <2>5, <2>6
<1> QED BY <1>1, <1>2, <1>3 DEF FeedNext

(***************************************************************************)
(* A step of the feed keeps the invariant: a new turn is beyond the cursor *)
(* and beyond every batch.                                                 *)
(***************************************************************************)
LEMMA FeedKeepsInv == ReaderInv /\ FeedStep => ReaderInv'
<1> SUFFICES ASSUME ReaderInv, FeedStep PROVE ReaderInv'
  OBVIOUS
<1> USE DEF ReaderInv
<1>1. UNCHANGED <<auto, newer, listeners, cursor, exec, passed, settled>>
  BY DEF FeedStep, extractionVars, modeVars, readVars
<1>2. /\ place' \in [Turns -> Workspaces] /\ number' \in [Turns -> Int]
      /\ counter' \in [Workspaces -> Nat]
      /\ Counter <= Counter' /\ NumbersGivenOut'
      /\ \A t \in Turns : number[t] # Unfinished => number'[t] # Unfinished
      /\ \A t \in Turns : place'[t] = Home /\ 0 < number'[t] =>
            \/ place[t] = Home /\ number'[t] = number[t]
            \/ number[t] = Unfinished /\ number'[t] > Counter
  BY FeedEffect, ExtractionAssumption DEF FeedStep, Counter
<1>3. /\ Counter \in Nat /\ Counter' \in Nat /\ cursor \in Int
      /\ \A t \in Turns : number[t] \in Int /\ number'[t] \in Int
  BY <1>2, ExtractionAssumption DEF Counter, ReaderTypes, ExecutionRecord, NoCursor
<1>4. ReaderTypes'
  BY <1>1, <1>2 DEF ReaderTypes, ExecutionRecord, Readable
<1>5. CursorGivenOut'
  BY <1>1, <1>2, <1>3 DEF CursorGivenOut
<1>6. BatchComplete'
  <2> SUFFICES ASSUME NEW x \in Executions, exec[x].state = "active"
               PROVE  /\ 0 <= exec[x].after /\ exec[x].after < exec[x].through
                      /\ exec[x].through <= Counter'
                      /\ Readable(exec[x].after, exec[x].through)' \subseteq exec[x].sources
    BY <1>1 DEF BatchComplete, Readable
  <2>1. /\ exec[x].after \in Int /\ exec[x].through \in Int
        /\ 0 <= exec[x].after /\ exec[x].after < exec[x].through /\ exec[x].through <= Counter
        /\ Readable(exec[x].after, exec[x].through) \subseteq exec[x].sources
    BY DEF BatchComplete, ReaderTypes, ExecutionRecord
  <2>2. ASSUME NEW t \in Turns, place'[t] = Home, exec[x].after < number'[t], number'[t] <= exec[x].through
        PROVE  t \in exec[x].sources
    <3>1. 0 < number'[t] => place[t] = Home /\ number'[t] = number[t]
      BY <1>2, <1>3, <2>1, <2>2
    <3> QED BY <1>3, <2>1, <2>2, <3>1 DEF Readable
  <2>3. Readable(exec[x].after, exec[x].through)' \subseteq exec[x].sources
    BY <1>1, <2>2 DEF Readable
  <2> QED BY <1>2, <1>3, <2>1, <2>3
<1>7. PassedIsBehind'
  <2> SUFFICES ASSUME NEW t \in passed
               PROVE  /\ number'[t] # Unfinished
                      /\ place'[t] = Home /\ 0 < number'[t] => number'[t] <= cursor
    BY <1>1 DEF PassedIsBehind
  <2>1. t \in Turns /\ number[t] # Unfinished /\ (place[t] = Home /\ 0 < number[t] => number[t] <= cursor)
    BY DEF PassedIsBehind, ReaderTypes
  <2>2. number'[t] # Unfinished
    BY <1>2, <2>1
  <2>3. place'[t] = Home /\ 0 < number'[t] => place[t] = Home /\ number'[t] = number[t]
    BY <1>2, <2>1
  <2> QED BY <2>1, <2>2, <2>3
<1>8. NoTurnSkipped'
  BY <1>1, <1>2, <1>3 DEF NoTurnSkipped, Readable, CursorGivenOut
<1> QED BY <1>2, <1>4, <1>5, <1>6, <1>7, <1>8

-----------------------------------------------------------------------------
(***************************************************************************)
(* The parts that speak of executions survive a step that leaves the feed  *)
(* alone and in which an active execution was active with the same batch;  *)
(* no execution gains a source in it.                                      *)
(***************************************************************************)
SameBatches ==
    /\ exec' \in [Executions -> ExecutionRecord]
    /\ \A x \in Executions :
          /\ exec'[x].sources \subseteq exec[x].sources
          /\ exec'[x].state = "active" =>
                /\ exec[x].state = "active"
                /\ exec'[x].after = exec[x].after /\ exec'[x].through = exec[x].through
                /\ exec'[x].sources = exec[x].sources

LEMMA SameBatchesKeepInv ==
    ASSUME ReaderInv, UNCHANGED feedVars, SameBatches
    PROVE  NumbersGivenOut' /\ BatchComplete'
<1> USE DEF ReaderInv, SameBatches
<1>1. place' = place /\ number' = number /\ counter' = counter /\ Counter' = Counter
  BY DEF feedVars, Counter
<1>2. NumbersGivenOut'
  BY <1>1 DEF NumbersGivenOut
<1>3. \A p, q : Readable(p, q)' = Readable(p, q)
  BY <1>1 DEF Readable
<1>4. BatchComplete'
  <2> SUFFICES ASSUME NEW x \in Executions, exec'[x].state = "active"
               PROVE  /\ 0 <= exec'[x].after /\ exec'[x].after < exec'[x].through
                      /\ exec'[x].through <= Counter
                      /\ Readable(exec[x].after, exec[x].through) \subseteq exec'[x].sources
    BY <1>1, <1>3 DEF BatchComplete, Readable
  <2> QED BY DEF BatchComplete
<1> QED BY <1>2, <1>4

(***************************************************************************)
(* An execution that was never planned.                                    *)
(***************************************************************************)
LEMMA EmptyExecution ==
    NoExecution \in ExecutionRecord /\ NoExecution.sources = {} /\ NoExecution.state = "unused"
BY DEF NoExecution, ExecutionRecord

LEMMA PlannedExecution ==
    ASSUME NEW p \in Int, NEW q \in Int, NEW S \in SUBSET Turns
    PROVE  [NoExecution EXCEPT !.state = "active", !.owned = TRUE, !.after = p, !.through = q,
                               !.sources = S] \in ExecutionRecord
<1>1. [NoExecution EXCEPT !.state = "active"] \in ExecutionRecord
  BY EmptyExecution DEF ExecutionRecord
<1>2. [NoExecution EXCEPT !.state = "active", !.owned = TRUE, !.after = p] \in ExecutionRecord
  BY <1>1 DEF ExecutionRecord
<1>3. [NoExecution EXCEPT !.state = "active", !.owned = TRUE, !.after = p, !.through = q] \in ExecutionRecord
  BY <1>2 DEF ExecutionRecord
<1> QED BY <1>3 DEF ExecutionRecord

(***************************************************************************)
(* A finished execution keeps no batch.                                    *)
(***************************************************************************)
LEMMA FinishedIsEmpty ==
    ASSUME NEW outcome \in {"failed", "succeeded"}
    PROVE  /\ Finished(outcome) \in ExecutionRecord
           /\ Finished(outcome).sources = {} /\ Finished(outcome).state = outcome
<1>1. Finished(outcome) \in ExecutionRecord
  BY EmptyExecution DEF Finished, ExecutionRecord
<1>2. Finished(outcome).sources = NoExecution.sources /\ Finished(outcome).state = outcome
  BY EmptyExecution DEF Finished, ExecutionRecord
<1> QED BY <1>1, <1>2, EmptyExecution

(***************************************************************************)
(* An orphan fails; every other execution stays.                           *)
(***************************************************************************)
LEMMA OrphansFailedTypes ==
    ASSUME ReaderTypes
    PROVE  /\ OrphansFailed \in [Executions -> ExecutionRecord]
           /\ \A y \in Executions : /\ OrphansFailed[y].state # "active"
                                    /\ OrphansFailed[y].sources \subseteq exec[y].sources
<1>1. \A y \in Executions : exec[y] \in ExecutionRecord
  BY DEF ReaderTypes
<1> QED BY <1>1, FinishedIsEmpty DEF OrphansFailed

(***************************************************************************)
(* Steps of an execution that neither plan nor settle: the agent's tools,  *)
(* failures and losses.                                                    *)
(***************************************************************************)
LEMMA WorkIsSameBatches ==
    ASSUME ReaderTypes, NEW x \in Executions,
           \/ \E t \in Turns : \/ \E gone \in BOOLEAN : ReadSource(x, t, gone)
                               \/ \E b \in Bodies : Propose(x, t, b)
                               \/ NoChange(x, t)
           \/ SettleFails(x) \/ LoseRun(x)
    PROVE  SameBatches /\ UNCHANGED <<feedVars, modeVars, cursor, readVars>>
<1>1. exec \in [Executions -> ExecutionRecord] /\ exec[x] \in ExecutionRecord
  BY DEF ReaderTypes
<1>2. ASSUME NEW e \in ExecutionRecord, exec' = [exec EXCEPT ![x] = e],
             \/ e.sources = {} /\ e.state # "active"
             \/ /\ e.state = exec[x].state /\ e.after = exec[x].after /\ e.through = exec[x].through
                /\ e.sources = exec[x].sources
      PROVE  SameBatches
  BY <1>1, <1>2 DEF SameBatches
<1>3. CASE \E t \in Turns : \E gone \in BOOLEAN : ReadSource(x, t, gone)
  <2> PICK t \in Turns, gone \in BOOLEAN : ReadSource(x, t, gone)
    BY <1>3
  <2> DEFINE e == [exec[x] EXCEPT !.read = @ \cup {t}, !.noChange = IF gone THEN @ \cup {t} ELSE @]
  <2>1. e \in ExecutionRecord
    BY <1>1 DEF ExecutionRecord
  <2>2. exec' = [exec EXCEPT ![x] = e]
    BY DEF ReadSource
  <2>3. /\ e.state = exec[x].state /\ e.after = exec[x].after /\ e.through = exec[x].through
        /\ e.sources = exec[x].sources
    BY <1>1 DEF ExecutionRecord
  <2> HIDE DEF e
  <2> QED BY <1>2, <2>1, <2>2, <2>3 DEF ReadSource
<1>4. CASE \E t \in Turns : \E b \in Bodies : Propose(x, t, b)
  <2> PICK t \in Turns, b \in Bodies : Propose(x, t, b)
    BY <1>4
  <2> DEFINE c == [turn |-> t, body |-> b]
             known == TombstoneBlocks(c) \/ FindSameBody(b)
             e == [exec[x] EXCEPT !.candidates = @ \cup {c}, !.staged = IF known THEN @ ELSE @ \cup {c}]
  <2>1. e \in ExecutionRecord
    <3>1. c \in [turn : Turns, body : Bodies]
      OBVIOUS
    <3> HIDE DEF c, known
    <3> QED BY <1>1, <3>1 DEF ExecutionRecord
  <2>2. exec' = [exec EXCEPT ![x] = e]
    BY DEF Propose
  <2>3. /\ e.state = exec[x].state /\ e.after = exec[x].after /\ e.through = exec[x].through
        /\ e.sources = exec[x].sources
    BY <1>1 DEF ExecutionRecord
  <2> HIDE DEF e
  <2> QED BY <1>2, <2>1, <2>2, <2>3 DEF Propose
<1>5. CASE \E t \in Turns : NoChange(x, t)
  <2> PICK t \in Turns : NoChange(x, t)
    BY <1>5
  <2> DEFINE e == [exec[x] EXCEPT !.noChange = @ \cup {t}]
  <2>1. e \in ExecutionRecord
    BY <1>1 DEF ExecutionRecord
  <2>2. exec' = [exec EXCEPT ![x] = e]
    BY DEF NoChange
  <2>3. /\ e.state = exec[x].state /\ e.after = exec[x].after /\ e.through = exec[x].through
        /\ e.sources = exec[x].sources
    BY <1>1 DEF ExecutionRecord
  <2> HIDE DEF e
  <2> QED BY <1>2, <2>1, <2>2, <2>3 DEF NoChange
<1>6. CASE SettleFails(x)
  BY <1>2, <1>6, FinishedIsEmpty DEF SettleFails
<1>7. CASE LoseRun(x)
  <2> DEFINE e == [exec[x] EXCEPT !.owned = FALSE]
  <2>1. e \in ExecutionRecord
    BY <1>1 DEF ExecutionRecord
  <2>2. exec' = [exec EXCEPT ![x] = e]
    BY <1>7 DEF LoseRun
  <2>3. /\ e.state = exec[x].state /\ e.after = exec[x].after /\ e.through = exec[x].through
        /\ e.sources = exec[x].sources
    BY <1>1 DEF ExecutionRecord
  <2> HIDE DEF e
  <2> QED BY <1>2, <1>7, <2>1, <2>2, <2>3 DEF LoseRun
<1> QED BY <1>3, <1>4, <1>5, <1>6, <1>7

-----------------------------------------------------------------------------
(***************************************************************************)
(* Planning keeps the invariant: the batch is a prefix of what is readable *)
(* behind the cursor, so nothing in it was passed over.                    *)
(***************************************************************************)
LEMMA PlanKeepsInv ==
    ASSUME ReaderInv, NEW x \in Executions, Plan(x)
    PROVE  /\ ReaderInv'
           /\ \A y \in Executions : (exec'[y].sources \ exec[y].sources) \cap passed = {}
<1> USE DEF ReaderInv
<1>1. /\ UNCHANGED <<feedVars, auto, newer, listeners, cursor, passed, settled>>
      /\ auto /\ cursor # NoCursor /\ Counter > cursor
  BY DEF Plan, MayPlan, modeVars, readVars
<1>2. PICK n \in 1 .. MaxSources :
         /\ Cardinality(Page(cursor, n)) = n
         /\ exec' = [OrphansFailed EXCEPT ![x] =
               [NoExecution EXCEPT !.state = "active", !.owned = TRUE, !.after = cursor,
                                   !.through = Through(Page(cursor, n)), !.sources = Page(cursor, n)]]
  BY DEF Plan
<1> DEFINE picked == Page(cursor, n)
           e == [NoExecution EXCEPT !.state = "active", !.owned = TRUE, !.after = cursor,
                                    !.through = Through(picked), !.sources = picked]
<1>3. n \in Nat \ {0} /\ cursor \in Nat /\ Counter \in Nat
  BY <1>1, ExtractionAssumption DEF ReaderTypes, NoCursor, Counter
<1>4. /\ Through(picked) \in Int /\ cursor < Through(picked) /\ Through(picked) <= Counter
      /\ Readable(cursor, Through(picked)) \subseteq picked
  BY <1>1, <1>2, <1>3, ThroughIsCovered
<1>5. picked \subseteq Turns /\ picked \subseteq Readable(cursor, Counter)
  BY DEF Page, Readable
<1>6. e.state = "active" /\ e.after = cursor /\ e.through = Through(picked) /\ e.sources = picked
  <2> HIDE DEF picked
  <2> QED BY EmptyExecution DEF ExecutionRecord
<1>7. e \in ExecutionRecord
  <2>1. cursor \in Int /\ picked \in SUBSET Turns
    BY <1>3, <1>5
  <2> HIDE DEF picked
  <2> QED BY <1>4, <2>1, PlannedExecution
<1>8. picked \cap passed = {}
  BY <1>1, <1>3, <1>5 DEF Readable, ReaderTypes, PassedIsBehind
<1>9. /\ e.state = "active" /\ e.after = cursor /\ e.through = Through(picked) /\ e.sources = picked
      /\ exec' = [OrphansFailed EXCEPT ![x] = e]
  BY <1>2, <1>6
<1> HIDE DEF e, picked
<1>10. /\ place' = place /\ number' = number /\ counter' = counter /\ Counter' = Counter
       /\ \A p, q : Readable(p, q)' = Readable(p, q)
  BY <1>1 DEF feedVars, Counter, Readable
<1>11. /\ exec' \in [Executions -> ExecutionRecord]
       /\ exec'[x] = e
       /\ \A y \in Executions \ {x} : exec'[y].state # "active" /\ exec'[y].sources \subseteq exec[y].sources
  BY <1>7, <1>9, OrphansFailedTypes
<1>12. ReaderTypes' /\ NumbersGivenOut' /\ CursorGivenOut'
  BY <1>1, <1>10, <1>11 DEF ReaderTypes, NumbersGivenOut, CursorGivenOut
<1>13. BatchComplete'
  <2> SUFFICES ASSUME NEW y \in Executions, exec'[y].state = "active"
               PROVE  /\ 0 <= exec'[y].after /\ exec'[y].after < exec'[y].through
                      /\ exec'[y].through <= Counter
                      /\ Readable(exec'[y].after, exec'[y].through) \subseteq exec'[y].sources
    BY <1>10 DEF BatchComplete, Readable
  <2>1. y = x
    BY <1>11
  <2>2. exec'[y].after = cursor /\ exec'[y].through = Through(picked) /\ exec'[y].sources = picked
    BY <1>9, <1>11, <2>1
  <2>3. Readable(exec'[y].after, exec'[y].through) \subseteq exec'[y].sources
    BY <1>4, <2>2
  <2> QED BY <1>3, <1>4, <2>2, <2>3
<1>14. PassedIsBehind' /\ NoTurnSkipped'
  BY <1>1, <1>10 DEF PassedIsBehind, NoTurnSkipped, Readable
<1>15. \A y \in Executions : (exec'[y].sources \ exec[y].sources) \cap passed = {}
  BY <1>8, <1>9, <1>11
<1> QED BY <1>12, <1>13, <1>14, <1>15

(***************************************************************************)
(* Settling keeps it: the cursor is still where the batch begins, so what  *)
(* it passes is in the batch.                                              *)
(***************************************************************************)
LEMMA SettleKeepsInv ==
    ASSUME ReaderInv, NEW x \in Executions, Settle(x)
    PROVE  ReaderInv' /\ SameBatches
<1> USE DEF ReaderInv
<1>1. /\ UNCHANGED <<feedVars, auto, newer, listeners, passed>>
      /\ exec[x].state = "active" /\ cursor = exec[x].after /\ cursor' = exec[x].through
      /\ exec' = [exec EXCEPT ![x] = Finished("succeeded")]
      /\ settled' = settled \cup exec[x].sources
  BY DEF Settle, CursorHeld, modeVars
<1>2. SameBatches
  BY <1>1, FinishedIsEmpty DEF SameBatches, ReaderTypes
<1>3. NumbersGivenOut' /\ BatchComplete'
  BY <1>1, <1>2, SameBatchesKeepInv
<1>4. place' = place /\ number' = number /\ counter' = counter /\ Counter' = Counter
  BY <1>1 DEF feedVars, Counter
<1>5. /\ 0 <= cursor /\ cursor < cursor' /\ cursor' <= Counter /\ cursor \in Int /\ cursor' \in Nat
      /\ Readable(cursor, cursor') \subseteq exec[x].sources
      /\ exec[x].sources \subseteq Turns
  <2>1. /\ exec[x].through \in Int /\ exec[x].after \in Int /\ 0 <= exec[x].after
        /\ exec[x].after < exec[x].through /\ exec[x].through <= Counter
        /\ Readable(exec[x].after, exec[x].through) \subseteq exec[x].sources
        /\ exec[x].sources \subseteq Turns
    BY <1>1 DEF BatchComplete, ReaderTypes, ExecutionRecord
  <2> QED BY <1>1, <2>1
<1>6. ReaderTypes' /\ CursorGivenOut'
  BY <1>1, <1>2, <1>4, <1>5 DEF ReaderTypes, CursorGivenOut, SameBatches
<1>7. PassedIsBehind'
  <2>1. \A t \in passed : t \in Turns /\ number[t] \in Int
    BY DEF ReaderTypes
  <2> QED BY <1>1, <1>4, <1>5, <2>1 DEF PassedIsBehind
<1>8. NoTurnSkipped'
  <2> SUFFICES ASSUME NEW t \in Turns, place[t] = Home, 0 < number[t], number[t] <= cursor'
               PROVE  t \in settled' \cup passed'
    BY <1>4 DEF NoTurnSkipped, Readable
  <2>1. number[t] \in Int
    BY DEF ReaderTypes
  <2>2. CASE number[t] <= cursor
    BY <1>1, <2>2 DEF NoTurnSkipped, Readable
  <2>3. CASE cursor < number[t]
    BY <1>1, <1>5, <2>3 DEF Readable
  <2> QED BY <1>5, <2>1, <2>2, <2>3
<1> QED BY <1>2, <1>3, <1>6, <1>7, <1>8

(***************************************************************************)
(* Where a start or restart puts the cursor, or a page with nothing on it  *)
(* moves it to, every earlier turn is accounted for.                       *)
(***************************************************************************)
LEMMA CursorMovesKeepInv ==
    ASSUME ReaderInv, Enroll \/ SwitchOff \/ SwitchOn \/ RestartCursors \/ LoseListener \/ PlanSkips
    PROVE  ReaderInv' /\ SameBatches
<1> USE DEF ReaderInv, modeVars, readVars
<1>1. UNCHANGED feedVars
  BY DEF Enroll, SwitchOff, SwitchOn, RestartCursors, LoseListener, PlanSkips
<1>2. SameBatches
  <2>1. CASE Enroll \/ SwitchOff \/ SwitchOn \/ RestartCursors \/ LoseListener
    BY <2>1 DEF Enroll, SwitchOff, SwitchOn, RestartCursors, LoseListener, SameBatches, ReaderTypes
  <2>2. CASE PlanSkips
    BY <2>2, OrphansFailedTypes DEF PlanSkips, SameBatches
  <2> QED BY <2>1, <2>2
<1>3. NumbersGivenOut' /\ BatchComplete'
  BY <1>1, <1>2, SameBatchesKeepInv
<1>4. /\ place' = place /\ number' = number /\ counter' = counter /\ Counter' = Counter
      /\ Counter \in Nat /\ cursor \in Int /\ cursor <= Counter
  BY <1>1, ExtractionAssumption DEF feedVars, Counter, ReaderTypes, NoCursor, CursorGivenOut
<1>5. \A t \in Turns : number[t] \in Int /\ (place[t] = Home => number[t] <= Counter)
  BY DEF ReaderTypes, NumbersGivenOut, Counter
<1>6. \A p, q : Readable(p, q) \subseteq Turns
  BY DEF Readable
<1> DEFINE Kept == ReaderTypes' /\ CursorGivenOut' /\ PassedIsBehind' /\ NoTurnSkipped'
<1>7. ASSUME NEW c \in Int, c = NoCursor \/ c \in Nat, cursor <= c, c <= Counter,
             cursor' = c, passed' = passed \cup Readable(0, c), settled' = settled,
             auto' \in BOOLEAN, newer' \in BOOLEAN, listeners' \in Nat
      PROVE  Kept
  <2>1. ReaderTypes' /\ CursorGivenOut'
    BY <1>1, <1>2, <1>4, <1>6, <1>7 DEF ReaderTypes, CursorGivenOut, SameBatches
  <2>2. ASSUME NEW t \in passed \cup Readable(0, c)
        PROVE  number[t] # Unfinished /\ (place[t] = Home /\ 0 < number[t] => number[t] <= c)
    <3>1. CASE t \in passed
      BY <1>4, <1>5, <1>7, <3>1 DEF PassedIsBehind, ReaderTypes
    <3>2. CASE t \in Readable(0, c)
      BY <1>5, <3>2 DEF Readable, Unfinished
    <3> QED BY <3>1, <3>2
  <2>3. PassedIsBehind'
    BY <1>4, <1>7, <2>2 DEF PassedIsBehind
  <2>4. NoTurnSkipped'
    BY <1>4, <1>7 DEF NoTurnSkipped, Readable
  <2> QED BY <2>1, <2>3, <2>4
<1>8. CASE Enroll
  <2>1. StartAt \in Nat /\ StartAt <= Counter /\ NoCursor <= StartAt
    BY <1>4 DEF StartAt, NoCursor
  <2> QED BY <1>3, <1>2, <1>4, <1>7, <1>8, <2>1 DEF Enroll, ReaderTypes
<1>9. CASE RestartCursors
  <2>1. RestartAt \in Int /\ (RestartAt = NoCursor \/ RestartAt \in Nat)
        /\ cursor <= RestartAt /\ RestartAt <= Counter
    BY <1>4 DEF RestartAt, ReaderTypes
  <2>2. listeners - 1 \in Nat
    BY <1>9 DEF RestartCursors, ReaderTypes
  <2> QED BY <1>3, <1>2, <1>7, <1>9, <2>1, <2>2 DEF RestartCursors, ReaderTypes
<1>10. CASE SwitchOff \/ SwitchOn \/ LoseListener
  <2>1. cursor' = cursor /\ passed' = passed /\ settled' = settled /\ newer' = newer
    BY <1>10 DEF SwitchOff, SwitchOn, LoseListener
  <2>2. auto' \in BOOLEAN
    BY <1>10 DEF SwitchOff, SwitchOn, LoseListener, ReaderTypes
  <2>3. listeners' \in Nat
    <3>1. listeners \in Nat
      BY DEF ReaderTypes
    <3> QED BY <1>10, <3>1 DEF SwitchOff, SwitchOn, LoseListener
  <2>4. ReaderTypes' /\ CursorGivenOut'
    BY <1>1, <1>2, <1>4, <2>1, <2>2, <2>3 DEF ReaderTypes, CursorGivenOut, SameBatches
  <2>5. PassedIsBehind' /\ NoTurnSkipped'
    BY <1>4, <2>1 DEF PassedIsBehind, NoTurnSkipped, Readable
  <2> QED BY <1>2, <1>3, <2>4, <2>5
<1>11. CASE PlanSkips
  <2>1. /\ auto' = auto /\ newer' = newer /\ listeners' = listeners /\ cursor' = Counter
        /\ passed' = passed /\ settled' = settled
        /\ Readable(cursor, Counter) = {} /\ cursor # NoCursor
    BY <1>11 DEF PlanSkips, MayPlan
  <2>2. ReaderTypes' /\ CursorGivenOut'
    BY <1>1, <1>2, <1>4, <2>1 DEF ReaderTypes, CursorGivenOut, SameBatches
  <2>3. PassedIsBehind'
    BY <1>4, <1>5, <2>1 DEF PassedIsBehind, ReaderTypes
  <2>4. NoTurnSkipped'
    BY <1>4, <1>5, <2>1 DEF NoTurnSkipped, Readable
  <2> QED BY <1>2, <1>3, <2>2, <2>3, <2>4
<1> QED BY <1>8, <1>9, <1>10, <1>11

(***************************************************************************)
(* Every step keeps the invariant, and picks nothing that was passed over. *)
(***************************************************************************)
LEMMA StepKeepsInv ==
    ASSUME ReaderInv, [ExtractionNext]_readerVars
    PROVE  /\ ReaderInv'
           /\ \A y \in Executions : (exec'[y].sources \ exec[y].sources) \cap passed = {}
<1> DEFINE PicksNoneOfIt == \A y \in Executions : (exec'[y].sources \ exec[y].sources) \cap passed = {}
<1>1. SameBatches => PicksNoneOfIt
  BY DEF SameBatches
<1>2. ASSUME SameBatches, UNCHANGED <<feedVars, modeVars, cursor, readVars>>
      PROVE  ReaderInv'
  <2>1. NumbersGivenOut' /\ BatchComplete'
    BY <1>2, SameBatchesKeepInv
  <2>2. place' = place /\ number' = number /\ counter' = counter /\ Counter' = Counter
    BY <1>2 DEF feedVars, Counter
  <2>3. ReaderTypes'
    BY <1>2, <2>2 DEF ReaderTypes, SameBatches, ReaderInv, modeVars, readVars
  <2>4. CursorGivenOut' /\ PassedIsBehind' /\ NoTurnSkipped'
    BY <1>2, <2>2 DEF CursorGivenOut, PassedIsBehind, NoTurnSkipped, Readable, ReaderInv, readVars
  <2> QED BY <2>1, <2>3, <2>4 DEF ReaderInv
<1>3. ASSUME exec' = exec PROVE SameBatches
  BY <1>3 DEF ReaderInv, ReaderTypes, SameBatches
<1>4. CASE FeedStep
  <2>1. SameBatches
    BY <1>3, <1>4 DEF FeedStep, extractionVars
  <2> QED BY <1>1, <1>4, <2>1, FeedKeepsInv
<1>5. CASE Enroll \/ SwitchOff \/ SwitchOn \/ RestartCursors \/ LoseListener \/ PlanSkips
  BY <1>1, <1>5, CursorMovesKeepInv
<1>6. CASE \E x \in Executions : Plan(x)
  BY <1>6, PlanKeepsInv
<1>7. CASE \E x \in Executions : Settle(x)
  BY <1>1, <1>7, SettleKeepsInv
<1>8. ASSUME NEW x \in Executions,
             \/ \E t \in Turns : \/ \E gone \in BOOLEAN : ReadSource(x, t, gone)
                                 \/ \E b \in Bodies : Propose(x, t, b)
                                 \/ NoChange(x, t)
             \/ SettleFails(x) \/ LoseRun(x)
      PROVE  ReaderInv' /\ PicksNoneOfIt
  <2>1. ReaderTypes
    BY DEF ReaderInv
  <2> QED BY <1>1, <1>2, <1>8, <2>1, WorkIsSameBatches
<1>9. CASE (\E b \in Bodies : SaveMemory(b)) \/ (\E m \in memories : RemoveMemory(m))
  BY <1>1, <1>2, <1>3, <1>9 DEF SaveMemory, RemoveMemory
<1>10. CASE UNCHANGED readerVars
  BY <1>1, <1>2, <1>3, <1>10 DEF readerVars, extractionVars
<1> QED BY <1>4, <1>5, <1>6, <1>7, <1>8, <1>9, <1>10 DEF ExtractionNext

(***************************************************************************)
(* The invariant is inductive.                                             *)
(***************************************************************************)
LEMMA ReaderInvHolds == ExtractionSpec => []ReaderInv
<1>1. ExtractionInit => ReaderInv
  <2> SUFFICES ASSUME ExtractionInit PROVE ReaderInv
    OBVIOUS
  <2>1. /\ place \in [Turns -> Workspaces] /\ number = [t \in Turns |-> -1]
        /\ counter = [w \in Workspaces |-> 0] /\ cursor = -1 /\ Counter = 0
        /\ auto = TRUE /\ newer \in BOOLEAN /\ listeners = 0 /\ passed = {} /\ settled = {}
    BY ExtractionAssumption DEF ExtractionInit, FeedInit, Unfinished, NoCursor, Counter
  <2>3. \A x \in Executions : exec[x] = NoExecution
    BY DEF ExtractionInit
  <2>4. ReaderTypes
    BY <2>1, EmptyExecution DEF ReaderTypes, ExtractionInit, NoCursor
  <2>5. NumbersGivenOut /\ CursorGivenOut
    BY <2>1 DEF NumbersGivenOut, CursorGivenOut
  <2>6. BatchComplete
    BY <2>1, <2>3, EmptyExecution DEF BatchComplete
  <2>7. PassedIsBehind /\ NoTurnSkipped
    BY <2>1 DEF PassedIsBehind, NoTurnSkipped, Readable
  <2> QED BY <2>4, <2>5, <2>6, <2>7 DEF ReaderInv
<1>2. ReaderInv /\ [ExtractionNext]_readerVars => ReaderInv'
  BY StepKeepsInv
<1> QED BY <1>1, <1>2, PTL DEF ExtractionSpec

-----------------------------------------------------------------------------
(***************************************************************************)
(* No finished turn is lost by the consumer: settling moves the cursor     *)
(* only over turns of its batch, whatever failed, was lost, moved or was   *)
(* switched off between planning and settling (settleMemoryExtractionRun,  *)
(* advanceExtractionCursor).                                               *)
(***************************************************************************)
THEOREM NoTurnIsSkipped == ExtractionSpec => []NoTurnSkipped
<1>1. ReaderInv => NoTurnSkipped
  BY DEF ReaderInv
<1> QED BY <1>1, ReaderInvHolds, PTL

(***************************************************************************)
(* A restart is final: no batch that is planned later holds a turn the     *)
(* listener of a mode change passed over (restartExtractionAt), however    *)
(* often the mode changed and whatever executions of before outlived the   *)
(* change.                                                                 *)
(***************************************************************************)
THEOREM RestartsAreFinal == ExtractionSpec => PassedIsNeverPicked
<1>1. ReaderInv /\ [ExtractionNext]_readerVars
         => [\A x \in Executions : (exec'[x].sources \ exec[x].sources) \cap passed = {}]_readerVars
  BY StepKeepsInv
<1> QED BY <1>1, ReaderInvHolds, PTL DEF ExtractionSpec, PassedIsNeverPicked

(***************************************************************************)
(* A memory with a source turn appears only through commitCandidate, which *)
(* looks at the removals of the moment it commits.                         *)
(***************************************************************************)
THEOREM RemovalsWin == ExtractionSpec => RemovalWins
<1>1. [ExtractionNext]_readerVars
         => [\A m \in memories' \ memories : m.turn # NoSource => ~TombstoneBlocks(m)]_readerVars
  <2> USE DEF memoryVars
  <2> SUFFICES ASSUME ExtractionNext, NEW m \in memories' \ memories, m.turn # NoSource
               PROVE  ~TombstoneBlocks(m)
    OBVIOUS
  <2>1. CASE \E x \in Executions : Settle(x)
    <3> PICK x \in Executions : Settle(x)
      BY <2>1
    <3>1. PICK C \in SUBSET Committable(x) : memories' = memories \cup C
      BY DEF Settle
    <3>2. m \in Committable(x)
      BY <3>1
    <3> QED BY <3>2 DEF Committable
  <2>2. CASE \E b \in Bodies : SaveMemory(b)
    BY <2>2 DEF SaveMemory
  <2>3. CASE \E r \in memories : RemoveMemory(r)
    BY <2>3 DEF RemoveMemory
  <2>4. CASE \/ FeedStep \/ Enroll \/ SwitchOff \/ SwitchOn
             \/ RestartCursors \/ LoseListener \/ PlanSkips
    BY <2>4 DEF FeedStep, Enroll, SwitchOff, SwitchOn, RestartCursors, LoseListener, PlanSkips,
                extractionVars
  <2>5. CASE \E x \in Executions : Plan(x)
    BY <2>5 DEF Plan
  <2>6. CASE \E x \in Executions : SettleFails(x) \/ LoseRun(x)
    BY <2>6 DEF SettleFails, LoseRun
  <2>7. ASSUME NEW x \in Executions, NEW t \in Turns,
               \/ \E gone \in BOOLEAN : ReadSource(x, t, gone)
               \/ \E b \in Bodies : Propose(x, t, b)
               \/ NoChange(x, t)
        PROVE  memories' = memories
    BY <2>7 DEF ReadSource, Propose, NoChange
  <2> QED BY <2>1, <2>2, <2>3, <2>4, <2>5, <2>6, <2>7 DEF ExtractionNext
<1> QED BY <1>1, PTL DEF ExtractionSpec, RemovalWins
=============================================================================
