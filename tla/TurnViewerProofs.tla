-------------------------- MODULE TurnViewerProofs --------------------------
(***************************************************************************)
(* Proofs about the window that follows a turn (TurnViewer): what it shows *)
(* as the turn's outcome is what the database has.                         *)
(*                                                                         *)
(* The window gets its outcome from three places: the frame a hub step     *)
(* publishes, the replay of a log that is still there, and the saved turn. *)
(* The first two are covered by what the hub promises about its logs       *)
(* (DurableInv, DoneInv), the third is the row itself; and a row that has  *)
(* its outcome keeps it.                                                   *)
(***************************************************************************)
EXTENDS TurnViewer, ChatTurnProofs

HubInv == TurnInv /\ AskedInv /\ StoreInv /\ DurableInv /\ DoneInv

\* The composition only adds the window to the hub's steps.
LEMMA ViewIsHub == ViewSpec => HubSpec
<1>1. ViewInit => HubInit
  BY DEF ViewInit
<1>2. [ViewNext]_allVars => [HubNext]_vars
  BY DEF ViewNext, HubStep, Disconnect, Resume, ReadSavedTurn, TakeSnapshot, allVars
<1> QED BY <1>1, <1>2, PTL DEF ViewSpec, HubSpec

LEMMA HubInvariant == HubSpec => []HubInv
<1>1. HubSpec => []StoreInv
  BY HubKeepsStore, StoreInvariant, PTL
<1>2. HubSpec => []AskedInv
  BY AskedInit, AskedStep, TurnInvariant, PTL DEF HubSpec
<1> QED BY <1>1, <1>2, TurnInvariant, DurableInvariant, DoneInvariant, PTL DEF HubInv

LEMMA WatchedTurn == Watched \in Turns
BY ViewerAssumption, ForegroundTurns

DoneInRow(t) ==
    (\E i \in 1 .. Len(log[t].events) : log[t].events[i].kind = "done") =>
        turnStatus[t] = log[t].outcome

\* A log with a done frame has its outcome in the row.
LEMMA DoneRows == HubInv => \A t \in Turns : DoneInRow(t)
<1> SUFFICES ASSUME HubInv, NEW t \in Turns, NEW i \in 1 .. Len(log[t].events),
                    log[t].events[i].kind = "done"
             PROVE  turnStatus[t] = log[t].outcome
  BY DEF DoneInRow
<1>1. told[t] = log[t].outcome
  BY DEF HubInv, DoneInv, DoneFits
<1>2. log[t].outcome \in Terminal
  BY DEF HubInv, TurnInv, CallsInv, GoodLogs, LogShape
<1>3. told[t] # "none"
  BY <1>1, <1>2 DEF Terminal
<1> QED BY <1>1, <1>3 DEF HubInv, DurableInv

\* Frames show a saved outcome when a done among them means a saved outcome.
LEMMA ReceiveShows ==
    ASSUME NEW events, NEW outcome, NEW next, Receive(events, outcome, next)
    PROVE  \/ shown' = shown
           \/ shown' \in {"error", "none"}
           \/ /\ shown' = outcome
              /\ \E i \in 1 .. Len(events) : events[i].kind = "done"
<1> DEFINE accepted == {i \in 1 .. Len(events) : Accepts(events, i)}
           ends == {i \in accepted : events[i].kind \in EndKinds}
           last == CHOOSE i \in ends : TRUE
<1>1. CASE ends = {}
  BY <1>1 DEF Receive
<1>2. CASE ends # {}
  <2>1. shown' = FrameOutcome(events[last].kind, outcome)
    BY <1>2 DEF Receive
  <2>2. last \in ends
    BY <1>2
  <2>3. last \in 1 .. Len(events)
    BY <2>2
  <2> HIDE DEF last, ends, accepted
  <2> QED BY <2>1, <2>3 DEF FrameOutcome
<1> QED BY <1>1, <1>2

\* The frames a step publishes are in the log after it.
LEMMA NewFramesAreLogged ==
    ASSUME TurnInv, TurnInv', NEW i \in 1 .. Len(NewFrames)
    PROVE  \E j \in 1 .. Len(log'[Watched].events) : NewFrames[i] = log'[Watched].events[j]
<1> DEFINE e == log[Watched].events
           f == log'[Watched].events
<1>1. /\ e \in Seq([seq : Int, kind : Kinds]) /\ f \in Seq([seq : Int, kind : Kinds])
  <2>1. log[Watched] \in LogShape /\ log'[Watched] \in LogShape
    BY WatchedTurn DEF TurnInv, CallsInv, GoodLogs
  <2> QED BY <2>1 DEF LogShape
<1>2. NewFrames = SubSeq(f, Len(e) + 1, Len(f))
  BY DEF NewFrames
<1> HIDE DEF e, f
<1>3. Len(e) \in Nat /\ Len(f) \in Nat
  BY <1>1
<1>4. /\ Len(NewFrames) = IF Len(e) + 1 <= Len(f) THEN Len(f) - Len(e) ELSE 0
      /\ NewFrames[i] = f[Len(e) + i]
  BY <1>1, <1>2, <1>3
<1>5. Len(e) + i \in 1 .. Len(f)
  BY <1>3, <1>4
<1> QED BY <1>4, <1>5 DEF f

LEMMA ShownStep ==
    HubInv /\ HubInv' /\ ShownIsSaved /\ [ViewNext]_allVars => ShownIsSaved'
<1> SUFFICES ASSUME HubInv, HubInv', ShownIsSaved, [ViewNext]_allVars
             PROVE  ShownIsSaved'
  OBVIOUS
<1>1. /\ Watched \in Turns /\ TypeOK /\ TurnInv /\ TurnInv' /\ CallsInv
      /\ log[Watched].outcome \in Terminal
  BY WatchedTurn DEF HubInv, StoreInv, TurnInv, CallsInv, GoodLogs, LogShape
<1>2. [HubNext]_vars
  BY DEF ViewNext, HubStep, Disconnect, Resume, ReadSavedTurn, TakeSnapshot, allVars
<1>3. [Next]_storeVars
  BY <1>1, <1>2, HubStepRefines
\* What is shown already.
<1>4. CASE shown' = shown
  <2>1. turnStatus[Watched] \in Terminal => turnStatus'[Watched] = turnStatus[Watched]
    BY <1>1, <1>3, OutcomeStep
  <2> QED BY <1>4, <2>1 DEF ShownIsSaved, Terminal
<1>5. CASE shown' \in {"error", "none", "unknown", "refused"}
  BY <1>5 DEF ShownIsSaved
\* The frame a hub step publishes.
<1>6. CASE HubStep
  <2>1. CASE crashes' # crashes
    BY <1>4, <1>5, <1>6, <2>1 DEF HubStep, ConnectionBreaks, Settle
  <2>2. CASE crashes' = crashes /\ Receive(NewFrames, log[Watched].outcome, "live")
    <3>1. CASE \E i \in 1 .. Len(NewFrames) : NewFrames[i].kind = "done"
      <4>1. PICK i \in 1 .. Len(NewFrames) : NewFrames[i].kind = "done"
        BY <3>1
      <4>2. PICK j \in 1 .. Len(log'[Watched].events) : log'[Watched].events[j].kind = "done"
        BY <1>1, <4>1, NewFramesAreLogged
      <4>3. turnStatus'[Watched] = log'[Watched].outcome
        <5>1. (\A t \in Turns : DoneInRow(t))'
          BY DoneRows, PTL
        <5> QED BY <1>1, <4>2, <5>1 DEF DoneInRow
      <4>4. log'[Watched].fin = "settled"
        BY <1>1, <4>2 DEF TurnInv, LogsInv, EventsFit, EndKinds
      <4>5. log'[Watched].outcome = log[Watched].outcome
        BY <1>1, <1>2, <2>2, <4>4, DoneStep DEF HubInv
      <4> QED BY <1>4, <1>5, <2>2, <4>3, <4>5, ReceiveShows DEF ShownIsSaved
    <3>2. CASE ~\E i \in 1 .. Len(NewFrames) : NewFrames[i].kind = "done"
      BY <1>4, <1>5, <2>2, <3>2, ReceiveShows
    <3> QED BY <3>1, <3>2
  <2>3. CASE crashes' = crashes /\ ~Receive(NewFrames, log[Watched].outcome, "live")
    BY <1>4, <1>5, <1>6, <2>3 DEF HubStep, Settle, viewVars
  <2> QED BY <2>1, <2>2, <2>3
\* A replay.
<1>7. CASE Resume
  <2>1. turnStatus' = turnStatus
    BY <1>7 DEF Resume, vars, storeVars
  <2>2. PICK next : Receive(log[Watched].events, log[Watched].outcome, next)
    BY <1>7 DEF Resume
  <2>3. CASE \E i \in 1 .. Len(log[Watched].events) : log[Watched].events[i].kind = "done"
    <3>1. turnStatus[Watched] = log[Watched].outcome
      BY <1>1, <2>3, DoneRows DEF DoneInRow
    <3> QED BY <1>4, <1>5, <2>1, <2>2, <3>1, ReceiveShows DEF ShownIsSaved
  <2>4. CASE ~\E i \in 1 .. Len(log[Watched].events) : log[Watched].events[i].kind = "done"
    BY <1>4, <1>5, <2>2, <2>4, ReceiveShows
  <2> QED BY <2>3, <2>4
\* The saved turn.
<1>8. CASE ReadSavedTurn
  <2>1. turnStatus' = turnStatus /\ shown' = SavedOutcome
    BY <1>8 DEF ReadSavedTurn, Settle, vars, storeVars
  <2> QED BY <2>1 DEF SavedOutcome, ShownIsSaved
<1>9. CASE Disconnect \/ TakeSnapshot \/ UNCHANGED allVars
  BY <1>4, <1>9 DEF Disconnect, TakeSnapshot, allVars, viewVars
<1> QED BY <1>6, <1>7, <1>8, <1>9 DEF ViewNext

\* An outcome other than an error that a window shows is the one in the turn's
\* row, whether it came live, from a replay or from the saved turn, over
\* reconnects, worker deaths and restarts.
THEOREM ShownOutcomesAreSaved == ViewSpec => []ShownIsSaved
<1>1. ViewInit => ShownIsSaved
  BY DEF ViewInit, ShownIsSaved
<1>2. ViewSpec => []HubInv
  BY ViewIsHub, HubInvariant, PTL
<1> QED BY <1>1, <1>2, ShownStep, PTL DEF ViewSpec
=============================================================================
