----------------------------- MODULE TurnViewer -----------------------------
(***************************************************************************)
(* The window that posted a foreground turn, or an observer that joins it  *)
(* from a snapshot, following the turn's event stream (frontend            *)
(* services/api/stream.ts streamMessage, state/chatStreamRunner.ts; the    *)
(* backend's message and stream routes and ChatHub.subscribeTurn).         *)
(*                                                                         *)
(* The window keeps a cursor, drops every frame that is not beyond it,     *)
(* reattaches after a broken connection and, when the live log is gone,    *)
(* reads the saved turn.  A frame is delivered in the step that publishes  *)
(* it: a connection that breaks earlier loses it just the same.  The Stop  *)
(* in this composition is another window's.                                *)
(***************************************************************************)
EXTENDS ChatHub

CONSTANTS
    Watched,      \* the foreground turn
    Observers     \* TRUE: also an observer that hands a snapshot over to a subscription

ASSUME ViewerAssumption == Watched \in Foreground /\ Observers \in BOOLEAN

VARIABLES
    link,         \* "away", "posted", "live", "lost" or "settled"
    resumeSeq,    \* the last accepted sequence number
    shown         \* the outcome on display, "none" while the turn streams

viewVars == <<link, resumeSeq, shown>>
allVars == <<vars, viewVars>>

ViewTypeOK ==
    /\ link \in {"away", "posted", "live", "lost", "settled"}
    /\ resumeSeq \in SeqNumbers
    /\ shown \in Terminal \cup {"none", "refused", "unknown"}

ViewInit ==
    /\ HubInit
    /\ link \in {"posted"} \cup (IF Observers THEN {"away"} ELSE {})
    /\ resumeSeq = -1
    /\ shown = "none"

-----------------------------------------------------------------------------
\* onEnvelope: a frame is accepted when its number is beyond every accepted one.
Accepts(events, i) ==
    /\ events[i].seq > resumeSeq
    /\ \A j \in 1 .. i - 1 : events[j].seq < events[i].seq

\* The outcome a terminal frame brings; its absence is "none".
FrameOutcome(kind, outcome) ==
    IF kind = "done" THEN outcome ELSE IF kind \in {"error", "unsaved"} THEN "error" ELSE "none"

\* Frames arrive in the order they were published; the stream then is in state
\* next, unless a terminal frame was accepted.
Receive(events, outcome, next) ==
    LET accepted == {i \in 1 .. Len(events) : Accepts(events, i)}
        ends == {i \in accepted : events[i].kind \in EndKinds}
    IN  /\ resumeSeq' = IF accepted = {} THEN resumeSeq
                        ELSE events[CHOOSE i \in accepted : \A j \in accepted : j <= i].seq
        /\ IF ends = {}
           THEN link' = next /\ UNCHANGED shown
           ELSE /\ link' = "settled"
                /\ shown' = FrameOutcome(events[CHOOSE i \in ends : TRUE].kind, outcome)

Settle(outcome) == link' = "settled" /\ shown' = outcome /\ UNCHANGED resumeSeq

\* A frame that this hub step publishes.
NewFrames ==
    SubSeq(log'[Watched].events, Len(log[Watched].events) + 1, Len(log'[Watched].events))

\* A crash breaks connections; a request under way ends with an unknown outcome.
ConnectionBreaks ==
    IF link = "posted" /\ pc[Watched] = "beginning" THEN Settle("unknown")
    ELSE link' = (IF link = "live" THEN "lost" ELSE link) /\ UNCHANGED <<resumeSeq, shown>>

\* 409 turn_begin_failed.
BeginRefused == link = "posted" /\ pc[Watched] # "refused" /\ pc'[Watched] = "refused"

\* The message route subscribes in the step in which the turn has begun.
Following == link = "live" \/ (link = "posted" /\ log'[Watched].status = "active")

\* A step of the backend as the window sees it.
HubStep ==
    /\ HubNext
    /\ IF crashes' # crashes THEN ConnectionBreaks
       ELSE IF BeginRefused THEN Settle("refused")
       ELSE IF Following THEN Receive(NewFrames, log[Watched].outcome, "live")
       ELSE UNCHANGED viewVars

Replayable ==
    log[Watched].status # "none" /\ (current = Watched \/ Watched \in retained)

\* The connection breaks or falls silent, or the server ends it.
Disconnect ==
    /\ link = "live"
    /\ link' = "lost"
    /\ UNCHANGED <<vars, resumeSeq, shown>>

\* resumeForeground: the frames from the cursor on.  A turn that is over gets
\* its replay and is closed again, and the window retries.
Resume ==
    /\ MainFree
    /\ link = "lost" /\ Replayable
    /\ Receive(log[Watched].events, log[Watched].outcome,
               IF log[Watched].status = "active" THEN "live" ELSE "lost")
    /\ UNCHANGED vars

\* Mutant: a row that is still active is taken for a finished turn.
AnyRowIsResult == IF turnStatus[Watched] = "active" THEN "completed" ELSE turnStatus[Watched]

\* Mutant: the saved turn is not looked at.
NoSavedOutcome == "none"

\* savedTurnResult: a completed or cancelled row is the outcome; any other row,
\* an error's too, leaves the error that the replay is gone.
SavedOutcome ==
    IF turnStatus[Watched] \in {"completed", "cancelled"} THEN turnStatus[Watched] ELSE "unknown"

\* 410: the live replay is gone, finishFromSavedTurn.
ReadSavedTurn ==
    /\ MainFree
    /\ link = "lost" /\ ~Replayable
    /\ Settle(SavedOutcome)
    /\ UNCHANGED vars

\* getSnapshot: the observer takes the last assigned number as its cursor.
TakeSnapshot ==
    /\ MainFree
    /\ link = "away" /\ IsActive /\ current = Watched
    /\ link' = "lost"
    /\ resumeSeq' = log[Watched].nextSeq - 1
    /\ UNCHANGED <<vars, shown>>

ViewNext == HubStep \/ Disconnect \/ Resume \/ ReadSavedTurn \/ TakeSnapshot

ViewSpec == ViewInit /\ [][ViewNext]_allVars

\* The hub's fairness, its eviction timers, a server that ends the stream of a
\* turn that is over, and a window that keeps retrying.
ViewFairSpec ==
    /\ ViewSpec
    /\ WF_allVars(HubStep /\ (Backend \/ \E s \in EndReasons : EndTurn(Watched, s)))
    /\ WF_allVars(HubStep /\ JoinFinalization(Watched))
    /\ WF_allVars(HubStep /\ Evict(Watched))
    /\ WF_allVars(Disconnect /\ log[Watched].status # "active")
    /\ WF_allVars(Resume) /\ WF_allVars(ReadSavedTurn)

-----------------------------------------------------------------------------
(***************************************************************************)
(* Properties                                                              *)
(***************************************************************************)

\* A window that is connected when its turn's terminal frame is written has
\* shown the outcome: frames are not numbered so that the last one is dropped.
EndReachesWindow ==
    link = "live" => log[Watched].status \notin {"ended", "error"}

\* An outcome other than an error that a window shows is the one in the turn's
\* row, whether it came live, from a replay or from the saved turn, over
\* reconnects, worker deaths and restarts.
ShownIsSaved == shown \in {"completed", "cancelled"} => turnStatus[Watched] = shown

\* A window that saw its turn start is not pinned in streaming for ever.
WindowSettles == link = "live" ~> shown # "none"
=============================================================================
