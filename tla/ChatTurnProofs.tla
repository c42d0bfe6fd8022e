--------------------------- MODULE ChatTurnProofs ---------------------------
(***************************************************************************)
(* Proofs about the turns of one chat (ChatHub): they are serial, the      *)
(* session belongs to the active one, a stream ends with its terminal      *)
(* event, an outcome that is told is the one in the database, and a turn   *)
(* is cancelled only when somebody asked for it.                           *)
(*                                                                         *)
(* Every one of these depends on who may still act on a turn: its loop,    *)
(* the chat's cancel timer, a database answer on its way.  The invariant   *)
(* TurnInv says which of them there are at each stage of a turn.           *)
(***************************************************************************)
EXTENDS ChatHubProofs

(***************************************************************************)
(* A log on its own.  It is settled exactly when its turn has ended, a     *)
(* steering request is open only before the final transaction, the         *)
(* terminal event is the last one, and a published steering message was    *)
(* accepted.                                                               *)
(***************************************************************************)
StageFits(l) ==
    /\ l.status = "none" => l.fin = "none" /\ l.steer = "none"
    /\ l.fin = "settled" <=> l.status \in {"ended", "error"}
    /\ l.steer = "asked" => l.status = "active" /\ l.fin \in {"none", "requested"}

EventsFit(l) ==
    \A i \in 1 .. Len(l.events) :
        /\ l.events[i].kind \in EndKinds => l.fin = "settled" /\ i = Len(l.events)
        /\ l.events[i].kind = "steer" => l.steer = "accepted"

LogsInv == \A t \in Turns : StageFits(log[t]) /\ EventsFit(log[t])

(***************************************************************************)
(* A log and the loop of its turn.  A turn that did not begin has no log;  *)
(* a finalization under way has someone who waits for it; what the         *)
(* eviction timer holds is over; an active log is the chat's current one.  *)
(***************************************************************************)
NotBegun == {"idle", "queued", "waiting", "beginning", "draining", "refused"}

Control(t) ==
    /\ pc[t] \in NotBegun => log[t].status = "none"
    /\ pc[t] \in {"streaming", "finishing"} => log[t].status # "none"
    /\ pc[t] = "finishing" => log[t].fin # "none"
    /\ pc[t] = "over" => log[t].status # "active"
    /\ log[t].fin \in {"requested", "committing"} => pc[t] = "finishing" \/ t \in forcing
    /\ t \in forcing => log[t].fin # "none"
    /\ t \in retained => log[t].status # "active" /\ pc[t] \notin NotBegun
    /\ log[t].status = "active" => current = t

ControlInv == \A t \in Turns : Control(t)

(***************************************************************************)
(* The calls on their way.  A begin belongs to a turn that waits for it, a *)
(* finalize to a log that is committing exactly what the call says, and    *)
(* there is never a second one of either for a turn: an answer is always   *)
(* the answer the hub waits for.                                           *)
(***************************************************************************)
Clash(c, d) == c.op # "checkpoint" /\ c.op = d.op /\ c.turn = d.turn

CallsDiffer ==
    /\ \A i, j \in 1 .. Len(queue) : i # j => ~Clash(queue[i], queue[j])
    /\ \A i, j \in 1 .. Len(replies) : i # j => ~Clash(replies[i], replies[j])
    /\ \A i \in 1 .. Len(replies), j \in 1 .. Len(queue) : ~Clash(replies[i], queue[j])

Fits(c) ==
    /\ c.op = "begin" => pc[c.turn] = "beginning"
    /\ c.op = "finalize" => /\ log[c.turn].fin = "committing"
                            /\ c.status = log[c.turn].outcome
                            /\ c.steered = (log[c.turn].steer = "accepted")

CallsFit ==
    /\ \A i \in 1 .. Len(queue) : Fits(queue[i])
    /\ \A i \in 1 .. Len(replies) : Fits(replies[i])
    /\ \A i \in 1 .. Len(deferred) : deferred[i].op = "checkpoint"

(***************************************************************************)
(* The queue of self-turns: the one in front is the only one that is under *)
(* way, and every self-turn that is not over has its place.                *)
(***************************************************************************)
Queued == {"queued", "waiting", "beginning", "draining", "streaming", "finishing"}

QueueInv ==
    /\ \A i, j \in 1 .. Len(selfQueue) : selfQueue[i] = selfQueue[j] => i = j
    /\ \A i \in 1 .. Len(selfQueue) : /\ selfQueue[i] \notin Foreground
                                      /\ pc[selfQueue[i]] \in Queued
                                      /\ i > 1 => pc[selfQueue[i]] = "queued"
    /\ \A t \in Turns \ Foreground : pc[t] \in Queued =>
           \E i \in 1 .. Len(selfQueue) : selfQueue[i] = t
    /\ \A t \in Foreground : pc[t] \notin {"queued", "waiting", "draining"}

(***************************************************************************)
(* Who keeps a self-turn from beginning beside a submitted one: the        *)
(* submitted turn claims the chat before its first await, and a self-turn  *)
(* that came to the front meanwhile waits for that claim.                  *)
(***************************************************************************)
SerialInv ==
    /\ \A t, u \in Turns : Running(t) /\ Running(u) => t = u
    /\ \A u \in Foreground : Running(u) => completion = u
    /\ \A t \in Turns, u \in Foreground : pc[t] = "waiting" /\ Running(u) => waitsFor[t] = u

SessionInv == (ownerActive => current \in Attached) /\ SessionFollowsTurn

PlaceTypes ==
    /\ pc \in [Turns -> Places]
    /\ current \in Turns \cup {NoTurn}
    /\ selfQueue \in Seq(Turns)
    /\ completion \in Turns \cup {NoTurn}
    /\ waitsFor \in [Turns -> Turns \cup {NoTurn}]
    /\ ownerActive \in BOOLEAN

TurnInv ==
    /\ CallsInv /\ PlaceTypes
    /\ LogsInv /\ ControlInv
    /\ CallsDiffer /\ CallsFit
    /\ QueueInv /\ SerialInv /\ SessionInv

-----------------------------------------------------------------------------
(***************************************************************************)
(* What the operations do to a log                                         *)
(***************************************************************************)

\* Numbering an event leaves the stage of a log alone and adds one event.
LEMMA StampedFits ==
    ASSUME NEW l \in LogShape, NEW kind \in Kinds \ EndKinds,
           l.fin # "settled", EventsFit(l), kind = "steer" => l.steer = "accepted"
    PROVE  /\ Stamped(l, kind) \in LogShape
           /\ Stamped(l, kind).status = l.status
           /\ Stamped(l, kind).fin = l.fin
           /\ Stamped(l, kind).outcome = l.outcome
           /\ Stamped(l, kind).steer = l.steer
           /\ EventsFit(Stamped(l, kind))
<1> DEFINE k == Stamped(l, kind)
           e == [seq |-> l.nextSeq, kind |-> kind]
<1>1. k \in LogShape /\ k.fin = l.fin /\ k.outcome = l.outcome /\ k.steer = l.steer
  BY StampedShape
<1>2. k.status = l.status
  BY DEF Stamped, LogShape
<1>3. k.events = Append(l.events, e)
  BY DEF Stamped, LogShape
<1>4. l.events \in Seq([seq : Int, kind : Kinds]) /\ e.kind = kind
  BY DEF LogShape
<1> HIDE DEF e, k
<1>5. Len(k.events) = Len(l.events) + 1
  BY <1>3, <1>4
<1>6. ASSUME NEW i \in 1 .. Len(k.events)
      PROVE  /\ k.events[i].kind \in EndKinds => k.fin = "settled" /\ i = Len(k.events)
             /\ k.events[i].kind = "steer" => k.steer = "accepted"
  <2>1. CASE i = Len(l.events) + 1
    <3>1. k.events[i] = e
      BY <1>3, <1>4, <2>1
    <3> QED BY <1>1, <1>4, <3>1
  <2>2. CASE i # Len(l.events) + 1
    <3>1. i \in 1 .. Len(l.events) /\ k.events[i] = l.events[i]
      BY <1>3, <1>4, <1>5, <2>2
    <3> QED BY <1>1, <3>1 DEF EventsFit
  <2> QED BY <2>1, <2>2
<1>7. EventsFit(k)
  BY <1>6 DEF EventsFit
<1> QED BY <1>1, <1>2, <1>7 DEF k

\* A log that changes only its steering or its title.
LEMMA SteerChanged ==
    ASSUME NEW l \in LogShape, NEW x \in {"asked", "accepted", "rejected"},
           l.steer # "accepted", EventsFit(l)
    PROVE  LET k == [l EXCEPT !.steer = x]
           IN  /\ k \in LogShape /\ k.status = l.status /\ k.fin = l.fin
               /\ k.outcome = l.outcome /\ k.steer = x /\ EventsFit(k)
<1> DEFINE k == [l EXCEPT !.steer = x]
<1>1. /\ k \in LogShape /\ k.status = l.status /\ k.fin = l.fin
      /\ k.outcome = l.outcome /\ k.steer = x /\ k.events = l.events
  BY DEF LogShape
<1> HIDE DEF k
<1>2. EventsFit(k)
  BY <1>1 DEF EventsFit
<1> QED BY <1>1, <1>2 DEF k

LEMMA TitleChanged ==
    ASSUME NEW l \in LogShape, NEW x \in {"none", "shown"}, EventsFit(l)
    PROVE  LET k == [l EXCEPT !.title = x]
           IN  /\ k \in LogShape /\ k.status = l.status /\ k.fin = l.fin
               /\ k.outcome = l.outcome /\ k.steer = l.steer /\ EventsFit(k)
<1> DEFINE k == [l EXCEPT !.title = x]
<1>1. /\ k \in LogShape /\ k.status = l.status /\ k.fin = l.fin
      /\ k.outcome = l.outcome /\ k.steer = l.steer /\ k.events = l.events
  BY DEF LogShape
<1> HIDE DEF k
<1>2. EventsFit(k)
  BY <1>1 DEF EventsFit
<1> QED BY <1>1, <1>2 DEF k

\* finalizeOnce on the log of an active turn.
LEMMA FinishFits ==
    ASSUME NEW l \in LogShape, NEW s \in Terminal,
           l.status = "active", l.fin = "none", StageFits(l), EventsFit(l)
    PROVE  LET k == [l EXCEPT !.fin = "requested", !.outcome = s]
           IN  /\ k.status = "active" /\ k.fin = "requested" /\ k.outcome = s
               /\ k.steer = l.steer /\ StageFits(k) /\ EventsFit(k)
<1> DEFINE k == [l EXCEPT !.fin = "requested", !.outcome = s]
<1>1. /\ k.status = "active" /\ k.fin = "requested" /\ k.outcome = s
      /\ k.steer = l.steer /\ k.events = l.events
  BY DEF LogShape
<1> HIDE DEF k
<1>2. EventsFit(k)
  BY <1>1 DEF EventsFit
<1>3. StageFits(k)
  BY <1>1 DEF StageFits
<1> QED BY <1>1, <1>2, <1>3 DEF k

\* The terminal event gets its number; no steering request is open.
LEMMA CommitFits ==
    ASSUME NEW l \in LogShape, NEW e \in Int, NEW n \in Nat,
           l.status = "active", l.fin = "requested", l.steer # "asked", EventsFit(l)
    PROVE  LET k == [l EXCEPT !.fin = "committing", !.endSeq = e, !.nextSeq = n]
           IN  /\ k.status = "active" /\ k.fin = "committing" /\ k.outcome = l.outcome
               /\ k.steer = l.steer /\ StageFits(k) /\ EventsFit(k)
<1> DEFINE k == [l EXCEPT !.fin = "committing", !.endSeq = e, !.nextSeq = n]
<1>1. /\ k.status = "active" /\ k.fin = "committing" /\ k.outcome = l.outcome
      /\ k.steer = l.steer /\ k.events = l.events
  BY DEF LogShape
<1> HIDE DEF k
<1>2. EventsFit(k)
  BY <1>1 DEF EventsFit
<1>3. StageFits(k)
  BY <1>1 DEF StageFits
<1> QED BY <1>1, <1>2, <1>3 DEF k

\* The answer to the final transaction adds the last event of a log.
LEMMA SettleFits ==
    ASSUME NEW l \in LogShape, NEW k \in LogShape, NEW e,
           l.fin = "committing", l.steer # "asked", EventsFit(l),
           e.kind \in EndKinds, k.events = Append(l.events, e),
           k.status \in {"ended", "error"}, k.fin = "settled", k.steer = l.steer
    PROVE  StageFits(k) /\ EventsFit(k)
<1>1. StageFits(k)
  BY DEF StageFits
<1>2. l.events \in Seq([seq : Int, kind : Kinds])
  BY DEF LogShape
<1>3. Len(k.events) = Len(l.events) + 1 /\ Len(l.events) \in Nat
  BY <1>2
<1>4. ASSUME NEW i \in 1 .. Len(k.events)
      PROVE  /\ k.events[i].kind \in EndKinds => k.fin = "settled" /\ i = Len(k.events)
             /\ k.events[i].kind = "steer" => k.steer = "accepted"
  <2>1. CASE i = Len(k.events)
    <3>1. k.events[i] = e
      BY <1>2, <1>3, <2>1
    <3> QED BY <2>1, <3>1 DEF EndKinds
  <2>2. CASE i # Len(k.events)
    <3>1. i \in 1 .. Len(l.events) /\ k.events[i] = l.events[i]
      BY <1>2, <1>3, <2>2
    <3> QED BY <3>1 DEF EventsFit
  <2> QED BY <2>1, <2>2
<1>5. EventsFit(k)
  BY <1>4 DEF EventsFit
<1> QED BY <1>1, <1>5

\* An empty log.
LEMMA NewLogFits ==
    /\ NewLog.status = "none" /\ NewLog.fin = "none" /\ NewLog.outcome = "error"
    /\ NewLog.steer = "none" /\ StageFits(NewLog) /\ EventsFit(NewLog)
<1>1. /\ NewLog.status = "none" /\ NewLog.fin = "none" /\ NewLog.outcome = "error"
      /\ NewLog.steer = "none" /\ NewLog.events = <<>>
  BY DEF NewLog
<1>2. EventsFit(NewLog)
  BY <1>1 DEF EventsFit
<1>3. StageFits(NewLog)
  BY <1>1 DEF StageFits
<1> QED BY <1>1, <1>2, <1>3

-----------------------------------------------------------------------------
(***************************************************************************)
(* Steps that leave the stages of all turns alone                          *)
(***************************************************************************)
SteerOpen(l) == l.status = "active" /\ l.fin \in {"none", "requested"}

\* No turn begins, is finalized or ends; steering changes only where it can.
SameStages ==
    \A u \in Turns :
        /\ log'[u].status = log[u].status
        /\ log'[u].fin = log[u].fin
        /\ log'[u].outcome = log[u].outcome
        /\ log'[u].steer = log[u].steer \/ SteerOpen(log[u])

CheckpointsAdded ==
    \E c : /\ c.op = "checkpoint"
           /\ queue' = queue \/ queue' = Append(queue, c)
           /\ deferred' = deferred \/ deferred' = Append(deferred, c)

\* The log of one turn is replaced.
LEMMA OneLogChanged ==
    ASSUME CallsInv, LogsInv, NEW t \in Turns, NEW k, log' = [log EXCEPT ![t] = k],
           StageFits(k), EventsFit(k)
    PROVE  /\ LogsInv' /\ log'[t] = k
           /\ \A u \in Turns \ {t} : log'[u] = log[u]
<1>1. log'[t] = k /\ \A u \in Turns \ {t} : log'[u] = log[u]
  BY DEF CallsInv
<1>2. ASSUME NEW u \in Turns
      PROVE  (StageFits(log[u]) /\ EventsFit(log[u]))'
  <2>1. CASE u = t
    BY <1>1, <2>1 DEF StageFits, EventsFit
  <2>2. CASE u # t
    BY <1>1, <2>2 DEF StageFits, EventsFit, LogsInv
  <2> QED BY <2>1, <2>2
<1>3. LogsInv'
  BY <1>2 DEF LogsInv
<1> QED BY <1>1, <1>3

\* One log keeps its stage.
LEMMA OneLogSameStage ==
    ASSUME CallsInv, LogsInv, NEW t \in Turns, NEW k, log' = [log EXCEPT ![t] = k],
           EventsFit(k), k.status = log[t].status, k.fin = log[t].fin,
           k.outcome = log[t].outcome,
           \/ k.steer = log[t].steer
           \/ SteerOpen(log[t])
    PROVE  LogsInv' /\ SameStages
<1>1. StageFits(log[t])
  BY DEF LogsInv
<1>2. StageFits(k)
  BY <1>1 DEF StageFits, SteerOpen
<1>3. /\ LogsInv' /\ log'[t] = k
      /\ \A u \in Turns \ {t} : log'[u] = log[u]
  BY <1>2, OneLogChanged
<1>4. SameStages
  BY <1>3 DEF SameStages
<1> QED BY <1>3, <1>4

\* A checkpoint is asked for, or is not.
LEMMA CheckpointAdds ==
    ASSUME NEW t, NEW l, MaybeCheckpoint(t, l)
    PROVE  CheckpointsAdded
<1> DEFINE c == Call("checkpoint", t, l.nextSeq - 1, "error", l.steer = "accepted")
<1>1. c.op = "checkpoint"
  BY DEF Call
<1>2. \/ queue' = Append(queue, c) /\ deferred' = deferred
      \/ deferred' = Append(deferred, c) /\ queue' = queue
      \/ queue' = queue /\ deferred' = deferred
  BY DEF MaybeCheckpoint, Checkpoint
<1> HIDE DEF c
<1> QED BY <1>1, <1>2, Zenon DEF CheckpointsAdded

LEMMA NoneAdded ==
    ASSUME UNCHANGED <<queue, deferred>>
    PROVE  CheckpointsAdded
<1>1. Call("checkpoint", NoTurn, 0, "error", FALSE).op = "checkpoint"
  BY DEF Call
<1> QED BY <1>1, Zenon DEF CheckpointsAdded

\* An event of an active turn is numbered, logged and perhaps checkpointed.
LEMMA AppendKeepsStages ==
    ASSUME CallsInv, LogsInv, NEW t \in Turns, NEW kind \in Kinds \ (EndKinds \cup {"steer"}),
           log[t].status = "active",
           log' = [log EXCEPT ![t] = Stamped(log[t], kind)],
           MaybeCheckpoint(t, Stamped(log[t], kind))
    PROVE  LogsInv' /\ SameStages /\ CheckpointsAdded
<1>1. /\ log[t] \in LogShape
      /\ StageFits(log[t]) /\ EventsFit(log[t])
  BY DEF CallsInv, GoodLogs, LogsInv
<1>2. log[t].fin # "settled" /\ kind \in Kinds \ EndKinds /\ kind # "steer"
  BY <1>1 DEF StageFits
<1> DEFINE k == Stamped(log[t], kind)
<1>3. /\ k.status = log[t].status /\ k.fin = log[t].fin /\ k.outcome = log[t].outcome
      /\ k.steer = log[t].steer /\ EventsFit(k)
  BY <1>1, <1>2, StampedFits
<1>4. CheckpointsAdded
  BY CheckpointAdds
<1>5. log' = [log EXCEPT ![t] = k]
  OBVIOUS
<1> HIDE DEF k
<1>6. LogsInv' /\ SameStages
  BY <1>3, <1>5, OneLogSameStage
<1> QED BY <1>4, <1>6

\* Streamed events, titles, steering and Stops of a turn.
LEMMA StreamStep ==
    ASSUME CallsInv, LogsInv, NEW t \in Turns,
           \/ Emit(t) \/ TitleArrives(t) \/ Steer(t) \/ SteerSettles(t)
           \/ StopActive(t) \/ CancelAnswered(t)
    PROVE  LogsInv' /\ SameStages /\ CheckpointsAdded
<1>1. /\ log[t] \in LogShape
      /\ StageFits(log[t]) /\ EventsFit(log[t])
      /\ log \in [Turns -> GoodLogs]
  BY DEF CallsInv, GoodLogs, LogsInv
<1>2. CASE Emit(t)
  <2>1. "delta" \in Kinds \ (EndKinds \cup {"steer"})
    BY DEF Kinds, EndKinds
  <2>2. /\ log' = [log EXCEPT ![t] = Stamped(log[t], "delta")]
        /\ MaybeCheckpoint(t, Stamped(log[t], "delta"))
        /\ log[t].status = "active"
    BY <1>2 DEF Emit, Live
  <2> QED BY <2>1, <2>2, AppendKeepsStages
<1>3. CASE StopActive(t)
  <2>1. "requested" \in Kinds \ (EndKinds \cup {"steer"})
    BY DEF Kinds, EndKinds
  <2>2. /\ log' = [log EXCEPT ![t] = Stamped(log[t], "requested")]
        /\ MaybeCheckpoint(t, Stamped(log[t], "requested"))
        /\ log[t].status = "active"
    BY <1>3 DEF StopActive, Live
  <2> QED BY <2>1, <2>2, AppendKeepsStages
<1>4. CASE CancelAnswered(t)
  <2>1. "acknowledged" \in Kinds \ (EndKinds \cup {"steer"})
    BY DEF Kinds, EndKinds
  <2>2. \/ /\ log' = [log EXCEPT ![t] = Stamped(log[t], "acknowledged")]
           /\ MaybeCheckpoint(t, Stamped(log[t], "acknowledged"))
           /\ log[t].status = "active"
        \/ UNCHANGED <<log, queue, deferred>>
    BY <1>4 DEF CancelAnswered, Live
  <2>3. CASE UNCHANGED <<log, queue, deferred>>
    <3>1. LogsInv' /\ SameStages
      BY <2>3 DEF LogsInv, SameStages, StageFits, EventsFit
    <3> QED BY <2>3, <3>1, NoneAdded
  <2> QED BY <2>1, <2>2, <2>3, AppendKeepsStages
<1>5. CASE TitleArrives(t) /\ Live(t)
  <2> DEFINE l == [log[t] EXCEPT !.title = "shown"]
             k == Stamped(l, "title")
  <2>1. "title" \in Kinds \ EndKinds /\ "title" # "steer"
    BY DEF Kinds, EndKinds
  <2>2. /\ log' = [log EXCEPT ![t] = k] /\ MaybeCheckpoint(t, k)
        /\ log[t].status = "active"
    BY <1>5 DEF TitleArrives, Live, MaybeCheckpoint
  <2>3. /\ l \in LogShape /\ l.status = log[t].status /\ l.fin = log[t].fin
        /\ l.outcome = log[t].outcome /\ l.steer = log[t].steer /\ EventsFit(l)
    BY <1>1, TitleChanged
  <2> HIDE DEF l
  <2>4. l.fin # "settled"
    BY <1>1, <2>2, <2>3 DEF StageFits
  <2>5. /\ k.status = l.status /\ k.fin = l.fin /\ k.outcome = l.outcome
        /\ k.steer = l.steer /\ EventsFit(k)
    BY <2>1, <2>3, <2>4, StampedFits
  <2> HIDE DEF k
  <2>6. LogsInv' /\ SameStages
    BY <2>2, <2>3, <2>5, OneLogSameStage
  <2> QED BY <2>2, <2>6, CheckpointAdds
<1>6. CASE TitleArrives(t) /\ ~Live(t)
  <2> DEFINE k == [log[t] EXCEPT !.title = "none"]
  <2>1. log' = [log EXCEPT ![t] = k] /\ UNCHANGED <<queue, deferred>>
    BY <1>1, <1>6 DEF TitleArrives
  <2>2. /\ k.status = log[t].status /\ k.fin = log[t].fin
        /\ k.outcome = log[t].outcome /\ k.steer = log[t].steer /\ EventsFit(k)
    BY <1>1, TitleChanged
  <2> HIDE DEF k
  <2>3. LogsInv' /\ SameStages
    BY <2>1, <2>2, OneLogSameStage
  <2> QED BY <2>1, <2>3, NoneAdded
<1>7. CASE Steer(t)
  <2> DEFINE k == [log[t] EXCEPT !.steer = "asked"]
  <2>1. /\ log' = [log EXCEPT ![t] = k] /\ UNCHANGED <<queue, deferred>>
        /\ log[t].status = "active" /\ log[t].fin = "none" /\ log[t].steer = "none"
    BY <1>1, <1>7 DEF Steer, Live, dbVars
  <2>2. /\ k.status = log[t].status /\ k.fin = log[t].fin
        /\ k.outcome = log[t].outcome /\ EventsFit(k)
    BY <1>1, <2>1, SteerChanged
  <2> HIDE DEF k
  <2>3. LogsInv' /\ SameStages
    BY <2>1, <2>2, OneLogSameStage DEF SteerOpen
  <2> QED BY <2>1, <2>3, NoneAdded
<1>8. CASE SteerSettles(t)
  <2>1. log[t].steer = "asked"
    BY <1>8 DEF SteerSettles
  <2>2. SteerOpen(log[t])
    BY <1>1, <2>1 DEF StageFits, SteerOpen
  <2>3. CASE UNCHANGED <<queue, deferred>> /\ log' = [log EXCEPT ![t].steer = "rejected"]
    <3> DEFINE k == [log[t] EXCEPT !.steer = "rejected"]
    <3>1. log' = [log EXCEPT ![t] = k]
      BY <1>1, <2>3
    <3>2. /\ k.status = log[t].status /\ k.fin = log[t].fin
          /\ k.outcome = log[t].outcome /\ EventsFit(k)
      BY <1>1, <2>1, SteerChanged
    <3> HIDE DEF k
    <3>3. LogsInv' /\ SameStages
      BY <2>2, <3>1, <3>2, OneLogSameStage
    <3> QED BY <2>3, <3>3, NoneAdded
  <2>4. CASE LET l == Stamped([log[t] EXCEPT !.steer = "accepted"], "steer")
             IN log' = [log EXCEPT ![t] = l] /\ Checkpoint(t, l)
    <3> DEFINE l == [log[t] EXCEPT !.steer = "accepted"]
               k == Stamped(l, "steer")
    <3>1. "steer" \in Kinds \ EndKinds
      BY DEF Kinds, EndKinds
    <3>2. log' = [log EXCEPT ![t] = k] /\ MaybeCheckpoint(t, k)
      BY <2>4 DEF MaybeCheckpoint
    <3>3. /\ l \in LogShape /\ l.status = log[t].status /\ l.fin = log[t].fin
          /\ l.outcome = log[t].outcome /\ l.steer = "accepted" /\ EventsFit(l)
      BY <1>1, <2>1, SteerChanged
    <3> HIDE DEF l
    <3>4. l.fin # "settled"
      BY <2>2, <3>3 DEF SteerOpen
    <3>5. /\ k.status = l.status /\ k.fin = l.fin /\ k.outcome = l.outcome
          /\ EventsFit(k)
      BY <3>1, <3>3, <3>4, StampedFits
    <3> HIDE DEF k
    <3>6. LogsInv' /\ SameStages
      BY <2>2, <3>2, <3>3, <3>5, OneLogSameStage
    <3> QED BY <3>2, <3>6, CheckpointAdds
  <2> QED BY <1>8, <2>3, <2>4 DEF SteerSettles
<1> QED BY <1>2, <1>3, <1>4, <1>5, <1>6, <1>7, <1>8

\* What a step that leaves every stage, loop, queue and session alone keeps.
LEMMA AsideStep ==
    ASSUME TurnInv, SameStages,
           UNCHANGED <<pc, current, ownerActive, completion, selfQueue, waitsFor,
                       retained, forcing>>
    PROVE  PlaceTypes' /\ ControlInv' /\ QueueInv' /\ SerialInv' /\ SessionInv'
<1>1. PlaceTypes'
  BY DEF TurnInv, PlaceTypes
<1>2. ControlInv'
  BY DEF TurnInv, ControlInv, Control, SameStages
<1>3. QueueInv'
  BY DEF TurnInv, QueueInv
<1>4. \A u \in Turns : Running(u)' <=> Running(u)
  BY DEF SameStages, Running
<1>5. SerialInv'
  <2>1. Foreground \subseteq Turns
    BY HubAssumption, TurnAssumption
  <2> QED BY <1>4, <2>1 DEF TurnInv, SerialInv
<1>6. SessionInv'
  BY DEF TurnInv, PlaceTypes, SessionInv, SessionFollowsTurn, IsActive, SameStages
<1> QED BY <1>1, <1>2, <1>3, <1>5, <1>6

-----------------------------------------------------------------------------
(***************************************************************************)
(* The calls on their way                                                  *)
(***************************************************************************)

\* Nobody who waits for an answer stops waiting.
CallersKept ==
    \A u \in Turns :
        /\ pc[u] = "beginning" => pc'[u] = "beginning"
        /\ log[u].fin = "committing" => /\ log'[u].fin = "committing"
                                        /\ log'[u].outcome = log[u].outcome
                                        /\ log'[u].steer = log[u].steer

LEMMA CallTurns ==
    ASSUME CallsInv
    PROVE  /\ \A i \in 1 .. Len(queue) : queue[i] \in GoodCalls /\ queue[i].turn \in Turns
           /\ \A i \in 1 .. Len(replies) : replies[i] \in GoodCalls /\ replies[i].turn \in Turns
           /\ Len(queue) \in Nat /\ Len(replies) \in Nat /\ Len(deferred) \in Nat
<1>1. /\ \A i \in 1 .. Len(queue) : queue[i] \in GoodCalls
      /\ \A i \in 1 .. Len(replies) : replies[i] \in GoodCalls
      /\ Len(queue) \in Nat /\ Len(replies) \in Nat /\ Len(deferred) \in Nat
  BY DEF CallsInv
<1>2. \A c \in GoodCalls : c.turn \in Turns
  BY DEF GoodCalls, Calls
<1> QED BY <1>1, <1>2

LEMMA CallsLeft ==
    ASSUME CallsInv, CallsDiffer, CallsFit, CallersKept, UNCHANGED <<queue, replies, deferred>>
    PROVE  CallsDiffer' /\ CallsFit'
<1>1. CallsDiffer'
  BY DEF CallsDiffer
<1>2. \A i \in 1 .. Len(queue) : Fits(queue[i])'
  BY CallTurns DEF CallsFit, Fits, CallersKept
<1>3. \A i \in 1 .. Len(replies) : Fits(replies[i])'
  BY CallTurns DEF CallsFit, Fits, CallersKept
<1>4. CallsFit'
  BY <1>2, <1>3 DEF CallsFit
<1> QED BY <1>1, <1>4

\* A checkpoint more says nothing about anybody.
LEMMA CallsWithCheckpoint ==
    ASSUME CallsInv, CallsDiffer, CallsFit, CallersKept, CheckpointsAdded, UNCHANGED replies
    PROVE  CallsDiffer' /\ CallsFit'
<1>1. PICK c : /\ c.op = "checkpoint"
               /\ queue' = queue \/ queue' = Append(queue, c)
               /\ deferred' = deferred \/ deferred' = Append(deferred, c)
  BY DEF CheckpointsAdded
<1>2. queue \in Seq(GoodCalls) /\ deferred \in Seq(GoodCalls)
  BY DEF CallsInv
<1>3. \A i \in 1 .. Len(queue') :
          \/ i \in 1 .. Len(queue) /\ queue'[i] = queue[i]
          \/ i = Len(queue) + 1 /\ queue'[i] = c
  BY <1>1, <1>2
<1>4. \A i \in 1 .. Len(deferred') :
          \/ i \in 1 .. Len(deferred) /\ deferred'[i] = deferred[i]
          \/ deferred'[i] = c
  BY <1>1, <1>2
<1>5. \A i \in 1 .. Len(queue') : queue'[i].op # "checkpoint" =>
          i \in 1 .. Len(queue) /\ queue'[i] = queue[i]
  BY <1>1, <1>3
<1>6. CallsDiffer'
  BY <1>5 DEF CallsDiffer, Clash
<1>7. ASSUME NEW i \in 1 .. Len(queue')
      PROVE  Fits(queue[i])'
  <2>1. CASE queue'[i].op = "checkpoint"
    BY <2>1 DEF Fits
  <2>2. CASE queue'[i].op # "checkpoint"
    BY SMTT(30), <1>5, <2>2, CallTurns DEF Fits, CallsFit, CallersKept
  <2> QED BY <2>1, <2>2
<1>8. \A i \in 1 .. Len(replies') : Fits(replies[i])'
  BY CallTurns DEF CallsFit, Fits, CallersKept
<1>9. \A i \in 1 .. Len(deferred') : deferred'[i].op = "checkpoint"
  BY <1>1, <1>4 DEF CallsFit
<1> QED BY <1>6, <1>7, <1>8, <1>9 DEF CallsFit

\* One more begin or finalize: there was none of the turn before.
LEMMA CallsWithOne ==
    ASSUME CallsInv, CallsDiffer, CallsFit, CallersKept, NEW c \in GoodCalls,
           queue' = Append(queue, c), UNCHANGED <<replies, deferred>>,
           \/ c.op = "begin" /\ pc[c.turn] # "beginning" /\ pc'[c.turn] = "beginning"
           \/ /\ c.op = "finalize" /\ log[c.turn].fin # "committing"
              /\ log'[c.turn].fin = "committing" /\ log'[c.turn].outcome = c.status
              /\ c.steered = (log'[c.turn].steer = "accepted")
    PROVE  CallsDiffer' /\ CallsFit'
<1>1. queue \in Seq(GoodCalls)
  BY DEF CallsInv
<1>2. Len(queue') = Len(queue) + 1 /\ Len(queue) \in Nat
  BY <1>1
<1>3. \A i \in 1 .. Len(queue') :
          \/ i \in 1 .. Len(queue) /\ queue'[i] = queue[i]
          \/ i = Len(queue) + 1 /\ queue'[i] = c
  BY <1>1
<1>4. /\ \A i \in 1 .. Len(queue) : ~Clash(queue[i], c) /\ ~Clash(c, queue[i])
      /\ \A i \in 1 .. Len(replies) : ~Clash(replies[i], c)
  BY DEF CallsFit, Fits, Clash
<1>5. CallsDiffer'
  <2>1. \A i, j \in 1 .. Len(queue') : i # j => ~Clash(queue'[i], queue'[j])
    BY <1>3, <1>4 DEF CallsDiffer
  <2>2. \A i \in 1 .. Len(replies'), j \in 1 .. Len(queue') : ~Clash(replies'[i], queue'[j])
    BY <1>3, <1>4 DEF CallsDiffer
  <2> QED BY <2>1, <2>2 DEF CallsDiffer, Clash
<1>6. ASSUME NEW i \in 1 .. Len(queue')
      PROVE  Fits(queue[i])'
  <2>1. CASE queue'[i] = c
    BY <2>1 DEF Fits
  <2>2. CASE i \in 1 .. Len(queue) /\ queue'[i] = queue[i]
    BY <2>2, CallTurns DEF Fits, CallsFit, CallersKept
  <2> QED BY <1>3, <2>1, <2>2
<1>7. \A i \in 1 .. Len(replies') : Fits(replies[i])'
  BY CallTurns DEF CallsFit, Fits, CallersKept
<1>8. \A i \in 1 .. Len(deferred') : deferred'[i].op = "checkpoint"
  BY DEF CallsFit
<1> QED BY <1>5, <1>6, <1>7, <1>8 DEF CallsFit

\* The answer in front is taken; only its turn may stop waiting.
LEMMA CallsTaken ==
    ASSUME CallsInv, CallsDiffer, CallsFit, replies # <<>>,
           replies' = Tail(replies), UNCHANGED <<queue, deferred>>,
           \A u \in Turns :
               /\ pc[u] = "beginning" =>
                      pc'[u] = "beginning" \/ (Head(replies).op = "begin" /\ Head(replies).turn = u)
               /\ log[u].fin = "committing" =>
                      \/ Head(replies).op = "finalize" /\ Head(replies).turn = u
                      \/ /\ log'[u].fin = "committing"
                         /\ log'[u].outcome = log[u].outcome
                         /\ log'[u].steer = log[u].steer
    PROVE  CallsDiffer' /\ CallsFit'
<1> DEFINE h == Head(replies)
<1>1. replies \in Seq(GoodCalls) /\ Len(replies) \in Nat /\ Len(replies) > 0 /\ h = replies[1]
  BY DEF CallsInv
<1>2. /\ Len(replies') = Len(replies) - 1
      /\ \A i \in 1 .. Len(replies') : i + 1 \in 1 .. Len(replies) /\ replies'[i] = replies[i + 1]
  BY <1>1
<1>3. /\ \A i \in 1 .. Len(replies') : ~Clash(h, replies'[i])
      /\ \A i \in 1 .. Len(queue) : ~Clash(h, queue[i])
  BY <1>1, <1>2 DEF CallsDiffer
<1>4. CallsDiffer'
  <2>1. \A i, j \in 1 .. Len(replies') : i # j => ~Clash(replies'[i], replies'[j])
    BY <1>1, <1>2 DEF CallsDiffer
  <2>2. \A i \in 1 .. Len(replies'), j \in 1 .. Len(queue') : ~Clash(replies'[i], queue'[j])
    BY <1>1, <1>2 DEF CallsDiffer
  <2>3. \A i, j \in 1 .. Len(queue') : i # j => ~Clash(queue'[i], queue'[j])
    BY DEF CallsDiffer
  <2> QED BY <2>1, <2>2, <2>3 DEF CallsDiffer, Clash
<1> HIDE DEF h
<1>5. ASSUME NEW c, Fits(c), ~Clash(h, c), c.turn \in Turns
      PROVE  /\ c.op = "begin" => pc'[c.turn] = "beginning"
             /\ c.op = "finalize" => /\ log'[c.turn].fin = "committing"
                                     /\ c.status = log'[c.turn].outcome
                                     /\ c.steered = (log'[c.turn].steer = "accepted")
  BY <1>5 DEF Fits, Clash, h
<1>6. ASSUME NEW i \in 1 .. Len(queue')
      PROVE  Fits(queue[i])'
  BY <1>3, <1>5, CallTurns DEF Fits, CallsFit
<1>7. ASSUME NEW i \in 1 .. Len(replies')
      PROVE  Fits(replies[i])'
  BY <1>2, <1>3, <1>5, CallTurns DEF Fits, CallsFit
<1>8. \A i \in 1 .. Len(deferred') : deferred'[i].op = "checkpoint"
  BY DEF CallsFit
<1> QED BY <1>4, <1>6, <1>7, <1>8 DEF CallsFit

LEMMA AnswerOf ==
    ASSUME NEW c \in GoodCalls, NEW ok \in BOOLEAN
    PROVE  /\ Answered(c, ok).op = c.op /\ Answered(c, ok).turn = c.turn
           /\ Answered(c, ok).status = c.status /\ Answered(c, ok).steered = c.steered
           /\ Answered(c, ok).ok = ok
BY DEF Answered, GoodCalls, Calls

\* The oldest call is executed and its answer is on its way.
LEMMA CallsRun ==
    ASSUME CallsInv, CallsDiffer, CallsFit, RunCall
    PROVE  CallsDiffer' /\ CallsFit'
<1> DEFINE h == Head(queue)
<1>1. /\ queue \in Seq(GoodCalls) /\ Len(queue) \in Nat /\ Len(queue) > 0 /\ h = queue[1]
      /\ replies \in Seq(GoodCalls) /\ Len(replies) \in Nat
      /\ h \in GoodCalls
  BY DEF CallsInv, RunCall
<1>2. PICK ok \in BOOLEAN :
          replies' = IF h.op = "checkpoint" THEN replies ELSE Append(replies, Answered(h, ok))
  BY DEF RunCall
<1>3. /\ Len(queue') = Len(queue) - 1
      /\ \A i \in 1 .. Len(queue') : i + 1 \in 1 .. Len(queue) /\ queue'[i] = queue[i + 1]
  BY <1>1 DEF RunCall
<1> DEFINE a == Answered(h, ok)
<1>4. a.op = h.op /\ a.turn = h.turn /\ a.status = h.status /\ a.steered = h.steered
  BY <1>1, AnswerOf
<1>5. UNCHANGED <<pc, log, deferred>>
  BY DEF RunCall
<1> HIDE DEF a
<1>6. \A i \in 1 .. Len(replies') :
          \/ i \in 1 .. Len(replies) /\ replies'[i] = replies[i]
          \/ i = Len(replies) + 1 /\ replies'[i] = a
  BY <1>1, <1>2 DEF a
<1>7. /\ \A i \in 1 .. Len(queue') : ~Clash(h, queue'[i])
      /\ \A i \in 1 .. Len(replies) : ~Clash(replies[i], h)
      /\ Fits(h)
  BY <1>1, <1>3 DEF CallsDiffer, CallsFit
<1> HIDE DEF h
<1>8. CallsDiffer'
  <2>1. \A i, j \in 1 .. Len(queue') : i # j => ~Clash(queue'[i], queue'[j])
    BY SMTT(30), <1>1, <1>3 DEF CallsDiffer
  <2>2. /\ \A i \in 1 .. Len(replies) : ~Clash(replies[i], a) /\ ~Clash(a, replies[i])
        /\ \A i \in 1 .. Len(queue') : ~Clash(a, queue'[i])
    BY <1>4, <1>7 DEF Clash
  <2>3. \A i, j \in 1 .. Len(replies') : i # j => ~Clash(replies'[i], replies'[j])
    BY <1>6, <2>2 DEF CallsDiffer
  <2>4. \A i \in 1 .. Len(replies'), j \in 1 .. Len(queue') : ~Clash(replies'[i], queue'[j])
    BY <1>1, <1>3, <1>6, <2>2 DEF CallsDiffer
  <2> QED BY <2>1, <2>3, <2>4 DEF CallsDiffer, Clash
<1>9. CallsFit'
  <2>1. \A i \in 1 .. Len(queue') : Fits(queue[i])'
    BY <1>3, <1>5 DEF CallsFit, Fits
  <2>2. Fits(a)
    BY <1>4, <1>7 DEF Fits
  <2>3. \A i \in 1 .. Len(replies') : Fits(replies[i])'
    BY <1>5, <1>6, <2>2 DEF CallsFit, Fits
  <2> QED BY <1>5, <2>1, <2>3 DEF CallsFit
<1> QED BY <1>8, <1>9

\* The worker dies: every call is answered, in the order they were made.
LEMMA CallsRejected ==
    ASSUME CallsInv, CallsDiffer, CallsFit, WorkerDies
    PROVE  CallsDiffer' /\ CallsFit'
<1> DEFINE p == replies \o queue
<1>1. /\ queue \in Seq(GoodCalls) /\ Len(queue) \in Nat
      /\ replies \in Seq(GoodCalls) /\ Len(replies) \in Nat
  BY DEF CallsInv
<1>2. /\ Len(p) = Len(replies) + Len(queue)
      /\ \A i \in 1 .. Len(p) :
             p[i] = IF i <= Len(replies) THEN replies[i] ELSE queue[i - Len(replies)]
  BY <1>1
<1>3. replies' = [i \in 1 .. Len(p) |-> Answered(p[i], FALSE)] /\ queue' = <<>>
  BY DEF WorkerDies
<1>4. UNCHANGED <<pc, log, deferred>>
  BY DEF WorkerDies
<1> HIDE DEF p
<1>5. \A i, j \in 1 .. Len(p) : i # j => ~Clash(p[i], p[j])
  <2> SUFFICES ASSUME NEW i \in 1 .. Len(p), NEW j \in 1 .. Len(p), i # j
               PROVE  ~Clash(p[i], p[j])
    OBVIOUS
  <2>1. CASE i <= Len(replies) /\ j <= Len(replies)
    BY <1>1, <1>2, <2>1 DEF CallsDiffer
  <2>2. CASE ~(i <= Len(replies)) /\ ~(j <= Len(replies))
    <3>1. i - Len(replies) \in 1 .. Len(queue) /\ j - Len(replies) \in 1 .. Len(queue)
          /\ i - Len(replies) # j - Len(replies)
      BY <1>1, <1>2, <2>2
    <3> QED BY <1>2, <2>2, <3>1 DEF CallsDiffer
  <2>3. CASE i <= Len(replies) /\ ~(j <= Len(replies))
    <3>1. i \in 1 .. Len(replies) /\ j - Len(replies) \in 1 .. Len(queue)
      BY <1>1, <1>2, <2>3
    <3> QED BY <1>2, <2>3, <3>1 DEF CallsDiffer
  <2>4. CASE ~(i <= Len(replies)) /\ j <= Len(replies)
    <3>1. j \in 1 .. Len(replies) /\ i - Len(replies) \in 1 .. Len(queue)
      BY <1>1, <1>2, <2>4
    <3>2. ~Clash(p[j], p[i])
      BY <1>2, <2>4, <3>1 DEF CallsDiffer
    <3> QED BY <3>2 DEF Clash
  <2> QED BY <2>1, <2>2, <2>3, <2>4
<1>6. \A i \in 1 .. Len(p) : Fits(p[i]) /\ p[i] \in GoodCalls
  <2> SUFFICES ASSUME NEW i \in 1 .. Len(p)
               PROVE  Fits(p[i]) /\ p[i] \in GoodCalls
    OBVIOUS
  <2>1. CASE i <= Len(replies)
    <3>1. i \in 1 .. Len(replies) /\ p[i] = replies[i]
      BY <1>1, <1>2, <2>1
    <3> QED BY <3>1, CallTurns DEF CallsFit
  <2>2. CASE ~(i <= Len(replies))
    <3>1. i - Len(replies) \in 1 .. Len(queue) /\ p[i] = queue[i - Len(replies)]
      BY <1>1, <1>2, <2>2
    <3> QED BY <3>1, CallTurns DEF CallsFit
  <2> QED BY <2>1, <2>2
<1>7. Len(replies') = Len(p)
  BY <1>1, <1>2, <1>3
<1>8. \A i \in 1 .. Len(replies') :
          /\ replies'[i].op = p[i].op /\ replies'[i].turn = p[i].turn
          /\ replies'[i].status = p[i].status /\ replies'[i].steered = p[i].steered
  <2>1. \A i \in 1 .. Len(p) : replies'[i] = Answered(p[i], FALSE)
    BY <1>3
  <2> QED BY ZenonT(40), <1>6, <1>7, <2>1, AnswerOf
<1>9. CallsDiffer'
  <2>1. \A i, j \in 1 .. Len(replies') : i # j => ~Clash(replies'[i], replies'[j])
    BY <1>5, <1>7, <1>8 DEF Clash
  <2>2. Len(queue') = 0
    BY <1>3
  <2> QED BY <2>1, <2>2 DEF CallsDiffer, Clash
<1>10. CallsFit'
  <2>1. \A i \in 1 .. Len(replies') : Fits(replies[i])'
    BY <1>4, <1>6, <1>7, <1>8 DEF Fits
  <2>2. Len(queue') = 0
    BY <1>3
  <2> QED BY <1>4, <2>1, <2>2 DEF CallsFit
<1> QED BY <1>9, <1>10

-----------------------------------------------------------------------------
(***************************************************************************)
(* Steps beside the turns                                                  *)
(***************************************************************************)
RestInv ==
    /\ PlaceTypes /\ LogsInv /\ ControlInv /\ CallsDiffer /\ CallsFit
    /\ QueueInv /\ SerialInv /\ SessionInv

LEMMA SameStagesKeepCallers ==
    ASSUME SameStages, UNCHANGED pc
    PROVE  CallersKept
BY DEF SameStages, SteerOpen, CallersKept

LEMMA LogsLeft ==
    ASSUME LogsInv, UNCHANGED log
    PROVE  LogsInv' /\ SameStages
BY DEF LogsInv, SameStages, StageFits, EventsFit

\* Events, titles, steering, Stops, their timers, the database and the sweep.
LEMMA BesideStep ==
    ASSUME TurnInv,
           \/ \E t \in Turns : \/ Emit(t) \/ TitleArrives(t) \/ Steer(t) \/ SteerSettles(t)
                               \/ StopActive(t) \/ CancelAnswered(t)
                               \/ ReserveCancellation(t) \/ ReservationExpires(t)
           \/ RunCall \/ RunDeferred \/ WorkerReady \/ WorkerDies \/ CheckpointRejected
           \/ DeferredSweep \/ UNCHANGED vars
    PROVE  RestInv'
<1>1. CallsInv /\ LogsInv /\ CallsDiffer /\ CallsFit
  BY DEF TurnInv
<1>2. ASSUME NEW t \in Turns,
             \/ Emit(t) \/ TitleArrives(t) \/ Steer(t) \/ SteerSettles(t)
             \/ StopActive(t) \/ CancelAnswered(t)
      PROVE  RestInv'
  <2>1. LogsInv' /\ SameStages /\ CheckpointsAdded
    BY <1>1, <1>2, StreamStep
  <2>2. UNCHANGED <<pc, current, ownerActive, completion, selfQueue, waitsFor,
                    retained, forcing, replies>>
    BY <1>2 DEF Emit, TitleArrives, Steer, SteerSettles, StopActive, CancelAnswered,
                chatVars, stopVars, dbVars
  <2>3. CallsDiffer' /\ CallsFit'
    BY <1>1, <2>1, <2>2, SameStagesKeepCallers, CallsWithCheckpoint
  <2> QED BY <2>1, <2>2, <2>3, AsideStep DEF RestInv
<1>3. CASE \/ \E t \in Turns : ReserveCancellation(t) \/ ReservationExpires(t)
           \/ WorkerReady \/ DeferredSweep \/ UNCHANGED vars
  <2>1. UNCHANGED <<pc, log, current, ownerActive, completion, selfQueue, waitsFor,
                    retained, forcing, queue, replies, deferred>>
    BY <1>3 DEF ReserveCancellation, ReservationExpires, WorkerReady, DeferredSweep,
                vars, hubVars, chatVars, stopVars, dbVars
  <2>2. LogsInv' /\ SameStages
    BY <1>1, <2>1, LogsLeft
  <2>3. CallsDiffer' /\ CallsFit'
    BY <1>1, <2>1, <2>2, SameStagesKeepCallers, CallsLeft
  <2> QED BY <2>1, <2>2, <2>3, AsideStep DEF RestInv
<1>4. CASE RunCall \/ RunDeferred \/ WorkerDies \/ CheckpointRejected
  <2>1. UNCHANGED <<pc, log, current, ownerActive, completion, selfQueue, waitsFor,
                    retained, forcing>>
    BY <1>4 DEF RunCall, RunDeferred, WorkerDies, CheckpointRejected, chatVars, stopVars
  <2>2. LogsInv' /\ SameStages
    BY <1>1, <2>1, LogsLeft
  <2>3. CASE RunDeferred
    <3>1. deferred \in Seq(GoodCalls) /\ deferred # <<>> /\ deferred' = Tail(deferred)
      BY <1>1, <2>3 DEF RunDeferred, CallsInv
    <3>2. \A i \in 1 .. Len(deferred') : deferred'[i].op = "checkpoint"
      <4>1. \A i \in 1 .. Len(deferred') :
                i + 1 \in 1 .. Len(deferred) /\ deferred'[i] = deferred[i + 1]
        BY <3>1
      <4> QED BY <1>1, <4>1 DEF CallsFit
    <3>3. UNCHANGED <<queue, replies>>
      BY <2>3 DEF RunDeferred
    <3>4. CallsDiffer' /\ CallsFit'
      BY SMTT(30), <1>1, <2>1, <3>2, <3>3 DEF CallsDiffer, Clash, CallsFit, Fits
    <3> QED BY <2>1, <2>2, <3>4, AsideStep DEF RestInv
  <2>4. CASE CheckpointRejected
    <3>1. CallsDiffer' /\ CallsFit'
      BY <1>1, <2>1, <2>4, CallsTaken DEF CheckpointRejected
    <3> QED BY <2>1, <2>2, <3>1, AsideStep DEF RestInv
  <2>5. CASE RunCall \/ WorkerDies
    <3>1. CallsDiffer' /\ CallsFit'
      BY <1>1, <2>5, CallsRun, CallsRejected
    <3> QED BY <2>1, <2>2, <3>1, AsideStep DEF RestInv
  <2> QED BY <1>4, <2>3, <2>4, <2>5
<1> QED BY <1>2, <1>3, <1>4

-----------------------------------------------------------------------------
(***************************************************************************)
(* Submitting and beginning turns                                          *)
(***************************************************************************)

\* A turn that is running has a loop that is.
LEMMA RunningPlaces ==
    ASSUME TurnInv, NEW u \in Turns, Running(u)
    PROVE  pc[u] \in {"beginning", "streaming", "finishing"}
<1>1. pc[u] \in Places /\ Control(u)
  BY DEF TurnInv, PlaceTypes, ControlInv
<1> QED BY <1>1 DEF Control, Running, Places, NotBegun

\* A self-turn that is under way is in front.
LEMMA UnderWayIsHead ==
    ASSUME TurnInv, NEW t \in Turns \ Foreground, pc[t] \in Queued \ {"queued"}
    PROVE  /\ selfQueue # <<>> /\ Head(selfQueue) = t
           /\ 1 \in 1 .. Len(selfQueue) /\ selfQueue[1] = t
<1>1. selfQueue \in Seq(Turns) /\ Len(selfQueue) \in Nat
  BY DEF TurnInv, PlaceTypes
<1>2. PICK i \in 1 .. Len(selfQueue) : selfQueue[i] = t
  BY DEF TurnInv, QueueInv
<1>3. i = 1
  BY <1>1, <1>2 DEF TurnInv, QueueInv
<1> QED BY <1>1, <1>2, <1>3

\* A chat that takes a message has no turn under way.
LEMMA FreeChat ==
    ASSUME TurnInv, ~ChatBusy, \A u \in Foreground : pc[u] # "beginning"
    PROVE  \A u \in Turns : ~Running(u) /\ pc[u] # "waiting"
<1> SUFFICES ASSUME NEW u \in Turns, Running(u) \/ pc[u] = "waiting"
             PROVE  FALSE
  OBVIOUS
<1>1. log[u].status # "active"
  <2>1. Control(u)
    BY DEF TurnInv, ControlInv
  <2> QED BY <2>1, HubAssumption DEF Control, ChatBusy, IsActive
<1>2. u \notin Foreground
  BY <1>1 DEF Running, TurnInv, QueueInv
<1>3. pc[u] \in Queued \ {"queued"}
  BY <1>1 DEF Running, Queued
<1> QED BY <1>2, <1>3, UnderWayIsHead DEF ChatBusy

LEMMA ForegroundTurns == Foreground \subseteq Turns
BY HubAssumption, TurnAssumption

\* Asking for a begin adds the only begin of the turn.
LEMMA BeginAsked ==
    ASSUME TurnInv, NEW t \in Turns, RequestBegin(t), pc[t] # "beginning",
           pc' = [pc EXCEPT ![t] = "beginning"], UNCHANGED <<log, replies, deferred>>
    PROVE  CallsDiffer' /\ CallsFit'
<1> DEFINE c == Call("begin", t, -1, "error", FALSE)
<1>1. -1 \in SeqNumbers /\ "error" \in Terminal
  BY BoundAssumption DEF SeqNumbers, Terminal
<1>2. c \in GoodCalls
  BY <1>1, CallGood
<1>3. c.op = "begin" /\ c.turn = t
  BY DEF Call
<1>4. queue' = Append(queue, c)
  BY DEF RequestBegin
<1> HIDE DEF c
<1>5. pc'[t] = "beginning" /\ CallersKept
  BY DEF TurnInv, PlaceTypes, CallersKept
<1> QED BY <1>2, <1>3, <1>4, <1>5, CallsWithOne DEF TurnInv

\* A turn without a log moves on, and the logs and the session stay.
LEMMA PlaceChanged ==
    ASSUME TurnInv, NEW t \in Turns, NEW x \in NotBegun, pc[t] \in NotBegun,
           pc' = [pc EXCEPT ![t] = x],
           UNCHANGED <<log, current, ownerActive, retained, forcing>>
    PROVE  ControlInv' /\ SessionInv' /\ LogsInv'
<1>1. pc'[t] = x /\ \A u \in Turns \ {t} : pc'[u] = pc[u]
  BY DEF TurnInv, PlaceTypes
<1>2. ControlInv'
  <2> SUFFICES ASSUME NEW u \in Turns
               PROVE  Control(u)'
    BY DEF ControlInv
  <2>1. Control(u)
    BY DEF TurnInv, ControlInv
  <2>2. CASE u = t
    BY <1>1, <2>1, <2>2 DEF Control, NotBegun
  <2>3. CASE u # t
    BY <1>1, <2>1, <2>3 DEF Control
  <2> QED BY <2>2, <2>3
<1>3. SessionInv'
  BY <1>1 DEF TurnInv, PlaceTypes, SessionInv, SessionFollowsTurn, IsActive, NotBegun
<1>4. LogsInv'
  BY LogsLeft DEF TurnInv
<1> QED BY <1>2, <1>3, <1>4

LEMMA StartTurnStep ==
    ASSUME TurnInv, NEW t \in Turns, StartTurn(t)
    PROVE  RestInv'
<1>1. /\ t \in Foreground /\ pc[t] = "idle"
      /\ UNCHANGED <<log, current, ownerActive, selfQueue, waitsFor, retained, forcing,
                     replies, deferred>>
  BY DEF StartTurn
<1>2. \A u \in Turns : ~Running(u) /\ pc[u] # "waiting"
  BY FreeChat DEF StartTurn
<1>3. \/ /\ completion' = NoTurn /\ pc' = [pc EXCEPT ![t] = "refused"] /\ UNCHANGED queue
      \/ /\ completion' = t /\ pc' = [pc EXCEPT ![t] = "beginning"] /\ RequestBegin(t)
  BY DEF StartTurn, Claim
<1>4. PICK x \in {"refused", "beginning"} : pc' = [pc EXCEPT ![t] = x]
  BY <1>3
<1>5. pc'[t] = x /\ \A u \in Turns \ {t} : pc'[u] = pc[u]
  BY <1>4 DEF TurnInv, PlaceTypes
<1>6. PlaceTypes'
  BY <1>1, <1>3, <1>4 DEF TurnInv, PlaceTypes, Places
<1>7. ControlInv' /\ SessionInv' /\ LogsInv'
  <2>1. x \in NotBegun /\ pc[t] \in NotBegun
    BY <1>1 DEF NotBegun
  <2> QED BY <1>1, <1>4, <2>1, PlaceChanged
<1>8. QueueInv'
  <2>1. \A i \in 1 .. Len(selfQueue) : selfQueue[i] \in Turns \ {t}
    BY <1>1 DEF TurnInv, PlaceTypes, QueueInv
  <2>2. QueueInv
    BY DEF TurnInv
  <2> QED BY <1>1, <1>5, <2>1, <2>2, ForegroundTurns DEF QueueInv, Queued
<1>9. \A u \in Turns : Running(u)' => u = t /\ x = "beginning"
  BY <1>1, <1>2, <1>5 DEF Running
<1>10. SerialInv'
  <2>1. \A u \in Turns : pc'[u] # "waiting"
    BY <1>2, <1>5
  <2>2. x = "beginning" => completion' = t
    BY <1>3, <1>4, <1>5 DEF TurnInv, PlaceTypes
  <2> QED BY <1>9, <2>1, <2>2, ForegroundTurns DEF SerialInv
<1>11. CallsDiffer' /\ CallsFit'
  <2>1. CASE RequestBegin(t) /\ pc' = [pc EXCEPT ![t] = "beginning"]
    BY <1>1, <2>1, BeginAsked
  <2>2. CASE UNCHANGED queue /\ pc' = [pc EXCEPT ![t] = "refused"]
    <3>1. CallersKept
      BY <1>1, <2>2 DEF CallersKept, TurnInv, PlaceTypes
    <3> QED BY <1>1, <2>2, <3>1, CallsLeft DEF TurnInv
  <2> QED BY <1>3, <2>1, <2>2
<1> QED BY <1>6, <1>7, <1>8, <1>10, <1>11 DEF RestInv

LEMMA QueueSelfTurnStep ==
    ASSUME TurnInv, NEW t \in Turns, QueueSelfTurn(t)
    PROVE  RestInv'
<1>1. /\ t \notin Foreground /\ pc[t] = "idle"
      /\ selfQueue' = Append(selfQueue, t) /\ pc' = [pc EXCEPT ![t] = "queued"]
      /\ UNCHANGED <<log, current, ownerActive, completion, waitsFor, retained, forcing,
                     queue, replies, deferred>>
  BY DEF QueueSelfTurn, stopVars, dbVars
<1>2. pc'[t] = "queued" /\ \A u \in Turns \ {t} : pc'[u] = pc[u]
  BY <1>1 DEF TurnInv, PlaceTypes
<1>3. selfQueue \in Seq(Turns) /\ Len(selfQueue) \in Nat
  BY DEF TurnInv, PlaceTypes
<1>4. PlaceTypes'
  BY <1>1, <1>3 DEF TurnInv, PlaceTypes, Places
<1>5. ControlInv' /\ SessionInv' /\ LogsInv'
  <2>1. "queued" \in NotBegun /\ pc[t] \in NotBegun
    BY <1>1 DEF NotBegun
  <2> QED BY <1>1, <2>1, PlaceChanged
<1>6. /\ Len(selfQueue') = Len(selfQueue) + 1 /\ selfQueue'[Len(selfQueue) + 1] = t
      /\ \A i \in 1 .. Len(selfQueue) : selfQueue'[i] = selfQueue[i]
  BY <1>1, <1>3
<1>7. \A i \in 1 .. Len(selfQueue) : selfQueue[i] \in Turns \ {t}
  BY <1>1, <1>3 DEF TurnInv, QueueInv, Queued
<1>8. QueueInv'
  <2>1. QueueInv
    BY DEF TurnInv
  <2>2. \A i, j \in 1 .. Len(selfQueue') : selfQueue'[i] = selfQueue'[j] => i = j
    BY <1>3, <1>6, <1>7, <2>1 DEF QueueInv
  <2>3. ASSUME NEW i \in 1 .. Len(selfQueue')
        PROVE  /\ selfQueue'[i] \notin Foreground
               /\ pc'[selfQueue'[i]] \in Queued
               /\ i > 1 => pc'[selfQueue'[i]] = "queued"
    <3>1. CASE i = Len(selfQueue) + 1
      BY <1>1, <1>2, <1>6, <3>1 DEF Queued
    <3>2. CASE i \in 1 .. Len(selfQueue)
      BY <1>2, <1>6, <1>7, <2>1, <3>2 DEF QueueInv
    <3> QED BY <1>3, <1>6, <3>1, <3>2
  <2>4. ASSUME NEW u \in Turns \ Foreground, pc'[u] \in Queued
        PROVE  \E i \in 1 .. Len(selfQueue') : selfQueue'[i] = u
    <3>1. CASE u = t
      <4>1. Len(selfQueue) + 1 \in 1 .. Len(selfQueue')
        BY <1>3, <1>6
      <4> QED BY <1>6, <3>1, <4>1
    <3>2. CASE u # t
      <4>1. PICK i \in 1 .. Len(selfQueue) : selfQueue[i] = u
        BY <1>2, <2>1, <2>4, <3>2 DEF QueueInv
      <4>2. i \in 1 .. Len(selfQueue') /\ selfQueue'[i] = u
        BY <1>3, <1>6, <4>1
      <4> QED BY <4>2
    <3> QED BY <3>1, <3>2
  <2>5. \A u \in Foreground : pc'[u] \notin {"queued", "waiting", "draining"}
    BY <1>1, <1>2, <2>1, ForegroundTurns DEF QueueInv
  <2> QED BY <2>2, <2>3, <2>4, <2>5 DEF QueueInv
<1>9. \A u \in Turns : Running(u)' => Running(u)
  BY <1>1, <1>2 DEF Running
<1>10. SerialInv'
  BY <1>1, <1>2, <1>9, ForegroundTurns DEF SerialInv, TurnInv
<1>11. CallsDiffer' /\ CallsFit'
  <2>1. CallersKept
    BY <1>1, <1>2 DEF CallersKept
  <2> QED BY <1>1, <2>1, CallsLeft DEF TurnInv
<1> QED BY <1>4, <1>5, <1>8, <1>10, <1>11 DEF RestInv

\* The turn in front, or a submitted turn, moves on.
LEMMA QueueMoves ==
    ASSUME TurnInv, NEW t \in Turns, NEW x, pc' = [pc EXCEPT ![t] = x], UNCHANGED selfQueue,
           \/ t \in Foreground /\ x \notin {"queued", "waiting", "draining"}
           \/ t \notin Foreground /\ pc[t] \in Queued /\ x \in Queued
              /\ Len(selfQueue) > 0 /\ selfQueue[1] = t
    PROVE  QueueInv'
<1>1. QueueInv /\ selfQueue \in Seq(Turns) /\ Len(selfQueue) \in Nat
  BY DEF TurnInv, PlaceTypes
<1>2. pc'[t] = x /\ \A u \in Turns \ {t} : pc'[u] = pc[u]
  BY DEF TurnInv, PlaceTypes
<1>3. ASSUME NEW i \in 1 .. Len(selfQueue')
      PROVE  /\ selfQueue'[i] \notin Foreground
             /\ pc'[selfQueue'[i]] \in Queued
             /\ i > 1 => pc'[selfQueue'[i]] = "queued"
  <2>1. selfQueue[i] \in Turns
    BY <1>1
  <2>2. CASE selfQueue[i] # t
    BY <1>1, <1>2, <2>1, <2>2 DEF QueueInv
  <2>3. CASE selfQueue[i] = t
    <3>1. t \notin Foreground
      BY <1>1, <2>3 DEF QueueInv
    <3>2. selfQueue[1] = t /\ 1 \in 1 .. Len(selfQueue)
      BY <1>1, <3>1
    <3>3. i = 1
      BY <1>1, <2>3, <3>2 DEF QueueInv
    <3> QED BY <1>2, <2>3, <3>1, <3>3
  <2> QED BY <2>2, <2>3
<1>4. ASSUME NEW u \in Turns \ Foreground, pc'[u] \in Queued
      PROVE  \E i \in 1 .. Len(selfQueue') : selfQueue'[i] = u
  <2>1. pc[u] \in Queued
    BY <1>2, <1>4
  <2> QED BY <1>1, <2>1 DEF QueueInv
<1>5. \A u \in Foreground : pc'[u] \notin {"queued", "waiting", "draining"}
  BY <1>1, <1>2, ForegroundTurns DEF QueueInv
<1>6. \A i, j \in 1 .. Len(selfQueue') : selfQueue'[i] = selfQueue'[j] => i = j
  BY <1>1 DEF QueueInv
<1> QED BY <1>3, <1>4, <1>5, <1>6 DEF QueueInv

\* A turn that is over gives up its place, and the next one is in front.
LEMMA QueueLeft ==
    ASSUME TurnInv, NEW t \in Turns, NEW x \in {"over", "refused"},
           pc' = [pc EXCEPT ![t] = x], pc[t] \in Queued \ {"queued"}, LeaveQueue(t)
    PROVE  QueueInv' /\ selfQueue' \in Seq(Turns)
<1>1. QueueInv /\ selfQueue \in Seq(Turns) /\ Len(selfQueue) \in Nat
  BY DEF TurnInv, PlaceTypes
<1>2. pc'[t] = x /\ \A u \in Turns \ {t} : pc'[u] = pc[u]
  BY DEF TurnInv, PlaceTypes
<1>3. CASE t \in Foreground
  <2>1. selfQueue' = selfQueue
    BY <1>3 DEF LeaveQueue
  <2> QED BY <1>1, <1>3, <2>1, QueueMoves
<1>4. CASE t \notin Foreground
  <2>1. /\ selfQueue # <<>> /\ 1 \in 1 .. Len(selfQueue) /\ selfQueue[1] = t
    BY <1>4, UnderWayIsHead
  <2>2. selfQueue' = Tail(selfQueue)
    BY <1>4 DEF LeaveQueue
  <2>3. /\ Len(selfQueue') = Len(selfQueue) - 1
        /\ \A i \in 1 .. Len(selfQueue') :
               i + 1 \in 1 .. Len(selfQueue) /\ selfQueue'[i] = selfQueue[i + 1]
    BY <1>1, <2>1, <2>2
  <2>4. selfQueue' \in Seq(Turns)
    BY <1>1, <2>1, <2>2
  <2>5. \A i \in 1 .. Len(selfQueue') : selfQueue'[i] \in Turns \ {t} /\ pc[selfQueue'[i]] = "queued"
    <3> SUFFICES ASSUME NEW i \in 1 .. Len(selfQueue')
                 PROVE  selfQueue'[i] \in Turns \ {t} /\ pc[selfQueue'[i]] = "queued"
      OBVIOUS
    <3>1. i + 1 > 1 /\ i + 1 \in 1 .. Len(selfQueue) /\ selfQueue'[i] = selfQueue[i + 1]
      BY <1>1, <2>3
    <3>2. pc[selfQueue[i + 1]] = "queued" /\ selfQueue[i + 1] \in Turns
      BY <1>1, <3>1 DEF QueueInv
    <3> QED BY <3>1, <3>2
  <2>6. \A i, j \in 1 .. Len(selfQueue') : selfQueue'[i] = selfQueue'[j] => i = j
    BY <1>1, <2>3 DEF QueueInv
  <2>7. ASSUME NEW i \in 1 .. Len(selfQueue')
        PROVE  /\ selfQueue'[i] \notin Foreground
               /\ pc'[selfQueue'[i]] \in Queued
               /\ i > 1 => pc'[selfQueue'[i]] = "queued"
    BY <1>1, <1>2, <2>3, <2>5 DEF QueueInv, Queued
  <2>8. ASSUME NEW u \in Turns \ Foreground, pc'[u] \in Queued
        PROVE  \E i \in 1 .. Len(selfQueue') : selfQueue'[i] = u
    <3>1. u # t /\ pc[u] \in Queued
      BY <1>2, <2>8 DEF Queued
    <3>2. PICK i \in 1 .. Len(selfQueue) : selfQueue[i] = u
      BY <1>1, <3>1 DEF QueueInv
    <3>3. i # 1
      BY <2>1, <3>1, <3>2
    <3>4. i - 1 \in 1 .. Len(selfQueue') /\ selfQueue'[i - 1] = selfQueue[(i - 1) + 1]
      BY <1>1, <2>3, <3>2, <3>3
    <3>5. (i - 1) + 1 = i
      BY <3>2
    <3> QED BY <3>2, <3>4, <3>5
  <2>9. \A u \in Foreground : pc'[u] \notin {"queued", "waiting", "draining"}
    BY <1>1, <1>2, <1>4, ForegroundTurns DEF QueueInv
  <2> QED BY <2>4, <2>6, <2>7, <2>8, <2>9 DEF QueueInv
<1> QED BY <1>3, <1>4

LEMMA ReachHeadStep ==
    ASSUME TurnInv, NEW t \in Turns, ReachHead(t)
    PROVE  RestInv'
<1>1. /\ pc[t] = "queued" /\ Head(selfQueue) = t
      /\ waitsFor' = [waitsFor EXCEPT ![t] = completion]
      /\ pc' = [pc EXCEPT ![t] = "waiting"]
      /\ UNCHANGED <<log, current, ownerActive, completion, selfQueue, retained, forcing,
                     queue, replies, deferred>>
  BY DEF ReachHead, stopVars, dbVars
<1>2. /\ pc'[t] = "waiting" /\ \A u \in Turns \ {t} : pc'[u] = pc[u]
      /\ waitsFor'[t] = completion /\ \A u \in Turns \ {t} : waitsFor'[u] = waitsFor[u]
  BY <1>1 DEF TurnInv, PlaceTypes
<1>3. t \notin Foreground
  BY <1>1 DEF TurnInv, QueueInv
<1>4. Len(selfQueue) > 0 /\ selfQueue[1] = t
  <2>1. selfQueue \in Seq(Turns) /\ \E i \in 1 .. Len(selfQueue) : selfQueue[i] = t
    BY <1>1, <1>3 DEF TurnInv, QueueInv, PlaceTypes, Queued
  <2> QED BY <1>1, <2>1
<1>5. QueueInv'
  BY <1>1, <1>3, <1>4, QueueMoves DEF Queued
<1>6. ControlInv' /\ SessionInv' /\ LogsInv'
  <2>1. "waiting" \in NotBegun /\ pc[t] \in NotBegun
    BY <1>1 DEF NotBegun
  <2> QED BY <1>1, <2>1, PlaceChanged
<1>7. \A u \in Turns : Running(u)' => Running(u)
  BY <1>1, <1>2 DEF Running
<1>8. SerialInv'
  BY <1>1, <1>2, <1>7, ForegroundTurns DEF SerialInv, TurnInv
<1>9. CallsDiffer' /\ CallsFit'
  <2>1. CallersKept
    BY <1>1, <1>2 DEF CallersKept
  <2> QED BY <1>1, <2>1, CallsLeft DEF TurnInv
<1>10. PlaceTypes'
  BY <1>1 DEF TurnInv, PlaceTypes, Places
<1> QED BY <1>5, <1>6, <1>8, <1>9, <1>10 DEF RestInv

\* When a self-turn begins nobody is under way: the submitted turn it found has
\* settled, and another self-turn is not in front.
LEMMA NoneUnderWay ==
    ASSUME TurnInv, NEW t \in Turns, BeginSelfTurn(t)
    PROVE  \A u \in Turns : ~Running(u)
<1> SUFFICES ASSUME NEW u \in Turns, Running(u)
             PROVE  FALSE
  OBVIOUS
<1>1. pc[t] = "waiting" /\ (waitsFor[t] # NoTurn => Settled(waitsFor[t]))
  BY DEF BeginSelfTurn
<1>2. t \notin Foreground
  BY <1>1 DEF TurnInv, QueueInv
<1>3. selfQueue[1] = t
  <2>1. pc[t] \in Queued \ {"queued"}
    BY <1>1 DEF Queued
  <2> QED BY <1>2, <2>1, UnderWayIsHead
<1>4. pc[u] \in {"beginning", "streaming", "finishing"}
  BY RunningPlaces
<1>5. CASE u \in Foreground
  <2>1. waitsFor[t] = u
    BY <1>1, <1>5 DEF TurnInv, SerialInv
  <2> QED BY <1>1, <1>4, <2>1, HubAssumption DEF Settled
<1>6. CASE u \notin Foreground
  <2>1. selfQueue[1] = u
    BY <1>4, <1>6, UnderWayIsHead DEF Queued
  <2> QED BY <1>1, <1>3, <1>4, <2>1
<1> QED BY <1>5, <1>6

LEMMA BeginSelfTurnStep ==
    ASSUME TurnInv, NEW t \in Turns, BeginSelfTurn(t)
    PROVE  RestInv'
<1>1. /\ pc[t] = "waiting" /\ pc' = [pc EXCEPT ![t] = "beginning"] /\ RequestBegin(t)
      /\ waitsFor[t] # NoTurn => Settled(waitsFor[t])
      /\ UNCHANGED <<log, current, ownerActive, completion, selfQueue, waitsFor, retained,
                     forcing, replies, deferred>>
  BY DEF BeginSelfTurn, chatVars, stopVars
<1>2. pc'[t] = "beginning" /\ \A u \in Turns \ {t} : pc'[u] = pc[u]
  BY <1>1 DEF TurnInv, PlaceTypes
<1>3. t \notin Foreground
  BY <1>1 DEF TurnInv, QueueInv
<1>4. Len(selfQueue) > 0 /\ selfQueue[1] = t
  <2>1. pc[t] \in Queued \ {"queued"}
    BY <1>1 DEF Queued
  <2> QED BY <1>3, <2>1, UnderWayIsHead DEF TurnInv, PlaceTypes
<1>5. QueueInv'
  BY <1>1, <1>3, <1>4, QueueMoves DEF Queued
<1>6. ControlInv' /\ SessionInv' /\ LogsInv'
  <2>1. "beginning" \in NotBegun /\ pc[t] \in NotBegun
    BY <1>1 DEF NotBegun
  <2> QED BY <1>1, <2>1, PlaceChanged
<1>7. \A u \in Turns : ~Running(u)
  BY NoneUnderWay
<1>8. \A u \in Turns : Running(u)' => u = t
  BY <1>1, <1>2, <1>7 DEF Running
<1>9. SerialInv'
  BY <1>1, <1>3, <1>8, ForegroundTurns DEF SerialInv
<1>10. CallsDiffer' /\ CallsFit'
  BY <1>1, BeginAsked
<1>11. PlaceTypes'
  BY <1>1 DEF TurnInv, PlaceTypes, Places
<1> QED BY <1>5, <1>6, <1>9, <1>10, <1>11 DEF RestInv

\* A turn that could not begin is drained or refused and leaves its claim.
LEMMA BeginFailedStep ==
    ASSUME TurnInv, NEW t \in Turns,
           DrainEnds(t) \/ (ReceiveBegin /\ t = Head(replies).turn /\ BeginFailed(t))
    PROVE  RestInv'
<1>1. /\ UNCHANGED <<log, current, ownerActive, waitsFor, retained, forcing, queue, deferred>>
      /\ completion' = completion \/ (completion = t /\ completion' = NoTurn)
  BY DEF DrainEnds, ReceiveBegin, BeginFailed, stopVars, dbVars
<1>2. CASE ReceiveBegin /\ t = Head(replies).turn /\ BeginFailed(t)
  <2>1. Head(replies).op = "begin" /\ replies # <<>> /\ replies' = Tail(replies)
    BY <1>2 DEF ReceiveBegin
  <2>2. pc[t] = "beginning"
    <3>1. replies \in Seq(GoodCalls) /\ 1 \in 1 .. Len(replies) /\ Head(replies) = replies[1]
      BY <2>1 DEF TurnInv, CallsInv
    <3> QED BY <1>2, <2>1, <3>1 DEF TurnInv, CallsFit, Fits
  <2>3. PICK x \in {"refused", "draining"} : pc' = [pc EXCEPT ![t] = x]
    BY <1>2 DEF BeginFailed
  <2>4. pc'[t] = x /\ \A u \in Turns \ {t} : pc'[u] = pc[u]
    BY <2>3 DEF TurnInv, PlaceTypes
  <2>5. QueueInv' /\ selfQueue' \in Seq(Turns)
    <3>1. pc[t] \in Queued \ {"queued"}
      BY <2>2 DEF Queued
    <3>2. CASE t \in Foreground \cup Requested
      BY <1>2, <3>1, <3>2, QueueLeft DEF BeginFailed
    <3>3. CASE t \notin Foreground \cup Requested
      <4>1. pc' = [pc EXCEPT ![t] = "draining"] /\ selfQueue' = selfQueue
        BY <1>2, <3>3 DEF BeginFailed
      <4>2. Len(selfQueue) > 0 /\ selfQueue[1] = t
        BY <3>1, <3>3, UnderWayIsHead DEF TurnInv, PlaceTypes
      <4>3. QueueInv'
        BY <3>1, <3>3, <4>1, <4>2, QueueMoves DEF Queued
      <4> QED BY <4>1, <4>3 DEF TurnInv, PlaceTypes
    <3> QED BY <3>2, <3>3
  <2>6. ControlInv' /\ SessionInv' /\ LogsInv'
    <3>1. x \in NotBegun /\ pc[t] \in NotBegun
      BY <2>2 DEF NotBegun
    <3> QED BY <1>1, <2>3, <3>1, PlaceChanged
  <2>7. \A u \in Turns : Running(u)' => Running(u) /\ u # t
    <3>1. log[t].status = "none"
      BY <2>2 DEF TurnInv, ControlInv, Control, NotBegun
    <3> QED BY <1>1, <2>4, <3>1 DEF Running
  <2>8. SerialInv'
    <3>1. SerialInv
      BY DEF TurnInv
    <3> QED BY <1>1, <2>4, <2>7, <3>1, ForegroundTurns DEF SerialInv
  <2>9. CallsDiffer' /\ CallsFit'
    BY <1>1, <1>2, <2>1, <2>4, CallsTaken DEF TurnInv
  <2>10. PlaceTypes'
    BY <1>1, <2>3, <2>5 DEF TurnInv, PlaceTypes, Places
  <2> QED BY <2>5, <2>6, <2>8, <2>9, <2>10 DEF RestInv
<1>3. CASE DrainEnds(t)
  <2>1. /\ pc[t] = "draining" /\ pc' = [pc EXCEPT ![t] = "refused"] /\ LeaveQueue(t)
        /\ UNCHANGED <<replies, completion>>
    BY <1>3 DEF DrainEnds, dbVars
  <2>2. pc'[t] = "refused" /\ \A u \in Turns \ {t} : pc'[u] = pc[u]
    BY <2>1 DEF TurnInv, PlaceTypes
  <2>3. QueueInv' /\ selfQueue' \in Seq(Turns)
    BY <2>1, QueueLeft DEF Queued
  <2>4. ControlInv' /\ SessionInv' /\ LogsInv'
    <3>1. "refused" \in NotBegun /\ pc[t] \in NotBegun
      BY <2>1 DEF NotBegun
    <3> QED BY <1>1, <2>1, <3>1, PlaceChanged
  <2>5. \A u \in Turns : Running(u)' => Running(u)
    BY <1>1, <2>2 DEF Running
  <2>6. SerialInv'
    <3>1. SerialInv
      BY DEF TurnInv
    <3> QED BY <1>1, <2>1, <2>2, <2>5, <3>1, ForegroundTurns DEF SerialInv
  <2>7. CallsDiffer' /\ CallsFit'
    <3>1. CallersKept
      BY <1>1, <2>1, <2>2 DEF CallersKept
    <3> QED BY <1>1, <2>1, <3>1, CallsLeft DEF TurnInv
  <2>8. PlaceTypes'
    BY <1>1, <2>1, <2>3 DEF TurnInv, PlaceTypes, Places
  <2> QED BY <2>3, <2>4, <2>6, <2>7, <2>8 DEF RestInv
<1> QED BY <1>2, <1>3

\* The log of a turn that has begun: active, and already being finalized if it
\* was stopped first.
LEMMA BegunLog ==
    ASSUME TurnInv, NEW t \in Turns, BeginCommitted(t)
    PROVE  /\ LogsInv' /\ \A u \in Turns \ {t} : log'[u] = log[u]
           /\ log'[t].status = "active" /\ log'[t].steer = "none"
           /\ \/ /\ StopPending(t) /\ pc' = [pc EXCEPT ![t] = "finishing"]
                 /\ log'[t].fin = "requested" /\ log'[t].outcome = "cancelled"
              \/ /\ ~StopPending(t) /\ pc' = [pc EXCEPT ![t] = "streaming"]
                 /\ log'[t].fin = "none" /\ log'[t].outcome = "error"
<1> DEFINE title == IF t \in Titled /\ ~StopPending(t) THEN "pending" ELSE "none"
           fresh == [NewLog EXCEPT !.status = "active", !.title = title]
           started == Stamped(fresh, "start")
           ended == [started EXCEPT !.fin = "requested", !.outcome = "cancelled"]
<1>1. title \in {"none", "pending", "shown"}
  OBVIOUS
<1>2. \/ /\ StopPending(t) /\ pc' = [pc EXCEPT ![t] = "finishing"]
         /\ log' = [log EXCEPT ![t] = ended]
      \/ /\ ~StopPending(t) /\ pc' = [pc EXCEPT ![t] = "streaming"]
         /\ log' = [log EXCEPT ![t] = started]
  BY DEF BeginCommitted
<1> HIDE DEF title
<1>3. /\ fresh \in LogShape /\ fresh.status = "active" /\ fresh.fin = "none"
      /\ fresh.outcome = "error" /\ fresh.steer = "none" /\ fresh.events = NewLog.events
  BY <1>1, NewLogGood, NewLogFits DEF GoodLogs, LogShape
<1> HIDE DEF fresh
<1>4. EventsFit(fresh)
  <2>1. NewLog.events = <<>>
    BY DEF NewLog
  <2> QED BY <1>3, <2>1 DEF EventsFit
<1>5. /\ started \in LogShape /\ started.status = "active" /\ started.fin = "none"
      /\ started.outcome = "error" /\ started.steer = "none" /\ EventsFit(started)
  <2>1. "start" \in Kinds \ EndKinds /\ "start" # "steer"
    BY DEF Kinds, EndKinds
  <2> QED BY <1>3, <1>4, <2>1, StampedFits
<1> HIDE DEF started
<1>6. StageFits(started)
  BY <1>5 DEF StageFits
<1>7. /\ ended.status = "active" /\ ended.fin = "requested" /\ ended.outcome = "cancelled"
      /\ ended.steer = "none" /\ StageFits(ended) /\ EventsFit(ended)
  <2>1. "cancelled" \in Terminal
    BY DEF Terminal
  <2> QED BY <1>5, <1>6, <2>1, FinishFits
<1> HIDE DEF ended
<1>8. CallsInv /\ LogsInv
  BY DEF TurnInv
<1>9. CASE log' = [log EXCEPT ![t] = ended]
  <2>1. /\ LogsInv' /\ log'[t] = ended
        /\ \A u \in Turns \ {t} : log'[u] = log[u]
    BY <1>7, <1>8, <1>9, OneLogChanged
  <2>2. ~(pc' = [pc EXCEPT ![t] = "streaming"] /\ log' = [log EXCEPT ![t] = started])
    <3>1. log \in [Turns -> GoodLogs]
      BY <1>8 DEF CallsInv
    <3> QED BY <1>5, <1>7, <1>9, <3>1
  <2> QED BY <1>2, <1>7, <2>1, <2>2
<1>10. CASE log' = [log EXCEPT ![t] = started]
  <2>1. /\ LogsInv' /\ log'[t] = started
        /\ \A u \in Turns \ {t} : log'[u] = log[u]
    BY <1>5, <1>6, <1>8, <1>10, OneLogChanged
  <2>2. ~(pc' = [pc EXCEPT ![t] = "finishing"] /\ log' = [log EXCEPT ![t] = ended])
    <3>1. log \in [Turns -> GoodLogs]
      BY <1>8 DEF CallsInv
    <3> QED BY <1>5, <1>7, <1>10, <3>1
  <2> QED BY <1>2, <1>5, <2>1, <2>2
<1> QED BY <1>2, <1>9, <1>10

\* The rows of a begin are there: no other turn is active, and no session of an
\* earlier turn is left.
LEMMA BeginCommittedStep ==
    ASSUME TurnInv, ReceiveBegin, NEW t \in Turns, t = Head(replies).turn, BeginCommitted(t)
    PROVE  RestInv'
<1>1. /\ Quiet /\ Head(replies).op = "begin" /\ replies # <<>> /\ replies' = Tail(replies)
      /\ UNCHANGED <<waitsFor, retained, forcing, queue, deferred>>
  BY DEF ReceiveBegin, stopVars
<1>2. /\ current' = t /\ ownerActive' = (ownerActive \/ t \in Attached)
      /\ UNCHANGED <<completion, selfQueue>>
  BY DEF BeginCommitted
<1>3. /\ LogsInv' /\ \A u \in Turns \ {t} : log'[u] = log[u]
      /\ log'[t].status = "active"
      /\ \/ pc' = [pc EXCEPT ![t] = "finishing"] /\ log'[t].fin = "requested"
         \/ pc' = [pc EXCEPT ![t] = "streaming"] /\ log'[t].fin = "none"
  BY BegunLog
<1>4. PICK x \in {"streaming", "finishing"} :
          pc' = [pc EXCEPT ![t] = x] /\ (x = "finishing" <=> log'[t].fin # "none")
  BY <1>3
<1>5. pc'[t] = x /\ \A u \in Turns \ {t} : pc'[u] = pc[u]
  BY <1>4 DEF TurnInv, PlaceTypes
<1>6. pc[t] = "beginning"
  <2>1. replies \in Seq(GoodCalls) /\ 1 \in 1 .. Len(replies) /\ Head(replies) = replies[1]
    BY <1>1 DEF TurnInv, CallsInv
  <2> QED BY <1>1, <2>1 DEF TurnInv, CallsFit, Fits
<1>7. \A u \in Turns : Control(u) /\ StageFits(log[u])
  BY DEF TurnInv, ControlInv, LogsInv
<1>8. \A u \in Turns : Running(u) => u = t
  BY <1>6 DEF TurnInv, SerialInv, Running
<1>9. log[t].status = "none" /\ log[t].fin = "none" /\ t \notin forcing /\ t \notin retained
  BY <1>6, <1>7 DEF Control, StageFits, NotBegun
<1>10. ControlInv'
  <2> SUFFICES ASSUME NEW u \in Turns
               PROVE  Control(u)'
    BY DEF ControlInv
  <2>1. CASE u = t
    BY <1>1, <1>2, <1>3, <1>4, <1>5, <1>9, <2>1 DEF Control, NotBegun
  <2>2. CASE u # t
    <3>1. log[u].status # "active"
      BY <1>8, <2>2 DEF Running
    <3> QED BY <1>1, <1>3, <1>5, <1>7, <2>2, <3>1 DEF Control
  <2> QED BY <2>1, <2>2
<1>11. QueueInv'
  <2>1. CASE t \in Foreground
    BY <1>2, <1>4, <2>1, QueueMoves
  <2>2. CASE t \notin Foreground
    <3>1. Len(selfQueue) > 0 /\ selfQueue[1] = t
      BY <1>6, <2>2, UnderWayIsHead DEF Queued, TurnInv, PlaceTypes
    <3> QED BY <1>2, <1>4, <1>6, <2>2, <3>1, QueueMoves DEF Queued
  <2> QED BY <2>1, <2>2
<1>12. SerialInv'
  <2>1. \A u \in Turns : Running(u)' => u = t
    BY <1>3, <1>5, <1>8 DEF Running
  <2>2. Running(t)
    BY <1>6 DEF Running
  <2>3. SerialInv
    BY DEF TurnInv
  <2> QED BY <1>1, <1>2, <1>5, <2>1, <2>2, <2>3, ForegroundTurns DEF SerialInv
\* The session of a turn that is over would have a finally block due.
<1>13. ownerActive = FALSE
  <2> SUFFICES ASSUME ownerActive
               PROVE  FALSE
    BY DEF TurnInv, PlaceTypes
  <2>1. /\ current \in Turns
        /\ \/ log[current].status = "active"
           \/ pc[current] = "finishing" \/ current \in forcing
    BY HubAssumption DEF TurnInv, SessionInv, SessionFollowsTurn
  <2>2. log[current].status # "active"
    BY <1>8, <1>9, <2>1 DEF Running
  <2>3. log[current].fin # "none"
    BY <1>7, <2>1, <2>2 DEF Control
  <2>4. log[current].fin = "settled"
    <3>1. log[current] \in LogShape
      BY <2>1 DEF TurnInv, CallsInv, GoodLogs
    <3>2. log[current].status # "none"
      BY <1>7, <2>1, <2>3 DEF StageFits
    <3>3. log[current].status \in {"ended", "error"}
      BY <2>2, <3>1, <3>2 DEF LogShape
    <3> QED BY <1>7, <2>1, <3>3 DEF StageFits
  <2> QED BY <1>1, <2>1, <2>2, <2>4 DEF Quiet
<1>14. SessionInv'
  BY <1>2, <1>3, <1>13, HubAssumption DEF SessionInv, SessionFollowsTurn, IsActive
<1>15. CallsDiffer' /\ CallsFit'
  BY <1>1, <1>3, <1>5, <1>9, CallsTaken DEF TurnInv
<1>16. PlaceTypes'
  BY <1>1, <1>2, <1>4, <1>13 DEF TurnInv, PlaceTypes, Places
<1> QED BY <1>3, <1>10, <1>11, <1>12, <1>14, <1>15, <1>16 DEF RestInv

-----------------------------------------------------------------------------
(***************************************************************************)
(* Ending turns                                                            *)
(***************************************************************************)

\* finalizeOnce on a turn that is live.
LEMMA FinishedLog ==
    ASSUME TurnInv, NEW t \in Turns, NEW s \in Terminal, Live(t), log[t].fin = "none",
           Finish(t, s)
    PROVE  /\ LogsInv' /\ \A u \in Turns \ {t} : log'[u] = log[u]
           /\ log'[t].status = "active" /\ log'[t].fin = "requested"
           /\ log'[t].outcome = s /\ log'[t].steer = log[t].steer
<1> DEFINE k == [log[t] EXCEPT !.fin = "requested", !.outcome = s]
<1>1. /\ CallsInv /\ LogsInv /\ log[t] \in LogShape /\ log[t].status = "active"
      /\ StageFits(log[t]) /\ EventsFit(log[t])
  BY DEF TurnInv, CallsInv, GoodLogs, LogsInv, Live
<1>2. log' = [log EXCEPT ![t] = k]
  BY <1>1 DEF Finish, CallsInv
<1>3. /\ k.status = "active" /\ k.fin = "requested" /\ k.outcome = s
      /\ k.steer = log[t].steer /\ StageFits(k) /\ EventsFit(k)
  BY <1>1, FinishFits
<1> HIDE DEF k
<1>4. /\ LogsInv' /\ log'[t] = k
      /\ \A u \in Turns \ {t} : log'[u] = log[u]
  BY <1>1, <1>2, <1>3, OneLogChanged
<1> QED BY <1>3, <1>4

\* The turn's own loop, or the cancel timer in its place, asks for the end.
LEMMA EndStep ==
    ASSUME TurnInv, NEW t \in Turns, NEW s \in Terminal, Live(t),
           \/ log[t].fin = "none" /\ Finish(t, s)
           \/ log[t].fin # "none" /\ UNCHANGED log,
           \/ /\ pc[t] = "streaming" /\ pc' = [pc EXCEPT ![t] = "finishing"]
              /\ UNCHANGED forcing
           \/ forcing' = forcing \cup {t} /\ UNCHANGED pc,
           UNCHANGED <<current, ownerActive, completion, selfQueue, waitsFor, retained,
                       queue, replies, deferred>>
    PROVE  RestInv'
<1>1. /\ log[t].status = "active" /\ current = t
      /\ StageFits(log[t]) /\ LogsInv
  BY DEF Live, TurnInv, LogsInv
<1>2. /\ LogsInv' /\ \A u \in Turns \ {t} : log'[u] = log[u]
      /\ log'[t].status = "active" /\ log'[t].fin \in {"requested", "committing"}
      /\ \/ log[t].fin = "none"
         \/ log'[t] = log[t]
  <2>1. CASE log[t].fin = "none" /\ Finish(t, s)
    BY <2>1, FinishedLog
  <2>2. CASE log[t].fin # "none" /\ UNCHANGED log
    <3>1. log[t] \in LogShape
      BY DEF TurnInv, CallsInv, GoodLogs
    <3>2. log[t].fin \in {"requested", "committing"}
      BY <1>1, <2>2, <3>1 DEF StageFits, LogShape
    <3> QED BY <1>1, <2>2, <3>2, LogsLeft
  <2> QED BY <2>1, <2>2
<1>3. /\ \A u \in Turns \ {t} : pc'[u] = pc[u] /\ (u \in forcing' <=> u \in forcing)
      /\ pc'[t] = "finishing" \/ t \in forcing'
      /\ pc'[t] \in {pc[t], "finishing"} /\ pc[t] \in {"streaming", "finishing"}
  <2>1. pc[t] \in {"beginning", "streaming", "finishing"}
    BY <1>1, RunningPlaces DEF Running
  <2>2. pc[t] # "beginning"
    BY <1>1 DEF TurnInv, ControlInv, Control, NotBegun
  <2> QED BY <2>1, <2>2 DEF TurnInv, PlaceTypes
<1>4. ControlInv'
  <2> SUFFICES ASSUME NEW u \in Turns
               PROVE  Control(u)'
    BY DEF ControlInv
  <2>1. Control(u)
    BY DEF TurnInv, ControlInv
  <2>2. CASE u = t
    BY <1>1, <1>2, <1>3, <2>1, <2>2 DEF Control, NotBegun
  <2>3. CASE u # t
    BY <1>2, <1>3, <2>1, <2>3 DEF Control
  <2> QED BY <2>2, <2>3
<1>5. QueueInv'
  <2>1. CASE UNCHANGED pc
    BY <2>1 DEF TurnInv, QueueInv
  <2>2. CASE pc' = [pc EXCEPT ![t] = "finishing"]
    <3>1. CASE t \in Foreground
      BY <2>2, <3>1, QueueMoves
    <3>2. CASE t \notin Foreground
      <4>1. pc[t] \in Queued \ {"queued"} /\ "finishing" \in Queued
        BY <1>3 DEF Queued
      <4>2. Len(selfQueue) > 0 /\ selfQueue[1] = t
        BY <3>2, <4>1, UnderWayIsHead DEF TurnInv, PlaceTypes
      <4> QED BY <2>2, <3>2, <4>1, <4>2, QueueMoves
    <3> QED BY <3>1, <3>2
  <2> QED BY <2>1, <2>2
<1>6. SerialInv'
  <2>1. \A u \in Turns : Running(u)' => Running(u)
    BY <1>1, <1>2, <1>3 DEF Running
  <2>2. \A u \in Turns : pc'[u] = "waiting" => pc[u] = "waiting"
    BY <1>3
  <2>3. SerialInv
    BY DEF TurnInv
  <2> QED BY <2>1, <2>2, <2>3, ForegroundTurns DEF SerialInv
<1>7. SessionInv'
  BY <1>1, <1>2 DEF TurnInv, SessionInv, SessionFollowsTurn, IsActive
<1>8. CallsDiffer' /\ CallsFit'
  <2>1. CallersKept
    BY <1>2, <1>3 DEF CallersKept
  <2> QED BY <2>1, CallsLeft DEF TurnInv
<1>9. PlaceTypes'
  <2>1. pc' \in [Turns -> Places]
    BY DEF TurnInv, PlaceTypes, Places
  <2> QED BY <2>1 DEF TurnInv, PlaceTypes
<1> QED BY <1>2, <1>4, <1>5, <1>6, <1>7, <1>8, <1>9 DEF RestInv

\* What ends a turn: turn_end, an error, the timer, and joining them.
LEMMA EndingStep ==
    ASSUME TurnInv, NEW t \in Turns,
           \/ (\E s \in EndReasons : EndTurn(t, s)) \/ (\E r \in BOOLEAN : FailTurn(t, r))
           \/ JoinFinalization(t) \/ (CancelTimeout /\ t = cancelTimer)
    PROVE  RestInv'
<1>1. CASE \E s \in EndReasons : EndTurn(t, s)
  <2>1. PICK s \in EndReasons : EndTurn(t, s)
    BY <1>1
  <2> DEFINE r == IF StopPending(t) THEN "cancelled" ELSE s
  <2>2. r \in Terminal
    BY HubAssumption DEF Terminal
  <2>3. /\ Live(t) /\ log[t].fin = "none" /\ Finish(t, r)
        /\ pc[t] = "streaming" /\ pc' = [pc EXCEPT ![t] = "finishing"]
        /\ UNCHANGED <<current, ownerActive, completion, selfQueue, waitsFor, retained,
                       forcing, queue, replies, deferred>>
    BY <2>1 DEF EndTurn, chatVars, stopVars, dbVars
  <2> HIDE DEF r
  <2> QED BY <2>2, <2>3, EndStep
<1>2. CASE \E r \in BOOLEAN : FailTurn(t, r)
  <2>1. PICK r \in BOOLEAN : FailTurn(t, r)
    BY <1>2
  <2> DEFINE s == IF StopPending(t) /\ ~r THEN "cancelled" ELSE "error"
  <2>2. s \in Terminal
    BY DEF Terminal
  <2>3. /\ Live(t) /\ log[t].fin = "none" /\ Finish(t, s)
        /\ pc[t] = "streaming" /\ pc' = [pc EXCEPT ![t] = "finishing"]
        /\ UNCHANGED <<current, ownerActive, completion, selfQueue, waitsFor, retained,
                       forcing, queue, replies, deferred>>
    BY <2>1 DEF FailTurn, chatVars, stopVars, dbVars
  <2> HIDE DEF s
  <2> QED BY <2>2, <2>3, EndStep
<1>3. CASE JoinFinalization(t)
  <2>1. "error" \in Terminal
    BY DEF Terminal
  <2>2. /\ Live(t) /\ log[t].fin # "none" /\ UNCHANGED log
        /\ pc[t] = "streaming" /\ pc' = [pc EXCEPT ![t] = "finishing"]
        /\ UNCHANGED <<current, ownerActive, completion, selfQueue, waitsFor, retained,
                       forcing, queue, replies, deferred>>
    BY <1>3 DEF JoinFinalization, chatVars, stopVars, dbVars
  <2> QED BY <2>1, <2>2, EndStep
<1>4. CASE CancelTimeout /\ t = cancelTimer
  <2>1. UNCHANGED <<pc, current, ownerActive, completion, selfQueue, waitsFor, retained,
                    queue, replies, deferred>>
    BY <1>4 DEF CancelTimeout, chatVars, dbVars
  <2>2. CASE Live(t)
    <3>1. "cancelled" \in Terminal
      BY DEF Terminal
    <3>2. /\ \/ log[t].fin = "none" /\ Finish(t, "cancelled")
             \/ log[t].fin # "none" /\ UNCHANGED log
          /\ forcing' = forcing \cup {t}
      BY <1>4, <2>2 DEF CancelTimeout
    <3> QED BY <2>1, <2>2, <3>1, <3>2, EndStep
  <2>3. CASE ~Live(t)
    <3>1. UNCHANGED <<log, forcing>>
      BY <1>4, <2>3 DEF CancelTimeout
    <3>2. LogsInv' /\ SameStages
      BY <3>1, LogsLeft DEF TurnInv
    <3>3. CallsDiffer' /\ CallsFit'
      BY <2>1, <3>2, SameStagesKeepCallers, CallsLeft DEF TurnInv
    <3> QED BY <2>1, <3>1, <3>2, <3>3, AsideStep DEF RestInv
  <2> QED BY <2>2, <2>3
<1> QED BY <1>1, <1>2, <1>3, <1>4

\* The finally block, and a loop that comes back after its turn was finished
\* by the timer.
LEMMA LeaveStep ==
    ASSUME TurnInv, NEW t \in Turns, LateEvent(t) \/ FinallyBlock(t)
    PROVE  RestInv'
<1>1. /\ Leave(t) /\ UNCHANGED <<log, current, waitsFor, forcing, queue, replies, deferred>>
      /\ pc[t] \in {"streaming", "finishing"}
      /\ (pc[t] = "streaming" /\ ~Live(t)) \/ log[t].fin = "settled"
  BY DEF LateEvent, FinallyBlock, dbVars
<1>2. Control(t) /\ StageFits(log[t]) /\ log[t] \in LogShape
  BY DEF TurnInv, ControlInv, LogsInv, CallsInv, GoodLogs
<1>3. log[t].status # "active" /\ log[t].fin \notin {"requested", "committing"}
  <2>1. log[t].status # "active"
    BY <1>1, <1>2 DEF Control, Live, StageFits
  <2> QED BY <1>1, <1>2, <2>1 DEF Control, StageFits, LogShape
<1>4. /\ pc' = [pc EXCEPT ![t] = "over"] /\ LeaveQueue(t)
      /\ retained' = retained \cup {t}
      /\ ownerActive' = (ownerActive /\ ~(current = t /\ t \in Attached))
      /\ completion' = IF completion = t THEN NoTurn ELSE completion
  BY <1>1 DEF Leave, OwnsChat
<1>5. pc'[t] = "over" /\ \A u \in Turns \ {t} : pc'[u] = pc[u]
  BY <1>4 DEF TurnInv, PlaceTypes
<1>6. QueueInv' /\ selfQueue' \in Seq(Turns)
  BY <1>1, <1>4, QueueLeft DEF Queued
<1>7. LogsInv' /\ SameStages
  BY <1>1, LogsLeft DEF TurnInv
<1>8. ControlInv'
  <2> SUFFICES ASSUME NEW u \in Turns
               PROVE  Control(u)'
    BY DEF ControlInv
  <2>1. Control(u)
    BY DEF TurnInv, ControlInv
  <2>2. CASE u = t
    BY <1>1, <1>3, <1>4, <1>5, <2>1, <2>2 DEF Control, NotBegun
  <2>3. CASE u # t
    BY <1>1, <1>4, <1>5, <2>1, <2>3 DEF Control
  <2> QED BY <2>2, <2>3
<1>9. SerialInv'
  <2>1. \A u \in Turns : Running(u)' => Running(u) /\ u # t
    BY <1>1, <1>3, <1>5 DEF Running
  <2>2. SerialInv /\ \A u \in Turns : pc'[u] = "waiting" => pc[u] = "waiting"
    BY <1>5 DEF TurnInv
  <2> QED BY <1>1, <1>4, <2>1, <2>2, ForegroundTurns DEF SerialInv
<1>10. SessionInv'
  <2>1. CASE current = t
    <3>1. ownerActive' = FALSE
      BY <1>4, <2>1 DEF TurnInv, SessionInv
    <3>2. ~IsActive'
      BY <1>1, <1>3, <2>1 DEF IsActive
    <3> QED BY <3>1, <3>2 DEF SessionInv, SessionFollowsTurn
  <2>2. CASE current # t
    <3>1. ownerActive' = ownerActive
      BY <1>4, <2>2 DEF TurnInv, PlaceTypes
    <3>2. SessionInv /\ current \in Turns \cup {NoTurn}
      BY DEF TurnInv, PlaceTypes
    <3> QED BY <1>1, <1>5, <2>2, <3>1, <3>2 DEF SessionInv, SessionFollowsTurn, IsActive
  <2> QED BY <2>1, <2>2
<1>11. CallsDiffer' /\ CallsFit'
  <2>1. CallersKept
    BY <1>1, <1>5 DEF CallersKept
  <2> QED BY <1>1, <2>1, CallsLeft DEF TurnInv
<1>12. PlaceTypes'
  <2>1. pc' \in [Turns -> Places] /\ completion' \in Turns \cup {NoTurn}
        /\ ownerActive' \in BOOLEAN
    BY <1>4 DEF TurnInv, PlaceTypes, Places
  <2> QED BY <1>1, <1>6, <2>1 DEF TurnInv, PlaceTypes
<1> QED BY <1>6, <1>7, <1>8, <1>9, <1>10, <1>11, <1>12 DEF RestInv

\* The timer's own end: the session goes with the turn.
LEMMA ForceFinishedStep ==
    ASSUME TurnInv, NEW t \in Turns, ForceFinished(t)
    PROVE  RestInv'
<1>1. /\ log[t].fin = "settled" /\ forcing' = forcing \ {t}
      /\ ownerActive' = (ownerActive /\ current # t)
      /\ retained' = IF current = t THEN retained \cup {t} ELSE retained
      /\ t \in forcing
      /\ UNCHANGED <<pc, log, current, completion, selfQueue, waitsFor, queue, replies, deferred>>
  BY DEF ForceFinished, ReleaseSession, dbVars
<1>2. log[t].status \in {"ended", "error"} /\ pc[t] \notin NotBegun
  BY <1>1 DEF TurnInv, LogsInv, StageFits, ControlInv, Control
<1>3. LogsInv' /\ SameStages
  BY <1>1, LogsLeft DEF TurnInv
<1>4. ControlInv'
  <2> SUFFICES ASSUME NEW u \in Turns
               PROVE  Control(u)'
    BY DEF ControlInv
  <2>1. Control(u)
    BY DEF TurnInv, ControlInv
  <2>2. CASE u = t
    BY <1>1, <1>2, <2>1, <2>2 DEF Control
  <2>3. CASE u # t
    BY <1>1, <2>1, <2>3 DEF Control
  <2> QED BY <2>2, <2>3
<1>5. QueueInv'
  BY <1>1 DEF TurnInv, QueueInv
<1>6. SerialInv'
  <2>1. \A u \in Turns : Running(u)' <=> Running(u)
    BY <1>1 DEF Running
  <2> QED BY <1>1, <2>1, ForegroundTurns DEF TurnInv, SerialInv
<1>7. SessionInv'
  <2>1. CASE current = t
    <3>1. ~ownerActive' /\ ~IsActive'
      BY <1>1, <1>2, <2>1 DEF IsActive
    <3> QED BY <3>1 DEF SessionInv, SessionFollowsTurn
  <2>2. CASE current # t
    <3>1. ownerActive' = ownerActive
      BY <1>1, <2>2 DEF TurnInv, PlaceTypes
    <3>2. SessionInv
      BY DEF TurnInv
    <3> QED BY <1>1, <2>2, <3>1, <3>2 DEF SessionInv, SessionFollowsTurn, IsActive
  <2> QED BY <2>1, <2>2
<1>8. CallsDiffer' /\ CallsFit'
  BY <1>1, <1>3, SameStagesKeepCallers, CallsLeft DEF TurnInv
<1>9. PlaceTypes'
  BY <1>1 DEF TurnInv, PlaceTypes
<1> QED BY <1>3, <1>4, <1>5, <1>6, <1>7, <1>8, <1>9 DEF RestInv

\* The log is committing exactly what the final call says.
LEMMA PersistedLog ==
    ASSUME TurnInv, NEW t \in Turns, Persist(t)
    PROVE  /\ LogsInv' /\ \A u \in Turns \ {t} : log'[u] = log[u]
           /\ log[t].status = "active" /\ log'[t].status = "active"
           /\ log'[t].fin = "committing" /\ log'[t].outcome = log[t].outcome
           /\ log'[t].steer = log[t].steer
           /\ \E q \in SeqNumbers :
                  /\ q >= 0
                  /\ queue' = Append(queue, Call("finalize", t, q, log[t].outcome,
                                                 log[t].steer = "accepted"))
<1> DEFINE l == IF StopPending(t) /\ ~Published(t, "settled")
                THEN Stamped(log[t], "settled") ELSE log[t]
           k == [l EXCEPT !.fin = "committing", !.endSeq = l.nextSeq,
                          !.nextSeq = l.nextSeq + 1]
<1>1. /\ log[t] \in LogShape /\ log[t].fin = "requested" /\ log[t].steer # "asked"
      /\ log[t].nextSeq \in Nat /\ log[t].nextSeq <= MaxSeq - 2
      /\ CallsInv /\ LogsInv /\ StageFits(log[t]) /\ EventsFit(log[t])
  BY DEF Persist, TurnInv, CallsInv, GoodLogs, RoomForEnd, LogShape, LogsInv, SteersSettled
<1>2. log[t].status = "active"
  BY <1>1 DEF StageFits, LogShape
<1>3. /\ l \in LogShape /\ l.status = "active" /\ l.fin = "requested"
      /\ l.outcome = log[t].outcome /\ l.steer = log[t].steer /\ EventsFit(l)
      /\ l.nextSeq <= MaxSeq
  <2>1. "settled" \in Kinds \ EndKinds /\ "settled" \in Kinds /\ "settled" # "steer"
        /\ log[t].fin # "settled"
    BY <1>1 DEF Kinds, EndKinds
  <2>2. CASE l = log[t]
    BY <1>1, <1>2, <2>2, BoundAssumption
  <2>3. CASE l = Stamped(log[t], "settled")
    <3>1. /\ Stamped(log[t], "settled") \in LogShape
          /\ Stamped(log[t], "settled").nextSeq = log[t].nextSeq + 1
      BY <1>1, <2>1, StampedShape
    <3>2. l.nextSeq <= MaxSeq
      BY <1>1, <2>3, <3>1, BoundAssumption
    <3> QED BY <1>1, <1>2, <2>1, <2>3, <3>1, <3>2, StampedFits
  <2> QED BY <2>2, <2>3
<1>4. /\ log' = [log EXCEPT ![t] = k]
      /\ queue' = Append(queue, Call("finalize", t, l.nextSeq, l.outcome, l.steer = "accepted"))
  BY DEF Persist, RequestFinalize
<1> HIDE DEF l
<1>5. l.nextSeq \in SeqNumbers /\ l.nextSeq >= 0 /\ l.nextSeq \in Int /\ l.nextSeq + 1 \in Nat
  BY <1>3, BoundAssumption DEF LogShape, SeqNumbers
<1>6. /\ k.status = "active" /\ k.fin = "committing" /\ k.outcome = l.outcome
      /\ k.steer = l.steer /\ StageFits(k) /\ EventsFit(k)
  BY <1>1, <1>3, <1>5, CommitFits
<1> HIDE DEF k
<1>7. /\ LogsInv' /\ log'[t] = k
      /\ \A u \in Turns \ {t} : log'[u] = log[u]
  BY <1>1, <1>4, <1>6, OneLogChanged
<1> QED BY <1>2, <1>3, <1>4, <1>5, <1>6, <1>7

LEMMA PersistStep ==
    ASSUME TurnInv, NEW t \in Turns, Persist(t)
    PROVE  RestInv'
<1>1. /\ UNCHANGED <<pc, current, ownerActive, completion, selfQueue, waitsFor, retained,
                     forcing, replies, deferred>>
      /\ log[t].fin = "requested"
  BY DEF Persist, chatVars, stopVars
<1>2. /\ LogsInv' /\ \A u \in Turns \ {t} : log'[u] = log[u]
      /\ log[t].status = "active" /\ log'[t].status = "active"
      /\ log'[t].fin = "committing" /\ log'[t].outcome = log[t].outcome
      /\ log'[t].steer = log[t].steer
  BY PersistedLog
<1>3. PICK q \in SeqNumbers :
          /\ q >= 0
          /\ queue' = Append(queue, Call("finalize", t, q, log[t].outcome,
                                         log[t].steer = "accepted"))
  BY PersistedLog
<1>4. ControlInv'
  <2> SUFFICES ASSUME NEW u \in Turns
               PROVE  Control(u)'
    BY DEF ControlInv
  <2>1. Control(u)
    BY DEF TurnInv, ControlInv
  <2>2. CASE u = t
    BY <1>1, <1>2, <2>1, <2>2 DEF Control
  <2>3. CASE u # t
    BY <1>1, <1>2, <2>1, <2>3 DEF Control
  <2> QED BY <2>2, <2>3
<1>5. QueueInv'
  BY <1>1 DEF TurnInv, QueueInv
<1>6. SerialInv'
  <2>1. \A u \in Turns : Running(u)' <=> Running(u)
    BY <1>1, <1>2 DEF Running
  <2> QED BY <1>1, <2>1, ForegroundTurns DEF TurnInv, SerialInv
<1>7. SessionInv'
  <2>1. \A u \in Turns : log'[u].status = log[u].status
    BY <1>2
  <2> QED BY <1>1, <2>1 DEF TurnInv, PlaceTypes, SessionInv, SessionFollowsTurn, IsActive
<1>8. CallsDiffer' /\ CallsFit'
  <2> DEFINE c == Call("finalize", t, q, log[t].outcome, log[t].steer = "accepted")
  <2>1. c.op = "finalize" /\ c.turn = t /\ c.status = log[t].outcome
        /\ c.steered = (log[t].steer = "accepted")
    BY DEF Call
  <2>2. c \in GoodCalls
    <3>1. log[t].outcome \in Terminal /\ (log[t].steer = "accepted") \in BOOLEAN
      BY DEF TurnInv, CallsInv, GoodLogs, LogShape
    <3> QED BY <1>3, <3>1, CallGood
  <2>3. queue' = Append(queue, c)
    BY <1>3
  <2> HIDE DEF c
  <2>4. CallersKept
    BY <1>1, <1>2 DEF CallersKept
  <2>5. log[t].fin # "committing"
    BY <1>1
  <2> QED BY <1>1, <1>2, <2>1, <2>2, <2>3, <2>4, <2>5, CallsWithOne DEF TurnInv
<1>9. PlaceTypes'
  BY <1>1 DEF TurnInv, PlaceTypes
<1> QED BY <1>2, <1>4, <1>5, <1>6, <1>7, <1>8, <1>9 DEF RestInv

\* The answer to a finalization finds a log that waits for it.
LEMMA FinalizeAwaited ==
    ASSUME TurnInv, ReceiveFinalize, NEW t \in Turns, t = Head(replies).turn
    PROVE  /\ log[t].fin = "committing" /\ log[t].status = "active"
           /\ log[t].outcome = Head(replies).status
           /\ Head(replies).steered = (log[t].steer = "accepted")
           /\ replies # <<>> /\ 1 \in 1 .. Len(replies) /\ Head(replies) = replies[1]
<1>1. replies # <<>> /\ Head(replies).op = "finalize"
  BY DEF ReceiveFinalize
<1>2. replies \in Seq(GoodCalls) /\ 1 \in 1 .. Len(replies) /\ Head(replies) = replies[1]
  BY <1>1 DEF TurnInv, CallsInv
<1>3. /\ log[t].fin = "committing" /\ log[t].outcome = Head(replies).status
      /\ Head(replies).steered = (log[t].steer = "accepted")
  BY <1>1, <1>2 DEF TurnInv, CallsFit, Fits
<1>4. log[t].status = "active"
  <2>1. StageFits(log[t]) /\ log[t] \in LogShape
    BY DEF TurnInv, LogsInv, CallsInv, GoodLogs
  <2> QED BY <1>3, <2>1 DEF StageFits, LogShape
<1> QED BY <1>1, <1>2, <1>3, <1>4

LEMMA SettledLog ==
    ASSUME TurnInv, ReceiveFinalize, NEW t \in Turns, t = Head(replies).turn
    PROVE  /\ LogsInv' /\ \A u \in Turns \ {t} : log'[u] = log[u]
           /\ log'[t].status \in {"ended", "error"} /\ log'[t].fin = "settled"
           /\ log'[t].outcome = log[t].outcome /\ log'[t].steer = log[t].steer
           /\ \E x : /\ log'[t].events = Append(log[t].events, x)
                     /\ x.kind = "done" => log'[t].status = "ended"
           /\ log'[t].status = "ended" => told' = [told EXCEPT ![t] = log[t].outcome]
<1> DEFINE failed == log[t].outcome = "error"
           last == [seq |-> log[t].endSeq, kind |-> IF failed THEN "error" ELSE "done"]
           e == Append(log[t].events, last)
           s == IF failed THEN "error" ELSE "ended"
           k == [log[t] EXCEPT !.fin = "settled", !.status = s, !.events = e]
           f == [log[t] EXCEPT !.fin = "settled", !.status = "error"]
           g == Stamped(f, "unsaved")
<1>1. /\ CallsInv /\ LogsInv /\ log[t] \in LogShape
      /\ StageFits(log[t]) /\ EventsFit(log[t])
      /\ log[t].fin = "committing" /\ log[t].steer # "asked"
  <2>1. /\ CallsInv /\ LogsInv /\ log[t] \in LogShape
        /\ StageFits(log[t]) /\ EventsFit(log[t])
    BY DEF TurnInv, CallsInv, GoodLogs, LogsInv
  <2>2. log[t].fin = "committing"
    BY FinalizeAwaited
  <2> QED BY <2>1, <2>2 DEF StageFits
<1>2. \/ log' = [log EXCEPT ![t] = k] /\ told' = [told EXCEPT ![t] = log[t].outcome]
      \/ log' = [log EXCEPT ![t] = g]
  BY DEF ReceiveFinalize, FinalizeCommitted, FinalizeFailed
<1>3. last \in [seq : Int, kind : Kinds] /\ last.kind \in EndKinds
  BY <1>1 DEF LogShape, Kinds, EndKinds
<1>4. e \in Seq([seq : Int, kind : Kinds])
  <2> HIDE DEF last
  <2> QED BY <1>1, <1>3 DEF LogShape
<1>5. s \in {"ended", "error"} /\ (last.kind = "done" => s = "ended")
  OBVIOUS
<1>6. /\ k \in LogShape /\ k.fin = "settled" /\ k.status = s /\ k.events = e
      /\ k.outcome = log[t].outcome /\ k.steer = log[t].steer
  <2> HIDE DEF e, s
  <2>1. k \in LogShape /\ k.fin = "settled"
    BY ZenonT(40), <1>1, <1>4, <1>5, SettledShape
  <2> QED BY <1>1, <2>1 DEF LogShape
<1>7. StageFits(k) /\ EventsFit(k)
  <2> HIDE DEF k, last, s
  <2> QED BY <1>1, <1>3, <1>5, <1>6, SettleFits
<1>8. /\ f \in LogShape /\ f.fin = "settled" /\ f.status = "error" /\ f.events = log[t].events
      /\ f.outcome = log[t].outcome /\ f.steer = log[t].steer
  <2>1. f \in LogShape /\ f.fin = "settled"
    <3>1. log[t].events \in Seq([seq : Int, kind : Kinds])
      BY <1>1 DEF LogShape
    <3> QED BY <1>1, <3>1, SettledShape
  <2> QED BY <1>1, <2>1 DEF LogShape
<1>9. /\ g \in LogShape /\ g.fin = "settled" /\ g.status = "error"
      /\ g.events = Append(log[t].events, [seq |-> f.nextSeq, kind |-> "unsaved"])
      /\ g.outcome = log[t].outcome /\ g.steer = log[t].steer
  <2> HIDE DEF f
  <2>1. "unsaved" \in Kinds
    BY DEF Kinds
  <2>2. g \in LogShape /\ g.fin = f.fin /\ g.outcome = f.outcome /\ g.steer = f.steer
    BY <1>8, <2>1, StampedShape
  <2>3. g.status = f.status
        /\ g.events = Append(f.events, [seq |-> f.nextSeq, kind |-> "unsaved"])
    BY <1>8 DEF Stamped, LogShape
  <2> QED BY <1>8, <2>2, <2>3
<1>10. StageFits(g) /\ EventsFit(g)
  <2> DEFINE x == [seq |-> f.nextSeq, kind |-> "unsaved"]
  <2>1. x.kind \in EndKinds /\ g.events = Append(log[t].events, x)
    BY <1>9 DEF EndKinds
  <2> HIDE DEF g, x
  <2> QED BY <1>1, <1>9, <2>1, SettleFits
<1> HIDE DEF k, g, s, last
<1>11. CASE log' = [log EXCEPT ![t] = k] /\ told' = [told EXCEPT ![t] = log[t].outcome]
  <2>1. /\ LogsInv' /\ log'[t] = k
        /\ \A u \in Turns \ {t} : log'[u] = log[u]
    BY <1>1, <1>7, <1>11, OneLogChanged
  <2> QED BY <1>5, <1>6, <1>11, <2>1
<1>12. CASE log' = [log EXCEPT ![t] = g]
  <2>1. /\ LogsInv' /\ log'[t] = g
        /\ \A u \in Turns \ {t} : log'[u] = log[u]
    BY <1>1, <1>10, <1>12, OneLogChanged
  <2>2. ASSUME NEW x, x = [seq |-> f.nextSeq, kind |-> "unsaved"]
        PROVE  x.kind # "done"
    BY <2>2
  <2> QED BY <1>9, <2>1, <2>2
<1> QED BY <1>2, <1>11, <1>12

LEMMA SettleStep ==
    ASSUME TurnInv, ReceiveFinalize, NEW t \in Turns, t = Head(replies).turn
    PROVE  RestInv'
<1>1. /\ UNCHANGED <<pc, current, ownerActive, completion, selfQueue, waitsFor, retained,
                     forcing, queue, deferred>>
      /\ replies' = Tail(replies) /\ Head(replies).op = "finalize"
  BY DEF ReceiveFinalize, chatVars, stopVars
<1>2. /\ log[t].fin = "committing" /\ log[t].status = "active" /\ replies # <<>>
  BY FinalizeAwaited
<1>3. /\ LogsInv' /\ \A u \in Turns \ {t} : log'[u] = log[u]
      /\ log'[t].status \in {"ended", "error"} /\ log'[t].fin = "settled"
  BY SettledLog
<1>4. ControlInv'
  <2> SUFFICES ASSUME NEW u \in Turns
               PROVE  Control(u)'
    BY DEF ControlInv
  <2>1. Control(u)
    BY DEF TurnInv, ControlInv
  <2>2. CASE u = t
    BY <1>1, <1>2, <1>3, <2>1, <2>2 DEF Control
  <2>3. CASE u # t
    BY <1>1, <1>3, <2>1, <2>3 DEF Control
  <2> QED BY <2>2, <2>3
<1>5. QueueInv'
  BY <1>1 DEF TurnInv, QueueInv
<1>6. SerialInv'
  <2>1. \A u \in Turns : Running(u)' => Running(u)
    BY <1>1, <1>3 DEF Running
  <2> QED BY <1>1, <2>1, ForegroundTurns DEF TurnInv, SerialInv
<1>7. SessionInv'
  <2>1. SessionInv /\ current \in Turns \cup {NoTurn}
    BY DEF TurnInv, PlaceTypes
  <2>2. CASE current = t
    <3>1. pc[t] = "finishing" \/ t \in forcing
      BY <1>2 DEF TurnInv, ControlInv, Control
    <3>2. ~IsActive'
      BY <1>1, <1>3, <2>2 DEF IsActive
    <3> QED BY <1>1, <2>1, <2>2, <3>1, <3>2, HubAssumption DEF SessionInv, SessionFollowsTurn
  <2>3. CASE current # t
    BY <1>1, <1>3, <2>1, <2>3 DEF SessionInv, SessionFollowsTurn, IsActive
  <2> QED BY <2>2, <2>3
<1>8. CallsDiffer' /\ CallsFit'
  BY <1>1, <1>2, <1>3, CallsTaken DEF TurnInv
<1>9. PlaceTypes'
  BY <1>1 DEF TurnInv, PlaceTypes
<1> QED BY <1>3, <1>4, <1>5, <1>6, <1>7, <1>8, <1>9 DEF RestInv

\* Eviction: what a log is dropped from is over, and has no session.
LEMMA EvictStep ==
    ASSUME TurnInv, NEW t \in Turns, Evict(t)
    PROVE  RestInv'
<1>1. /\ Quiet /\ t \in retained /\ retained' = retained \ {t}
      /\ current' = IF current = t THEN NoTurn ELSE current
      /\ log' = IF pc[t] = "over" THEN [log EXCEPT ![t] = NewLog] ELSE log
      /\ UNCHANGED <<pc, ownerActive, completion, selfQueue, waitsFor, forcing,
                     queue, replies, deferred>>
  BY DEF Evict, MainFree, stopVars, dbVars
<1>2. /\ Control(t) /\ StageFits(log[t]) /\ log[t] \in LogShape
      /\ log[t].status # "active" /\ pc[t] \notin NotBegun
  BY <1>1 DEF TurnInv, ControlInv, Control, LogsInv, CallsInv, GoodLogs
<1>3. /\ LogsInv' /\ \A u \in Turns \ {t} : log'[u] = log[u]
      /\ \/ log'[t] = log[t]
         \/ /\ pc[t] = "over" /\ log'[t].status = "none" /\ log'[t].fin = "none"
  <2>1. CASE pc[t] = "over"
    <3>1. log' = [log EXCEPT ![t] = NewLog]
      BY <1>1, <2>1
    <3> QED BY <2>1, <3>1, NewLogFits, OneLogChanged DEF TurnInv
  <2>2. CASE pc[t] # "over"
    BY <1>1, <2>2, LogsLeft DEF TurnInv
  <2> QED BY <2>1, <2>2
<1>4. log[t].fin \notin {"requested", "committing"}
  BY <1>2 DEF StageFits, LogShape
<1>5. t \notin forcing
  BY <1>1, <1>2, <1>4 DEF Control, Quiet, LogShape
<1>6. ControlInv'
  <2> SUFFICES ASSUME NEW u \in Turns
               PROVE  Control(u)'
    BY DEF ControlInv
  <2>1. Control(u)
    BY DEF TurnInv, ControlInv
  <2>2. CASE u = t
    BY <1>1, <1>2, <1>3, <1>4, <1>5, <2>1, <2>2 DEF Control
  <2>3. CASE u # t
    BY <1>1, <1>3, <2>1, <2>3 DEF Control
  <2> QED BY <2>2, <2>3
<1>7. QueueInv'
  BY <1>1 DEF TurnInv, QueueInv
<1>8. SerialInv'
  <2>1. \A u \in Turns : Running(u)' => Running(u)
    BY <1>1, <1>3 DEF Running
  <2> QED BY <1>1, <2>1, ForegroundTurns DEF TurnInv, SerialInv
<1>9. SessionInv'
  <2>1. SessionInv /\ current \in Turns \cup {NoTurn}
    BY DEF TurnInv, PlaceTypes
  <2>2. CASE current = t
    <3>1. pc[t] # "finishing"
      BY <1>1, <1>2, <1>4 DEF Control, Quiet, LogShape
    <3>2. ~ownerActive
      BY <1>2, <1>5, <2>1, <2>2, <3>1 DEF SessionInv, SessionFollowsTurn
    <3> QED BY <1>1, <2>2, <3>2 DEF SessionInv, SessionFollowsTurn, IsActive
  <2>3. CASE current # t
    BY <1>1, <1>3, <2>1, <2>3 DEF SessionInv, SessionFollowsTurn, IsActive
  <2> QED BY <2>2, <2>3
<1>10. CallsDiffer' /\ CallsFit'
  <2>1. CallersKept
    BY <1>1, <1>3, <1>4 DEF CallersKept
  <2> QED BY <1>1, <2>1, CallsLeft DEF TurnInv
<1>11. PlaceTypes'
  BY <1>1 DEF TurnInv, PlaceTypes
<1> QED BY <1>3, <1>6, <1>7, <1>8, <1>9, <1>10, <1>11 DEF RestInv

\* A process that has just started has no turn.
Fresh ==
    /\ current = NoTurn /\ ownerActive = FALSE /\ completion = NoTurn
    /\ selfQueue = <<>> /\ waitsFor = [t \in Turns |-> NoTurn] /\ retained = {}
    /\ forcing = {} /\ queue = <<>> /\ replies = <<>> /\ deferred = <<>>
    /\ log = [t \in Turns |-> NewLog]
    /\ pc \in [Turns -> {"idle", "over"}]

LEMMA FreshFits == Fresh => RestInv
<1> SUFFICES ASSUME Fresh
             PROVE  RestInv
  OBVIOUS
<1>1. \A u \in Turns : /\ log[u] = NewLog /\ log[u].status = "none" /\ log[u].fin = "none"
                       /\ pc[u] \in {"idle", "over"}
  BY NewLogFits DEF Fresh
<1>2. PlaceTypes
  <2>1. pc \in [Turns -> Places]
    BY DEF Fresh, Places
  <2>2. selfQueue \in Seq(Turns)
    BY DEF Fresh
  <2>3. waitsFor \in [Turns -> Turns \cup {NoTurn}]
    BY DEF Fresh
  <2> QED BY <2>1, <2>2, <2>3 DEF Fresh, PlaceTypes
<1>3. LogsInv
  BY <1>1, NewLogFits DEF LogsInv
<1>4. ControlInv
  BY <1>1 DEF ControlInv, Control, Fresh
<1>5. CallsDiffer /\ CallsFit
  BY DEF CallsDiffer, CallsFit, Fresh
<1>6. QueueInv
  <2>1. Len(selfQueue) = 0
    BY DEF Fresh
  <2> QED BY <1>1, <2>1, ForegroundTurns DEF QueueInv, Queued
<1>7. SerialInv
  BY <1>1, ForegroundTurns DEF SerialInv, Running
<1>8. SessionInv
  BY DEF SessionInv, SessionFollowsTurn, IsActive, Fresh
<1> QED BY <1>2, <1>3, <1>4, <1>5, <1>6, <1>7, <1>8 DEF RestInv

LEMMA RestartIsFresh ==
    ASSUME Restart
    PROVE  Fresh'
<1>1. pc' \in [Turns -> {"idle", "over"}]
  BY DEF Restart
<1> QED BY <1>1 DEF Restart, Fresh

LEMMA TurnInvInit == HubInit => TurnInv
<1> SUFFICES ASSUME HubInit
             PROVE  TurnInv
  OBVIOUS
<1>1. Fresh
  BY DEF HubInit, Fresh
<1> QED BY <1>1, FreshFits, CallsInvInit DEF TurnInv, RestInv

\* Every step of the hub keeps the invariant.
LEMMA TurnInvStep == TurnInv /\ [HubNext]_vars => TurnInv'
<1> SUFFICES ASSUME TurnInv, [HubNext]_vars
             PROVE  TurnInv'
  OBVIOUS
<1>1. CallsInv'
  BY HubStepRefines DEF TurnInv
<1> SUFFICES RestInv'
  BY <1>1 DEF TurnInv, RestInv
<1>2. CASE Backend
  <2>1. CASE RunCall \/ RunDeferred \/ WorkerReady \/ CheckpointRejected
    BY <2>1, BesideStep
  <2>2. CASE ReceiveBegin
    <3>1. PICK t \in Turns : t = Head(replies).turn
      BY <2>2 DEF ReceiveBegin, TurnInv, CallsInv, GoodCalls, Calls
    <3>2. BeginCommitted(t) \/ BeginFailed(t)
      BY <2>2, <3>1 DEF ReceiveBegin
    <3> QED BY <2>2, <3>1, <3>2, BeginCommittedStep, BeginFailedStep
  <2>3. CASE ReceiveFinalize
    <3>1. PICK t \in Turns : t = Head(replies).turn
      BY <2>3 DEF ReceiveFinalize, TurnInv, CallsInv, GoodCalls, Calls
    <3> QED BY <2>3, <3>1, SettleStep
  <2>4. CASE CancelTimeout
    <3>1. cancelTimer \in Turns
      BY <2>4 DEF CancelTimeout, TurnInv, CallsInv
    <3> QED BY <2>4, <3>1, EndingStep
  <2>5. ASSUME NEW t \in Turns,
               \/ ReachHead(t) \/ BeginSelfTurn(t) \/ Microtask(t)
               \/ SteerSettles(t) \/ CancelAnswered(t) \/ TitleArrives(t)
               \/ ReservationExpires(t) \/ Evict(t)
        PROVE  RestInv'
    <3>1. CASE ReachHead(t)
      BY <3>1, ReachHeadStep
    <3>2. CASE BeginSelfTurn(t)
      BY <3>2, BeginSelfTurnStep
    <3>3. CASE Persist(t)
      BY <3>3, PersistStep
    <3>4. CASE FinallyBlock(t)
      BY <3>4, LeaveStep
    <3>5. CASE ForceFinished(t)
      BY <3>5, ForceFinishedStep
    <3>6. CASE SteerSettles(t) \/ CancelAnswered(t) \/ TitleArrives(t) \/ ReservationExpires(t)
      BY <3>6, BesideStep
    <3>7. CASE Evict(t)
      BY <3>7, EvictStep
    <3> QED BY <2>5, <3>1, <3>2, <3>3, <3>4, <3>5, <3>6, <3>7 DEF Microtask
  <2> QED BY <1>2, <2>1, <2>2, <2>3, <2>4, <2>5 DEF Backend
<1>3. CASE Client
  <2>1. PICK t \in Turns : \/ StartTurn(t) \/ QueueSelfTurn(t) \/ Steer(t)
                           \/ StopActive(t) \/ ReserveCancellation(t)
    BY <1>3 DEF Client
  <2>2. CASE StartTurn(t)
    BY <2>2, StartTurnStep
  <2>3. CASE QueueSelfTurn(t)
    BY <2>3, QueueSelfTurnStep
  <2>4. CASE Steer(t) \/ StopActive(t) \/ ReserveCancellation(t)
    BY <2>4, BesideStep
  <2> QED BY <2>1, <2>2, <2>3, <2>4
<1>4. ASSUME NEW t \in Turns, Runtime(t)
      PROVE  RestInv'
  <2>1. CASE Emit(t)
    BY <2>1, BesideStep
  <2>2. CASE DrainEnds(t)
    BY <2>2, BeginFailedStep
  <2>3. CASE LateEvent(t)
    BY <2>3, LeaveStep
  <2>4. CASE \/ (\E s \in EndReasons : EndTurn(t, s)) \/ (\E r \in BOOLEAN : FailTurn(t, r))
             \/ JoinFinalization(t)
    BY <2>4, EndingStep
  <2> QED BY <1>4, <2>1, <2>2, <2>3, <2>4 DEF Runtime
<1>5. CASE WorkerDies \/ DeferredSweep
  BY <1>5, BesideStep
<1>6. CASE Restart
  <2>1. Fresh'
    BY <1>6, RestartIsFresh
  <2> QED BY <2>1, FreshFits, PTL
<1>7. CASE UNCHANGED vars
  BY <1>7, BesideStep
<1> QED BY <1>2, <1>3, <1>4, <1>5, <1>6, <1>7 DEF HubNext, Faults

(***************************************************************************)
(* Whatever messages, self-turns, Stops, steering, titles, failing         *)
(* transactions, worker deaths, force-finishes, evictions and restarts     *)
(* there are: the stages of the turns of a chat, their loops, the calls on *)
(* their way, the queue of self-turns and the session fit together.        *)
(***************************************************************************)
THEOREM TurnInvariant == HubSpec => []TurnInv
BY TurnInvInit, TurnInvStep, PTL DEF HubSpec

\* Turn histories are serial: no two turns are between their begin and their
\* end, and an active log is the chat's current one.
THEOREM TurnsAreSerial == HubSpec => []OneLiveTurn
<1>1. TurnInv => OneLiveTurn
  BY DEF TurnInv, SerialInv, ControlInv, Control, OneLiveTurn
<1> QED BY <1>1, TurnInvariant, PTL

\* Stop and steer reach the session of the active turn: neither the finally
\* block nor the force-finish of another turn takes it away or leaves one.
THEOREM SessionIsTheTurns == HubSpec => []SessionFollowsTurn
<1>1. TurnInv => SessionFollowsTurn
  BY DEF TurnInv, SessionInv
<1> QED BY <1>1, TurnInvariant, PTL

\* A stream ends with its terminal event: no late acknowledgement, title,
\* steering answer or streamed event follows it.
THEOREM StreamsEnd == HubSpec => []NothingAfterEnd
<1>1. TurnInv => NothingAfterEnd
  BY DEF TurnInv, LogsInv, EventsFit, NothingAfterEnd
<1> QED BY <1>1, TurnInvariant, PTL

-----------------------------------------------------------------------------
(***************************************************************************)
(* Who asked for a cancellation.  A Stop is remembered in three places,    *)
(* which all name its turn: the set of cancelled ids, the chat's timer and *)
(* the outcome of a log that is being finalized.                           *)
(***************************************************************************)
Asked(t) == stops[t] > 0 \/ t \in quit

AskedInv ==
    /\ stops \in [Turns -> Nat]
    /\ told \in [Turns -> Terminal \cup {"none"}]
    /\ \A t \in Turns : /\ log[t].outcome = "cancelled" => Asked(t)
                        /\ told[t] = "cancelled" => Asked(t)
                        /\ t \in cancelled \/ cancelTimer = t => stops[t] > 0

LEMMA AskedKept ==
    ASSUME AskedInv, stops' \in [Turns -> Nat], told' \in [Turns -> Terminal \cup {"none"}],
           \A u \in Turns :
               /\ stops[u] > 0 => stops'[u] > 0
               /\ u \in quit => u \in quit'
               /\ log'[u].outcome = "cancelled" =>
                      log[u].outcome = "cancelled" \/ stops[u] > 0 \/ u \in quit'
               /\ told'[u] = "cancelled" =>
                      told[u] = "cancelled" \/ log[u].outcome = "cancelled"
               /\ u \in cancelled' \/ cancelTimer' = u =>
                      u \in cancelled \/ cancelTimer = u \/ stops'[u] > 0
    PROVE  AskedInv'
BY DEF AskedInv, Asked

\* A step that leaves outcomes and Stops alone, or forgets Stops.
LEMMA AskedLeft ==
    ASSUME AskedInv, UNCHANGED <<stops, quit, told>>,
           \A u \in Turns :
               /\ log'[u].outcome = "cancelled" => log[u].outcome = "cancelled" \/ stops[u] > 0
               /\ u \in cancelled' => u \in cancelled
               /\ cancelTimer' = u => cancelTimer = u
    PROVE  AskedInv'
BY AskedKept DEF AskedInv

LEMMA AskedStep == TurnInv /\ AskedInv /\ [HubNext]_vars => AskedInv'
<1> SUFFICES ASSUME TurnInv, AskedInv, [HubNext]_vars
             PROVE  AskedInv'
  OBVIOUS
<1>1. /\ stops \in [Turns -> Nat] /\ told \in [Turns -> Terminal \cup {"none"}]
      /\ \A u \in Turns : StopPending(u) => stops[u] > 0
      /\ CallsInv /\ LogsInv /\ NoTurn \notin Turns
  BY HubAssumption DEF AskedInv, StopPending, TurnInv
<1>2. CASE RunCall \/ RunDeferred \/ WorkerReady \/ CheckpointRejected \/ WorkerDies
           \/ DeferredSweep \/ UNCHANGED vars
  <2>1. UNCHANGED <<log, stops, quit, told, cancelled, cancelTimer>>
    BY <1>2 DEF RunCall, RunDeferred, WorkerReady, CheckpointRejected, WorkerDies,
                DeferredSweep, vars, hubVars, stopVars, historyVars
  <2> QED BY <2>1, AskedLeft
<1>3. CASE Restart
  <2>1. /\ UNCHANGED <<stops, quit, told>> /\ cancelled' = {} /\ cancelTimer' = NoTurn
        /\ log' = [u \in Turns |-> NewLog]
    BY <1>3 DEF Restart
  <2>2. \A u \in Turns : log'[u].outcome = "error"
    BY <2>1, NewLogFits
  <2> QED BY <1>1, <2>1, <2>2, AskedLeft
<1>4. CASE ReceiveBegin
  <2>1. PICK t \in Turns : t = Head(replies).turn
    BY <1>4 DEF ReceiveBegin, TurnInv, CallsInv, GoodCalls, Calls
  <2>2. UNCHANGED <<stops, quit, told, cancelled, cancelTimer>>
    BY <1>4 DEF ReceiveBegin, stopVars
  <2>3. CASE BeginCommitted(t)
    <3>1. \A u \in Turns : log'[u].outcome = "cancelled" =>
              log[u].outcome = "cancelled" \/ stops[u] > 0
      BY <1>1, <2>3, BegunLog
    <3> QED BY <2>2, <3>1, AskedLeft
  <2>4. CASE BeginFailed(t)
    BY <2>2, <2>4, AskedLeft DEF BeginFailed
  <2> QED BY <1>4, <2>1, <2>3, <2>4 DEF ReceiveBegin
<1>5. CASE ReceiveFinalize
  <2>1. PICK t \in Turns : t = Head(replies).turn
    BY <1>5 DEF ReceiveFinalize, TurnInv, CallsInv, GoodCalls, Calls
  <2>2. UNCHANGED <<stops, quit, cancelled, cancelTimer>>
    BY <1>5 DEF ReceiveFinalize, stopVars
  <2>3. \A u \in Turns : log'[u].outcome = log[u].outcome
    BY <1>5, <2>1, SettledLog
  <2>4. told' = [told EXCEPT ![t] = log[t].outcome] \/ told' = told
    BY <1>5, <2>1 DEF ReceiveFinalize, FinalizeCommitted, FinalizeFailed
  <2>5. log[t].outcome \in Terminal
    BY <1>1 DEF CallsInv, GoodLogs, LogShape
  <2>6. told' \in [Turns -> Terminal \cup {"none"}]
    BY <1>1, <2>4, <2>5
  <2>7. \A u \in Turns : told'[u] = "cancelled" =>
            told[u] = "cancelled" \/ log[u].outcome = "cancelled"
    BY <1>1, <2>4
  <2> QED BY <1>1, <2>2, <2>3, <2>6, <2>7, AskedKept
<1>6. CASE CancelTimeout
  <2>1. PICK t \in Turns : t = cancelTimer
    BY <1>6 DEF CancelTimeout, TurnInv, CallsInv
  <2>2. UNCHANGED <<stops, quit, told, cancelled>> /\ cancelTimer' = NoTurn
    BY <1>6 DEF CancelTimeout, historyVars
  <2>3. stops[t] > 0
    BY <2>1 DEF AskedInv
  <2>4. UNCHANGED log \/ (Live(t) /\ log[t].fin = "none" /\ Finish(t, "cancelled"))
    BY <1>6, <2>1 DEF CancelTimeout
  <2>5. \A u \in Turns : log'[u].outcome = "cancelled" =>
            log[u].outcome = "cancelled" \/ stops[u] > 0
    BY <2>3, <2>4, FinishedLog DEF Terminal
  <2> QED BY <1>1, <2>2, <2>5, AskedLeft
<1>7. ASSUME NEW t \in Turns,
             \/ Emit(t) \/ TitleArrives(t) \/ Steer(t) \/ SteerSettles(t)
             \/ StopActive(t) \/ CancelAnswered(t)
      PROVE  AskedInv'
  <2>1. \A u \in Turns : log'[u].outcome = log[u].outcome
    BY <1>1, <1>7, StreamStep DEF SameStages
  <2>2. CASE StopActive(t)
    <3>1. /\ stops' = [stops EXCEPT ![t] = stops[t] + 1]
          /\ cancelled' = cancelled \cup {t} /\ cancelTimer' = t /\ UNCHANGED <<quit, told>>
      BY <2>2 DEF StopActive, ArmTimer, historyVars
    <3>2. stops' \in [Turns -> Nat] /\ stops'[t] > 0 /\ \A u \in Turns \ {t} : stops'[u] = stops[u]
      BY <1>1, <3>1
    <3> QED BY <1>1, <2>1, <3>1, <3>2, AskedKept
  <2>3. CASE ~StopActive(t)
    <3>1. UNCHANGED <<stops, quit, told, cancelled, cancelTimer>>
      BY <1>7, <2>3 DEF Emit, TitleArrives, Steer, SteerSettles, CancelAnswered,
                        stopVars, historyVars
    <3> QED BY <2>1, <3>1, AskedLeft
  <2> QED BY <2>2, <2>3
<1>8. ASSUME NEW t \in Turns,
             \/ StartTurn(t) \/ QueueSelfTurn(t) \/ ReachHead(t) \/ BeginSelfTurn(t)
             \/ DrainEnds(t) \/ JoinFinalization(t) \/ LateEvent(t) \/ FinallyBlock(t)
             \/ ForceFinished(t) \/ ReservationExpires(t)
      PROVE  AskedInv'
  <2>1. /\ UNCHANGED <<log, stops, quit, told>>
        /\ cancelled' \subseteq cancelled /\ cancelTimer' \in {cancelTimer, NoTurn}
    BY <1>8 DEF StartTurn, QueueSelfTurn, ReachHead, BeginSelfTurn, DrainEnds,
                JoinFinalization, LateEvent, FinallyBlock, Leave, ForceFinished,
                ReservationExpires, stopVars, historyVars
  <2> QED BY <1>1, <2>1, AskedLeft
<1>9. ASSUME NEW t \in Turns, ReserveCancellation(t)
      PROVE  AskedInv'
  <2>1. /\ stops' = [stops EXCEPT ![t] = stops[t] + 1]
        /\ cancelled' = cancelled \cup {t} /\ UNCHANGED <<log, quit, told, cancelTimer>>
    BY <1>9 DEF ReserveCancellation, historyVars
  <2>2. stops' \in [Turns -> Nat] /\ stops'[t] > 0 /\ \A u \in Turns \ {t} : stops'[u] = stops[u]
    BY <1>1, <2>1
  <2> QED BY <1>1, <2>1, <2>2, AskedKept
<1>10. ASSUME NEW t \in Turns, Persist(t) \/ Evict(t)
       PROVE  AskedInv'
  <2>1. UNCHANGED <<stops, quit, told, cancelled, cancelTimer>>
    BY <1>10 DEF Persist, Evict, stopVars, historyVars
  <2>2. \A u \in Turns : log'[u].outcome = "cancelled" => log[u].outcome = "cancelled"
    <3>1. CASE Persist(t)
      BY <3>1, PersistedLog
    <3>2. CASE Evict(t)
      <4>1. log' = [log EXCEPT ![t] = NewLog] \/ log' = log
        BY <3>2 DEF Evict
      <4> QED BY <1>1, <4>1, NewLogFits DEF CallsInv
    <3> QED BY <1>10, <3>1, <3>2
  <2> QED BY <2>1, <2>2, AskedLeft
<1>11. ASSUME NEW t \in Turns, NEW s \in EndReasons, EndTurn(t, s)
       PROVE  AskedInv'
  <2> DEFINE r == IF StopPending(t) THEN "cancelled" ELSE s
  <2>1. /\ r \in Terminal /\ Live(t) /\ log[t].fin = "none" /\ Finish(t, r)
        /\ quit' = IF s = "cancelled" THEN quit \cup {t} ELSE quit
        /\ UNCHANGED <<stops, told, cancelled, cancelTimer>>
    BY <1>11, HubAssumption DEF EndTurn, Terminal, stopVars
  <2>2. r = "cancelled" => stops[t] > 0 \/ t \in quit'
    BY <1>1, <2>1
  <2> HIDE DEF r
  <2>3. log'[t].outcome = r /\ \A u \in Turns \ {t} : log'[u] = log[u]
    BY <2>1, FinishedLog
  <2>4. \A u \in Turns : log'[u].outcome = "cancelled" =>
            log[u].outcome = "cancelled" \/ stops[u] > 0 \/ u \in quit'
    BY <2>2, <2>3
  <2> QED BY <1>1, <2>1, <2>4, AskedKept
<1>12. ASSUME NEW t \in Turns, NEW r \in BOOLEAN, FailTurn(t, r)
       PROVE  AskedInv'
  <2> DEFINE s == IF StopPending(t) /\ ~r THEN "cancelled" ELSE "error"
  <2>1. /\ s \in Terminal /\ Live(t) /\ log[t].fin = "none" /\ Finish(t, s)
        /\ UNCHANGED <<stops, quit, told, cancelled, cancelTimer>>
    BY <1>12 DEF FailTurn, Terminal, stopVars, historyVars
  <2>2. s = "cancelled" => stops[t] > 0
    BY <1>1
  <2> HIDE DEF s
  <2>3. log'[t].outcome = s /\ \A u \in Turns \ {t} : log'[u] = log[u]
    BY <2>1, FinishedLog
  <2>4. \A u \in Turns : log'[u].outcome = "cancelled" =>
            log[u].outcome = "cancelled" \/ stops[u] > 0
    BY <2>2, <2>3
  <2> QED BY <2>1, <2>4, AskedLeft
<1> QED BY <1>2, <1>3, <1>4, <1>5, <1>6, <1>7, <1>8, <1>9, <1>10, <1>11, <1>12
        DEF HubNext, Backend, Client, Runtime, Faults, Microtask

LEMMA AskedInit == HubInit => AskedInv
<1> SUFFICES ASSUME HubInit
             PROVE  AskedInv
  OBVIOUS
<1>1. /\ stops = [t \in Turns |-> 0] /\ told = [t \in Turns |-> "none"]
      /\ cancelled = {} /\ cancelTimer = NoTurn /\ log = [t \in Turns |-> NewLog]
  BY DEF HubInit
<1>2. \A u \in Turns : log[u].outcome = "error"
  BY <1>1, NewLogFits
<1> QED BY <1>1, <1>2, HubAssumption DEF AskedInv

\* A turn is told to be cancelled only if a Stop named it or its runtime said
\* so: a late Stop, a late timer or another turn's Stop never cancels it.
THEOREM CancellationsWereAsked == HubSpec => []CancelledWasAsked
<1>1. AskedInv => CancelledWasAsked
  BY DEF AskedInv, Asked, CancelledWasAsked
<1> QED BY <1>1, AskedInit, AskedStep, TurnInvariant, PTL DEF HubSpec

-----------------------------------------------------------------------------
(***************************************************************************)
(* What is in the database when an outcome is told                         *)
(***************************************************************************)

\* The row of the turn still takes an outcome.  The deferred sweep may end the
\* row of a turn that has begun and is not yet known to the hub as active.
Undecided(t) ==
    \/ turnStatus[t] \in {"none", "active"}
    \/ SweepPending /\ turnStatus[t] = "error"

\* Accepted steering is stored, or the sweep ended the turn as an error before.
Saved(t, s) == messageSeq[t]["steer"] # Absent \/ (SweepPending /\ s = "error")

Early == {"queued", "waiting", "beginning"}
Unfinished(l) == l.status = "active" /\ l.fin \in {"none", "requested"}

(***************************************************************************)
(* A row is undecided until the final transaction of its turn is executed; *)
(* the answer on its way, and later what was told, is what the row says,   *)
(* and the steering it was given is stored with it.                        *)
(***************************************************************************)
DurableInv ==
    /\ sweepDue => SweepPending
    /\ \A t \in Turns :
           /\ pc[t] \in Early => Undecided(t) /\ told[t] = "none"
           /\ log[t].status = "active" => told[t] = "none"
           /\ Unfinished(log[t]) => Undecided(t)
           /\ told[t] # "none" => turnStatus[t] = told[t]
           /\ told[t] # "none" /\ log[t].steer = "accepted" => Saved(t, told[t])
    /\ \A i \in 1 .. Len(queue) : queue[i].op = "finalize" => Undecided(queue[i].turn)
    /\ \A i \in 1 .. Len(replies) : replies[i].op = "finalize" /\ replies[i].ok =>
           /\ turnStatus[replies[i].turn] = replies[i].status
           /\ replies[i].steered => Saved(replies[i].turn, replies[i].status)

\* Stored steering stays stored, wherever later messages move it.
LEMMA SteeringStays ==
    ASSUME TypeOK, [Next]_storeVars, NEW t \in Turns, turnStatus[t] # "none",
           messageSeq[t]["steer"] # Absent
    PROVE  messageSeq'[t]["steer"] # Absent
<1>1. /\ "steer" \in Roles /\ messageSeq \in [Turns -> [Roles -> Nat \cup {Absent}]]
      /\ messageSeq[t]["steer"] \in Nat
  BY DEF TypeOK, Roles
<1>2. ASSUME NEW u \in Turns, NEW b, WriteSteeredMessages(u, b)
      PROVE  messageSeq'[t]["steer"] # Absent
  <2>1. CASE messageSeq' = messageSeq
    BY <2>1
  <2>2. CASE b /\ messageSeq[u]["steer"] = Absent
    <3>1. \/ messageSeq'[t]["steer"] = messageSeq[t]["steer"]
          \/ messageSeq'[t]["steer"] = messageSeq[t]["steer"] + 1
      BY <1>1, <1>2, <2>2 DEF WriteSteeredMessages
    <3> QED BY <1>1, <3>1 DEF Absent
  <2> QED BY <1>2, <2>1, <2>2 DEF WriteSteeredMessages
<1>3. ASSUME NEW u \in Turns, BeginTurn(u)
      PROVE  messageSeq'[t]["steer"] # Absent
  <2>1. u # t
    BY <1>3 DEF BeginTurn
  <2> QED BY <1>1, <1>3, <2>1 DEF BeginTurn
<1>4. CASE \/ \E u \in Turns, q \in 0 .. MaxSeq, b \in BOOLEAN : CheckpointTurn(u, q, b)
           \/ \E u \in Turns, s \in Terminal, q \in 0 .. MaxSeq, b \in BOOLEAN :
                  FinalizeTurn(u, s, q, b)
  BY <1>2, <1>4 DEF CheckpointTurn, FinalizeTurn
<1>5. CASE \/ \E preserve \in SUBSET Turns : RecoverInterruptedTurns(preserve)
           \/ \E tree \in Trees, w \in Workspaces : MoveTreeToWorkspace(tree, w)
           \/ UNCHANGED storeVars
  BY <1>5 DEF RecoverInterruptedTurns, MoveTreeToWorkspace, storeVars
<1> QED BY <1>3, <1>4, <1>5 DEF Next

\* What a decided row says stays.
LEMMA DecidedStays ==
    ASSUME TypeOK, [Next]_storeVars, NEW t \in Turns, NEW s \in Terminal, turnStatus[t] = s
    PROVE  /\ turnStatus'[t] = s
           /\ Saved(t, s) => Saved(t, s)'
<1>1. turnStatus'[t] = s
  BY OutcomeStep
<1>2. ASSUME messageSeq[t]["steer"] # Absent
      PROVE  messageSeq'[t]["steer"] # Absent
  BY <1>2, SteeringStays DEF Terminal
<1> QED BY <1>1, <1>2 DEF Saved

(***************************************************************************)
(* A step that may decide the row of one turn, d, and may tell an outcome  *)
(* the row already has.  The rest follows from what the store promises.    *)
(***************************************************************************)
LEMMA DurableKept ==
    ASSUME TypeOK, [Next]_storeVars, CallsInv, CallsInv', DurableInv, NEW d,
           told \in [Turns -> Terminal \cup {"none"}],
           sweepDue' => sweepDue,
           \A u \in Turns \ {d} : Undecided(u) => Undecided(u)',
           d \in Turns => pc'[d] \notin Early /\ ~Unfinished(log'[d]),
           \A u \in Turns :
               /\ pc'[u] \in Early => pc[u] \in Early \/ (Undecided(u) /\ told[u] = "none")
               /\ log'[u].status = "active" => log[u].status = "active" \/ told[u] = "none"
               /\ Unfinished(log'[u]) => Unfinished(log[u]) \/ Undecided(u)
               /\ told[u] # "none" /\ log'[u].steer = "accepted" => log[u].steer = "accepted"
               /\ \/ told'[u] = told[u]
                  \/ /\ pc'[u] \notin Early /\ log'[u].status # "active"
                     /\ told'[u] \in Terminal /\ turnStatus[u] = told'[u]
                     /\ log'[u].steer = "accepted" => Saved(u, told'[u]),
           \A i \in 1 .. Len(queue') : queue'[i].op = "finalize" =>
               Undecided(queue'[i].turn) /\ queue'[i].turn # d,
           \A i \in 1 .. Len(replies') : replies'[i].op = "finalize" /\ replies'[i].ok =>
               \/ \E j \in 1 .. Len(replies) : replies'[i] = replies[j]
               \/ (/\ turnStatus[replies[i].turn] = replies[i].status
                   /\ replies[i].steered => Saved(replies[i].turn, replies[i].status))'
    PROVE  DurableInv'
<1>1. (sweepDue => SweepPending)'
  BY DEF DurableInv
<1>2. ASSUME NEW u \in Turns
      PROVE  (/\ pc[u] \in Early => Undecided(u) /\ told[u] = "none"
              /\ log[u].status = "active" => told[u] = "none"
              /\ Unfinished(log[u]) => Undecided(u))'
  <2>1. u # d /\ Undecided(u) => Undecided(u)'
    OBVIOUS
  <2>2. pc'[u] \in Early => u # d /\ Undecided(u) /\ told'[u] = "none"
    BY DEF DurableInv
  <2>3. log'[u].status = "active" => told'[u] = "none"
    BY DEF DurableInv
  <2>4. Unfinished(log'[u]) => u # d /\ Undecided(u)
    BY DEF DurableInv
  <2>5. Unfinished(log[u])' <=> Unfinished(log'[u])
    BY DEF Unfinished
  <2> QED BY <2>1, <2>2, <2>3, <2>4, <2>5
<1>3. ASSUME NEW u \in Turns, told'[u] # "none"
      PROVE  /\ turnStatus'[u] = told'[u]
             /\ log'[u].steer = "accepted" => Saved(u, told[u])'
  <2>1. /\ told'[u] \in Terminal /\ turnStatus[u] = told'[u]
        /\ log'[u].steer = "accepted" => Saved(u, told'[u])
    BY <1>3 DEF DurableInv
  <2>2. PICK s \in Terminal : s = told'[u]
    BY <2>1
  <2>3. turnStatus'[u] = s /\ (Saved(u, s) => Saved(u, s)')
    BY <2>1, <2>2, DecidedStays
  <2>4. Saved(u, s)' => Saved(u, told[u])'
    BY <2>2 DEF Saved
  <2> QED BY <2>1, <2>2, <2>3, <2>4
<1>4. ASSUME NEW i \in 1 .. Len(queue'), queue'[i].op = "finalize"
      PROVE  Undecided(queue[i].turn)'
  <2>1. queue'[i].turn \in Turns
    BY CallTurns DEF CallsInv, GoodCalls, Calls
  <2>2. PICK u \in Turns : u = queue'[i].turn
    BY <2>1
  <2>3. Undecided(u)'
    BY <1>4, <2>2
  <2> QED BY <2>2, <2>3 DEF Undecided
<1>5. ASSUME NEW i \in 1 .. Len(replies'), replies'[i].op = "finalize", replies'[i].ok
      PROVE  (/\ turnStatus[replies[i].turn] = replies[i].status
              /\ replies[i].steered => Saved(replies[i].turn, replies[i].status))'
  <2>1. CASE \E j \in 1 .. Len(replies) : replies'[i] = replies[j]
    <3>1. PICK j \in 1 .. Len(replies) : replies'[i] = replies[j]
      BY <2>1
    <3>2. PICK u \in Turns, s \in Terminal : u = replies[j].turn /\ s = replies[j].status
      BY CallTurns DEF GoodCalls, Calls
    <3>3. turnStatus[u] = s /\ (replies[j].steered => Saved(u, s))
      BY <1>5, <3>1, <3>2 DEF DurableInv
    <3>4. turnStatus'[u] = s /\ (Saved(u, s) => Saved(u, s)')
      BY <3>3, DecidedStays
    <3> QED BY <3>1, <3>2, <3>3, <3>4 DEF Saved
  <2> QED BY <1>5, <2>1
<1> QED BY <1>1, <1>2, <1>3, <1>4, <1>5 DEF DurableInv

\* A transaction decides at most the row it finalizes, and its answer says so.
LEMMA ExecutedRows ==
    ASSUME StoreInv, NEW c \in GoodCalls, NEW ok \in BOOLEAN, Execute(c, ok)
    PROVE  /\ \A u \in Turns : c.op # "finalize" \/ u # c.turn =>
                  (Undecided(u) => Undecided(u)')
           /\ c.op = "finalize" /\ ok /\ Undecided(c.turn) =>
                  /\ turnStatus'[c.turn] = c.status
                  /\ c.steered => \/ messageSeq'[c.turn]["steer"] # Absent
                                  \/ SweepPending /\ c.status = "error"
<1>1. /\ TypeOK /\ RowsWithReceipt /\ c.turn \in Turns /\ c.status \in Terminal
      /\ turnStatus \in [Turns -> Terminal \cup {"none", "active"}]
      /\ messageSeq \in [Turns -> [Roles -> Nat \cup {Absent}]]
  BY DEF StoreInv, TypeOK, GoodCalls, Calls
<1>2. CASE UNCHANGED storeVars
  <2>1. \A u \in Turns : Undecided(u) => Undecided(u)'
    BY <1>2 DEF storeVars, Undecided
  <2>2. ASSUME c.op = "finalize", ok, Undecided(c.turn)
        PROVE  /\ turnStatus'[c.turn] = c.status
               /\ SweepPending /\ c.status = "error"
    <3>1. ~Throws(c) /\ ~(FinalizeApplies(c.turn)
                           /\ FinalizeTurn(c.turn, c.status, c.seq, c.steered))
      <4>1. ~Throws(c)
        BY <2>2 DEF Execute
      <4>2. ASSUME FinalizeTurn(c.turn, c.status, c.seq, c.steered)
            PROVE  FALSE
        BY <1>1, <1>2, <4>2 DEF FinalizeTurn, FinalizeApplies, storeVars, Terminal
      <4> QED BY <4>1, <4>2
    <3>2. ~FinalizeApplies(c.turn)
      BY <2>2, <3>1 DEF Execute
    <3>3. turnStatus[c.turn] = c.status
      BY <2>2, <3>1, <3>2 DEF Throws, FinalizeApplies
    <3>4. SweepPending /\ c.status = "error"
      BY <1>1, <2>2, <3>3 DEF Undecided, Terminal
    <3> QED BY <1>2, <3>3, <3>4 DEF storeVars
  <2> QED BY <2>1, <2>2
<1>3. CASE c.op = "begin" /\ BeginTurn(c.turn)
  BY <1>1, <1>3 DEF BeginTurn, Undecided
<1>4. CASE c.op = "checkpoint" /\ CheckpointTurn(c.turn, c.seq, c.steered)
  BY <1>4 DEF CheckpointTurn, Undecided
<1>5. CASE c.op = "finalize" /\ FinalizeTurn(c.turn, c.status, c.seq, c.steered)
  <2>1. turnStatus' = [turnStatus EXCEPT ![c.turn] = c.status]
    BY <1>5 DEF FinalizeTurn
  <2>2. \A u \in Turns \ {c.turn} : turnStatus'[u] = turnStatus[u]
    BY <1>1, <2>1
  <2>3. turnStatus'[c.turn] = c.status
    BY <1>1, <2>1
  <2>4. ASSUME c.steered
        PROVE  messageSeq'[c.turn]["steer"] # Absent
    <3>1. messageSeq[c.turn]["assistant"] # Absent
      BY <1>1, <1>5 DEF RowsWithReceipt, FinalizeTurn, FinalizeApplies
    <3>2. WriteSteeredMessages(c.turn, c.steered) /\ "steer" \in Roles
      BY <1>5 DEF FinalizeTurn, Roles
    <3>3. CASE messageSeq[c.turn]["steer"] = Absent
      <4>1. messageSeq'[c.turn]["steer"] = messageSeq[c.turn]["assistant"]
        BY <1>1, <2>4, <3>2, <3>3 DEF WriteSteeredMessages
      <4> QED BY <3>1, <4>1
    <3>4. CASE messageSeq[c.turn]["steer"] # Absent
      BY <3>2, <3>4 DEF WriteSteeredMessages
    <3> QED BY <3>3, <3>4
  <2>5. \A u \in Turns \ {c.turn} : Undecided(u) => Undecided(u)'
    BY <2>2 DEF Undecided
  <2> QED BY <1>5, <2>3, <2>4, <2>5
<1> QED BY <1>2, <1>3, <1>4, <1>5 DEF Execute

\* The queue grows by a call that finalizes nothing that is decided.
LEMMA QueueDecides ==
    ASSUME CallsInv, DurableInv, NEW c, c.op = "finalize" => Undecided(c.turn),
           queue' = queue \/ queue' = Append(queue, c)
    PROVE  \A i \in 1 .. Len(queue') : queue'[i].op = "finalize" => Undecided(queue'[i].turn)
<1>1. queue \in Seq(GoodCalls)
  BY DEF CallsInv
<1>2. \A i \in 1 .. Len(queue') :
          queue'[i] = c \/ (i \in 1 .. Len(queue) /\ queue'[i] = queue[i])
  BY <1>1
<1> QED BY <1>2 DEF DurableInv

\* An answer is taken, or none.
LEMMA RepliesTaken ==
    ASSUME CallsInv, replies' = replies \/ (replies # <<>> /\ replies' = Tail(replies))
    PROVE  \A i \in 1 .. Len(replies') : \E j \in 1 .. Len(replies) : replies'[i] = replies[j]
<1>1. replies \in Seq(GoodCalls)
  BY DEF CallsInv
<1>2. CASE replies' = replies
  BY <1>2
<1>3. CASE replies # <<>> /\ replies' = Tail(replies)
  <2>1. \A i \in 1 .. Len(replies') :
            i + 1 \in 1 .. Len(replies) /\ replies'[i] = replies[i + 1]
    BY <1>1, <1>3
  <2> QED BY <2>1
<1> QED BY <1>2, <1>3

(***************************************************************************)
(* A step beside the database: no row changes and nothing is told.         *)
(***************************************************************************)
LEMMA DurableBeside ==
    ASSUME TypeOK, CallsInv, CallsInv', DurableInv, UNCHANGED <<storeVars, told, sweepDue>>,
           told \in [Turns -> Terminal \cup {"none"}], NEW c,
           c.op = "finalize" => Undecided(c.turn),
           queue' = queue \/ queue' = Append(queue, c),
           replies' = replies \/ (replies # <<>> /\ replies' = Tail(replies)),
           \A u \in Turns :
               /\ pc'[u] \in Early => pc[u] \in Early \/ (Undecided(u) /\ told[u] = "none")
               /\ log'[u].status = "active" => log[u].status = "active" \/ told[u] = "none"
               /\ Unfinished(log'[u]) => Unfinished(log[u]) \/ Undecided(u)
               /\ told[u] # "none" /\ log'[u].steer = "accepted" => log[u].steer = "accepted"
    PROVE  DurableInv'
<1>1. NoTurn \notin Turns
  BY HubAssumption
<1>2. \A u \in Turns : Undecided(u) => Undecided(u)'
  BY DEF storeVars, Undecided
<1>3. \A i \in 1 .. Len(queue') : queue'[i].op = "finalize" => Undecided(queue'[i].turn)
  BY QueueDecides
<1>4. \A i \in 1 .. Len(queue') : queue'[i].turn # NoTurn
  <2>1. \A i \in 1 .. Len(queue') : queue'[i] \in GoodCalls
    BY DEF CallsInv
  <2> QED BY <1>1, <2>1 DEF GoodCalls, Calls
<1>5. \A i \in 1 .. Len(replies') : \E j \in 1 .. Len(replies) : replies'[i] = replies[j]
  BY RepliesTaken
<1> QED BY <1>1, <1>2, <1>3, <1>4, <1>5, DurableKept

\* The database worker, or the main thread in its place, executes a call.
LEMMA DurableRun ==
    ASSUME TurnInv, TurnInv', StoreInv, DurableInv, RunCall,
           told \in [Turns -> Terminal \cup {"none"}]
    PROVE  DurableInv'
<1> DEFINE h == Head(queue)
<1>1. /\ queue \in Seq(GoodCalls) /\ Len(queue) \in Nat /\ Len(queue) > 0 /\ h = queue[1]
      /\ 1 \in 1 .. Len(queue) /\ replies \in Seq(GoodCalls)
      /\ h \in GoodCalls /\ h.turn \in Turns
  <2>1. /\ queue \in Seq(GoodCalls) /\ queue # <<>> /\ replies \in Seq(GoodCalls)
    BY DEF TurnInv, CallsInv, RunCall
  <2>2. h \in GoodCalls
    BY <2>1
  <2> QED BY <2>1, <2>2 DEF GoodCalls, Calls
<1>2. PICK ok \in BOOLEAN :
          /\ Execute(h, ok)
          /\ replies' = IF h.op = "checkpoint" THEN replies ELSE Append(replies, Answered(h, ok))
  BY DEF RunCall
<1>3. \A i \in 1 .. Len(queue') : i + 1 \in 1 .. Len(queue) /\ queue'[i] = queue[i + 1]
  BY <1>1 DEF RunCall
<1>4. UNCHANGED <<pc, log, told, sweepDue>>
  BY DEF RunCall, historyVars, processVars
<1> DEFINE a == Answered(h, ok)
<1>5. /\ a.op = h.op /\ a.turn = h.turn /\ a.status = h.status
      /\ a.steered = h.steered /\ a.ok = ok
  BY <1>1, AnswerOf
<1> HIDE DEF a
<1>6. \A i \in 1 .. Len(replies') :
          \/ i \in 1 .. Len(replies) /\ replies'[i] = replies[i]
          \/ replies'[i] = a
  BY <1>1, <1>2 DEF a
<1>7. \A i \in 1 .. Len(queue') : ~Clash(h, queue'[i])
  BY <1>1, <1>3 DEF TurnInv, CallsDiffer
<1>8. Fits(h) /\ (h.op = "finalize" => Undecided(h.turn))
  BY <1>1 DEF TurnInv, CallsFit, DurableInv
<1> HIDE DEF h
<1>9. /\ \A u \in Turns : h.op # "finalize" \/ u # h.turn => (Undecided(u) => Undecided(u)')
      /\ h.op = "finalize" /\ ok =>
             /\ turnStatus'[h.turn] = h.status
             /\ h.steered => \/ messageSeq'[h.turn]["steer"] # Absent
                             \/ SweepPending /\ h.status = "error"
  BY <1>1, <1>2, <1>8, ExecutedRows
<1>10. [Next]_storeVars /\ TypeOK /\ CallsInv /\ CallsInv'
  BY <1>1, <1>2, ExecuteRefines DEF StoreInv, TurnInv
<1> DEFINE d == IF h.op = "finalize" THEN h.turn ELSE NoTurn
<1>11. ASSUME h.op = "finalize"
       PROVE  pc'[h.turn] \notin Early /\ ~Unfinished(log'[h.turn])
  <2>1. log[h.turn].fin = "committing"
    BY <1>8, <1>11 DEF Fits
  <2>2. log[h.turn].status # "none"
    BY <1>1, <2>1 DEF TurnInv, LogsInv, StageFits
  <2>3. pc[h.turn] \notin Early
    BY <1>1, <2>2 DEF TurnInv, ControlInv, Control, NotBegun, Early
  <2> QED BY <1>4, <2>1, <2>3 DEF Unfinished
<1>12. d \in Turns => pc'[d] \notin Early /\ ~Unfinished(log'[d])
  BY <1>11, HubAssumption
<1>13. ASSUME NEW i \in 1 .. Len(queue'), queue'[i].op = "finalize"
       PROVE  Undecided(queue'[i].turn) /\ queue'[i].turn # d
  <2>1. Undecided(queue'[i].turn)
    BY <1>3, <1>13 DEF DurableInv
  <2>2. queue'[i].turn \in Turns
    BY <1>3, <1>10, CallTurns
  <2>3. queue'[i].turn # d
    BY <1>7, <1>13, <2>2, HubAssumption DEF Clash
  <2> QED BY <2>1, <2>3
<1>14. \A u \in Turns \ {d} : Undecided(u) => Undecided(u)'
  BY <1>9
<1>15. ASSUME NEW i \in 1 .. Len(replies'), replies'[i].op = "finalize", replies'[i].ok
       PROVE  \/ \E j \in 1 .. Len(replies) : replies'[i] = replies[j]
              \/ (/\ turnStatus[replies[i].turn] = replies[i].status
                  /\ replies[i].steered => Saved(replies[i].turn, replies[i].status))'
  <2>1. CASE i \in 1 .. Len(replies) /\ replies'[i] = replies[i]
    BY <2>1
  <2>2. CASE replies'[i] = a
    <3>1. replies'[i].turn = h.turn /\ replies'[i].status = h.status
          /\ replies'[i].steered = h.steered
      BY <1>5, <2>2
    <3>2. /\ turnStatus'[h.turn] = h.status
          /\ h.steered => \/ messageSeq'[h.turn]["steer"] # Absent
                          \/ SweepPending /\ h.status = "error"
      BY <1>5, <1>9, <1>15, <2>2
    <3> QED BY <3>1, <3>2 DEF Saved
  <2> QED BY <1>6, <2>1, <2>2
<1> HIDE DEF d
<1> QED BY <1>4, <1>10, <1>12, <1>13, <1>14, <1>15, DurableKept

\* The sweep after the boot: it is still due only when it was pending.
LEMMA DurableSweep ==
    ASSUME TurnInv, TurnInv', StoreInv, DurableInv, DeferredSweep,
           told \in [Turns -> Terminal \cup {"none"}]
    PROVE  DurableInv'
<1> DEFINE preserve == Spared
<1>1. /\ preserve \in SUBSET Turns /\ Sweep(preserve) /\ SweepPending
      /\ UNCHANGED <<pc, log, queue, replies, told>> /\ sweepDue' = FALSE
  BY HubAssumption DEF DeferredSweep, DurableInv, Spared, dbVars, historyVars
<1> HIDE DEF preserve
<1>2. [Next]_storeVars /\ TypeOK /\ CallsInv /\ CallsInv' /\ NoTurn \notin Turns
  BY <1>1, SweepRefines, HubAssumption DEF StoreInv, TurnInv
<1>3. \A u \in Turns : Undecided(u) => Undecided(u)'
  BY <1>1 DEF Sweep, RecoverInterruptedTurns, storeVars, Undecided
<1>4. \A i \in 1 .. Len(queue') : queue'[i].op = "finalize" =>
          Undecided(queue'[i].turn) /\ queue'[i].turn # NoTurn
  BY <1>1, <1>2, CallTurns DEF DurableInv
<1>5. \A i \in 1 .. Len(replies') : \E j \in 1 .. Len(replies) : replies'[i] = replies[j]
  BY <1>1
<1> QED BY <1>1, <1>2, <1>3, <1>4, <1>5, DurableKept

\* A deferred checkpoint decides nothing; a worker that dies promises nothing.
LEMMA DurableDeferred ==
    ASSUME TurnInv, TurnInv', StoreInv, DurableInv, RunDeferred,
           told \in [Turns -> Terminal \cup {"none"}]
    PROVE  DurableInv'
<1>1. /\ deferred \in Seq(GoodCalls) /\ deferred # <<>>
      /\ UNCHANGED <<pc, log, queue, replies, told, sweepDue>>
  BY DEF RunDeferred, TurnInv, CallsInv, historyVars, processVars
<1>2. Head(deferred) \in GoodCalls /\ 1 \in 1 .. Len(deferred) /\ Head(deferred) = deferred[1]
  BY <1>1
<1>3. PICK ok \in BOOLEAN : Execute(Head(deferred), ok)
  BY DEF RunDeferred
<1>4. Head(deferred).op = "checkpoint"
  BY <1>2 DEF TurnInv, CallsFit
<1>5. \A u \in Turns : Undecided(u) => Undecided(u)'
  BY <1>2, <1>3, <1>4, ExecutedRows
<1>6. [Next]_storeVars /\ TypeOK /\ CallsInv /\ CallsInv' /\ NoTurn \notin Turns
  BY <1>2, <1>3, ExecuteRefines, HubAssumption DEF StoreInv, TurnInv
<1>7. \A i \in 1 .. Len(queue') : queue'[i].op = "finalize" =>
          Undecided(queue'[i].turn) /\ queue'[i].turn # NoTurn
  BY <1>1, <1>6, CallTurns DEF DurableInv
<1>8. \A i \in 1 .. Len(replies') : \E j \in 1 .. Len(replies) : replies'[i] = replies[j]
  BY <1>1
<1> QED BY <1>1, <1>5, <1>6, <1>7, <1>8, DurableKept

LEMMA DurableRejected ==
    ASSUME TurnInv, TurnInv', StoreInv, DurableInv, WorkerDies,
           told \in [Turns -> Terminal \cup {"none"}]
    PROVE  DurableInv'
<1> DEFINE p == replies \o queue
<1>1. /\ UNCHANGED <<storeVars, pc, log, told, sweepDue>> /\ queue' = <<>>
      /\ replies' = [i \in 1 .. Len(p) |-> Answered(p[i], FALSE)]
  BY DEF WorkerDies, historyVars, processVars
<1>2. /\ p \in Seq(GoodCalls) /\ TypeOK /\ CallsInv /\ CallsInv' /\ NoTurn \notin Turns
  BY HubAssumption DEF TurnInv, CallsInv, StoreInv
<1> HIDE DEF p
<1>3. /\ replies' \in Seq(GoodCalls) /\ Len(p) \in Nat
      /\ \A i \in 1 .. Len(p) : p[i] \in GoodCalls
  BY <1>2 DEF CallsInv
<1>4. DOMAIN replies' = 1 .. Len(p)
  BY <1>1
<1>5. Len(replies') = Len(p)
  BY <1>3, <1>4
<1>6. \A i \in 1 .. Len(replies') : ~replies'[i].ok
  BY <1>1, <1>3, <1>5, AnswerOf
<1>7. \A u \in Turns : Undecided(u) => Undecided(u)'
  BY <1>1 DEF storeVars, Undecided
<1>8. \A i \in 1 .. Len(queue') : FALSE
  BY <1>1
<1>9. \A i \in 1 .. Len(replies') : replies'[i].op = "finalize" /\ replies'[i].ok => FALSE
  BY <1>6
<1>10. [Next]_storeVars /\ (sweepDue' => sweepDue)
  BY <1>1
<1>11. \A u \in Turns : pc'[u] = pc[u] /\ log'[u] = log[u] /\ told'[u] = told[u]
  BY <1>1
<1> QED BY <1>2, <1>7, <1>8, <1>9, <1>10, <1>11, DurableKept

\* The answer to a begin: the turn it belongs to is undecided.
LEMMA DurableBegun ==
    ASSUME TurnInv, TurnInv', StoreInv, DurableInv, ReceiveBegin,
           told \in [Turns -> Terminal \cup {"none"}]
    PROVE  DurableInv'
<1>1. /\ replies \in Seq(GoodCalls) /\ replies # <<>> /\ Head(replies).op = "begin"
      /\ UNCHANGED <<storeVars, told, sweepDue, queue>> /\ replies' = Tail(replies)
  BY DEF ReceiveBegin, TurnInv, CallsInv, processVars
<1>2. Head(replies) = replies[1] /\ 1 \in 1 .. Len(replies) /\ Head(replies) \in GoodCalls
  BY <1>1
<1>3. PICK t \in Turns : t = Head(replies).turn
  BY <1>2 DEF GoodCalls, Calls
<1>4. pc[t] = "beginning"
  BY <1>1, <1>2, <1>3 DEF TurnInv, CallsFit, Fits
<1>5. Undecided(t) /\ told[t] = "none"
  BY <1>4 DEF DurableInv, Early
<1>6. pc \in [Turns -> Places] /\ TypeOK /\ CallsInv /\ CallsInv'
  BY DEF TurnInv, PlaceTypes, StoreInv
<1> DEFINE c == [op |-> "checkpoint"]
<1>7. c.op = "checkpoint"
  OBVIOUS
<1> HIDE DEF c
<1>8. \A u \in Turns :
          /\ pc'[u] \in Early => pc[u] \in Early
          /\ log'[u].status = "active" => log[u].status = "active" \/ told[u] = "none"
          /\ Unfinished(log'[u]) => Unfinished(log[u]) \/ Undecided(u)
          /\ told[u] # "none" /\ log'[u].steer = "accepted" => log[u].steer = "accepted"
  <2>1. CASE BeginCommitted(t)
    <3>1. /\ \A u \in Turns \ {t} : log'[u] = log[u]
          /\ \A u \in Turns \ {t} : pc'[u] = pc[u]
          /\ log'[t].steer = "none"
      BY <1>6, <2>1, BegunLog
    <3> QED BY <1>4, <1>5, <3>1 DEF Early
  <2>2. CASE BeginFailed(t)
    <3>1. UNCHANGED log /\ \A u \in Turns \ {t} : pc'[u] = pc[u]
      BY <1>6, <2>2 DEF BeginFailed
    <3> QED BY <1>4, <1>5, <3>1 DEF Early
  <2> QED BY <1>3, <2>1, <2>2 DEF ReceiveBegin
<1> QED BY <1>1, <1>6, <1>7, <1>8, DurableBeside

\* The answer to the final transaction: what it lets the hub tell is in the row.
LEMMA DurableSettled ==
    ASSUME TurnInv, TurnInv', StoreInv, DurableInv, ReceiveFinalize,
           told \in [Turns -> Terminal \cup {"none"}]
    PROVE  DurableInv'
<1>1. /\ replies \in Seq(GoodCalls) /\ replies # <<>> /\ Head(replies).op = "finalize"
      /\ UNCHANGED <<storeVars, pc, sweepDue, queue>> /\ replies' = Tail(replies)
  BY DEF ReceiveFinalize, TurnInv, CallsInv, processVars
<1>2. Head(replies) = replies[1] /\ 1 \in 1 .. Len(replies) /\ Head(replies) \in GoodCalls
  BY <1>1
<1>3. PICK t \in Turns : t = Head(replies).turn
  BY <1>2 DEF GoodCalls, Calls
<1>4. /\ log[t].fin = "committing" /\ log[t].status = "active"
      /\ log[t].outcome = Head(replies).status
      /\ Head(replies).steered = (log[t].steer = "accepted")
  BY <1>3, FinalizeAwaited
<1>5. /\ \A u \in Turns \ {t} : log'[u] = log[u]
      /\ log'[t].status \in {"ended", "error"} /\ log'[t].steer = log[t].steer
  BY <1>3, SettledLog
<1>6. pc[t] \notin Early /\ log[t].outcome \in Terminal
  <2>1. pc[t] \notin NotBegun
    BY <1>4 DEF TurnInv, ControlInv, Control
  <2>2. log[t].outcome \in Terminal
    BY DEF TurnInv, CallsInv, GoodLogs, LogShape
  <2> QED BY <2>1, <2>2 DEF NotBegun, Early
<1>7. /\ \A u \in Turns \ {t} : told'[u] = told[u]
      /\ \/ told'[t] = told[t]
         \/ Head(replies).ok /\ told'[t] = log[t].outcome
  BY <1>3 DEF ReceiveFinalize, FinalizeCommitted, FinalizeFailed
<1>8. Head(replies).ok =>
          /\ turnStatus[t] = log[t].outcome
          /\ log[t].steer = "accepted" => Saved(t, log[t].outcome)
  <2>1. replies[1].op = "finalize" /\ replies[1].ok =>
            /\ turnStatus[replies[1].turn] = replies[1].status
            /\ replies[1].steered => Saved(replies[1].turn, replies[1].status)
    BY <1>2 DEF DurableInv
  <2>2. /\ replies[1].op = "finalize" /\ replies[1].ok = Head(replies).ok
        /\ replies[1].turn = t /\ replies[1].status = log[t].outcome
        /\ replies[1].steered = (log[t].steer = "accepted")
    BY <1>1, <1>2, <1>3, <1>4
  <2> QED BY <2>1, <2>2
<1>9. ASSUME NEW u \in Turns
      PROVE  \/ told'[u] = told[u]
             \/ /\ pc'[u] \notin Early /\ log'[u].status # "active"
                /\ told'[u] \in Terminal /\ turnStatus[u] = told'[u]
                /\ log'[u].steer = "accepted" => Saved(u, told'[u])
  BY <1>1, <1>5, <1>6, <1>7, <1>8
<1>10. \A u \in Turns :
           /\ pc'[u] = pc[u] /\ log'[u].steer = log[u].steer
           /\ log'[u].status = "active" => log[u].status = "active"
           /\ Unfinished(log'[u]) => Unfinished(log[u])
  BY <1>1, <1>5 DEF Unfinished
<1>11. /\ TypeOK /\ CallsInv /\ CallsInv' /\ NoTurn \notin Turns /\ [Next]_storeVars
       /\ (sweepDue' => sweepDue)
  BY <1>1, HubAssumption DEF TurnInv, StoreInv
<1>12. \A u \in Turns : Undecided(u) => Undecided(u)'
  BY <1>1 DEF storeVars, Undecided
<1>13. \A i \in 1 .. Len(queue') : queue'[i].op = "finalize" =>
           Undecided(queue'[i].turn) /\ queue'[i].turn # NoTurn
  BY <1>1, <1>11, CallTurns DEF DurableInv
<1>14. \A i \in 1 .. Len(replies') : \E j \in 1 .. Len(replies) : replies'[i] = replies[j]
  BY <1>1, <1>11, RepliesTaken
<1> QED BY <1>9, <1>10, <1>11, <1>12, <1>13, <1>14, DurableKept

\* A restart: nothing is on its way, and what was told is in a terminal row.
LEMMA DurableRestart ==
    ASSUME StoreInv, DurableInv, Restart, told \in [Turns -> Terminal \cup {"none"}]
    PROVE  DurableInv'
<1>1. /\ Sweep(Deliveries) /\ log' = [t \in Turns |-> NewLog] /\ told' = told
      /\ queue' = <<>> /\ replies' = <<>> /\ sweepDue' = SweepPending
      /\ \A u \in Turns : pc'[u] \in {"idle", "over"}
  BY DEF Restart
<1>2. [Next]_storeVars /\ TypeOK
  <2>1. Deliveries \in SUBSET Turns
    BY HubAssumption
  <2> QED BY <1>1, <2>1, SweepRefines DEF StoreInv
<1>3. \A u \in Turns : log'[u].status = "none" /\ log'[u].steer = "none"
  BY <1>1, NewLogFits
<1>4. ASSUME NEW u \in Turns, told'[u] # "none"
      PROVE  turnStatus'[u] = told'[u]
  BY <1>1, <1>2, <1>4, OutcomeStep DEF DurableInv
<1>5. \A u \in Turns : ~Unfinished(log[u])' /\ pc'[u] \notin Early
  BY <1>1, <1>3 DEF Unfinished, Early
<1>6. Len(queue') = 0 /\ Len(replies') = 0
  BY <1>1
<1> QED BY <1>1, <1>3, <1>4, <1>5, <1>6 DEF DurableInv

LEMMA DurableStep ==
    TurnInv /\ TurnInv' /\ StoreInv /\ AskedInv /\ DurableInv /\ [HubNext]_vars => DurableInv'
<1> SUFFICES ASSUME TurnInv, TurnInv', StoreInv, AskedInv, DurableInv, [HubNext]_vars
             PROVE  DurableInv'
  OBVIOUS
<1>1. /\ told \in [Turns -> Terminal \cup {"none"}] /\ TypeOK /\ CallsInv /\ CallsInv'
      /\ LogsInv /\ pc \in [Turns -> Places] /\ log \in [Turns -> GoodLogs]
  BY DEF AskedInv, StoreInv, TurnInv, PlaceTypes, CallsInv
<1> DEFINE none == [op |-> "checkpoint"]
<1>2. none.op # "finalize"
  OBVIOUS
<1> HIDE DEF none
<1>3. CASE RunCall \/ RunDeferred \/ WorkerDies \/ DeferredSweep \/ Restart
           \/ ReceiveBegin \/ ReceiveFinalize
  BY <1>1, <1>3, DurableRun, DurableDeferred, DurableRejected, DurableSweep, DurableRestart,
     DurableBegun, DurableSettled
<1>4. CASE WorkerReady \/ CheckpointRejected \/ UNCHANGED vars
  <2>1. /\ UNCHANGED <<storeVars, pc, log, told, sweepDue, queue>>
        /\ replies' = replies \/ (replies # <<>> /\ replies' = Tail(replies))
    BY <1>4 DEF WorkerReady, CheckpointRejected, vars, hubVars, dbVars, historyVars, processVars
  <2> QED BY <1>1, <1>2, <2>1, DurableBeside
<1>5. ASSUME NEW t \in Turns, NEW s \in Terminal, Live(t), log[t].fin = "none", Finish(t, s),
             UNCHANGED <<storeVars, told, sweepDue, queue, replies>>,
             pc' = pc \/ pc' = [pc EXCEPT ![t] = "finishing"]
      PROVE  DurableInv'
  <2>1. /\ \A u \in Turns \ {t} : log'[u] = log[u]
        /\ log'[t].status = "active" /\ log'[t].fin = "requested"
        /\ log'[t].steer = log[t].steer
    BY <1>5, FinishedLog
  <2>2. log[t].status = "active"
    BY <1>5 DEF Live
  <2>3. \A u \in Turns : pc'[u] \in Early => pc[u] \in Early
    BY <1>1, <1>5 DEF Early
  <2>4. \A u \in Turns : Unfinished(log'[u]) => Unfinished(log[u])
    BY <1>5, <2>1, <2>2 DEF Unfinished
  <2> QED BY <1>1, <1>2, <1>5, <2>1, <2>2, <2>3, <2>4, DurableBeside
<1>6. CASE CancelTimeout
  <2>1. UNCHANGED <<storeVars, pc, told, sweepDue, queue, replies>>
    BY <1>6 DEF CancelTimeout, historyVars, dbVars, processVars
  <2>2. CASE UNCHANGED log
    BY <1>1, <1>2, <2>1, <2>2, DurableBeside
  <2>3. PICK t \in Turns : t = cancelTimer
    BY <1>1, <1>6 DEF CancelTimeout, CallsInv
  <2>4. UNCHANGED log \/ (Live(t) /\ log[t].fin = "none" /\ Finish(t, "cancelled"))
    BY <1>6, <2>3 DEF CancelTimeout
  <2> QED BY <1>5, <2>1, <2>2, <2>4 DEF Terminal
<1>7. ASSUME NEW t \in Turns, NEW s \in EndReasons, EndTurn(t, s)
      PROVE  DurableInv'
  <2> DEFINE r == IF StopPending(t) THEN "cancelled" ELSE s
  <2>1. /\ r \in Terminal /\ Live(t) /\ log[t].fin = "none" /\ Finish(t, r)
        /\ pc' = [pc EXCEPT ![t] = "finishing"]
        /\ UNCHANGED <<storeVars, told, sweepDue, queue, replies>>
    BY <1>7, HubAssumption DEF EndTurn, Terminal, dbVars, processVars
  <2> HIDE DEF r
  <2> QED BY <1>5, <2>1
<1>8. ASSUME NEW t \in Turns, NEW r \in BOOLEAN, FailTurn(t, r)
      PROVE  DurableInv'
  <2> DEFINE s == IF StopPending(t) /\ ~r THEN "cancelled" ELSE "error"
  <2>1. /\ s \in Terminal /\ Live(t) /\ log[t].fin = "none" /\ Finish(t, s)
        /\ pc' = [pc EXCEPT ![t] = "finishing"]
        /\ UNCHANGED <<storeVars, told, sweepDue, queue, replies>>
    BY <1>8 DEF FailTurn, Terminal, dbVars, historyVars, processVars
  <2> HIDE DEF s
  <2> QED BY <1>5, <2>1
<1>9. ASSUME NEW t \in Turns,
             \/ Emit(t) \/ TitleArrives(t) \/ Steer(t) \/ SteerSettles(t)
             \/ StopActive(t) \/ CancelAnswered(t)
      PROVE  DurableInv'
  <2>1. SameStages /\ CheckpointsAdded
    BY <1>1, <1>9, StreamStep
  <2>2. UNCHANGED <<storeVars, pc, told, sweepDue, replies>>
    BY <1>9 DEF Emit, TitleArrives, Steer, SteerSettles, StopActive, CancelAnswered,
                dbVars, historyVars, processVars
  <2>3. PICK c : /\ c.op = "checkpoint"
                 /\ queue' = queue \/ queue' = Append(queue, c)
    BY <2>1 DEF CheckpointsAdded
  <2>4. \A u \in Turns :
            /\ log'[u].status = "active" => log[u].status = "active"
            /\ Unfinished(log'[u]) => Unfinished(log[u])
            /\ told[u] # "none" /\ log'[u].steer = "accepted" => log[u].steer = "accepted"
    BY <2>1 DEF SameStages, Unfinished, SteerOpen, DurableInv
  <2> QED BY <1>1, <2>2, <2>3, <2>4, DurableBeside
<1>10. ASSUME NEW t \in Turns, StartTurn(t) \/ QueueSelfTurn(t) \/ ReachHead(t) \/ BeginSelfTurn(t)
       PROVE  DurableInv'
  <2>1. UNCHANGED <<storeVars, log, told, sweepDue, replies>>
    BY <1>10 DEF StartTurn, QueueSelfTurn, ReachHead, BeginSelfTurn, dbVars, historyVars,
                 processVars
  <2> DEFINE c == Call("begin", t, -1, "error", FALSE)
  <2>2. /\ c.op # "finalize"
        /\ queue' = queue \/ queue' = Append(queue, c)
    BY <1>10 DEF StartTurn, QueueSelfTurn, ReachHead, BeginSelfTurn, RequestBegin, Call, dbVars
  <2> HIDE DEF c
  <2>3. \A u \in Turns \ {t} : pc'[u] = pc[u]
    BY <1>1, <1>10 DEF StartTurn, QueueSelfTurn, ReachHead, BeginSelfTurn
  <2>4. pc'[t] \in Early => pc[t] \in Early \/ turnStatus[t] \in {"none", "active"}
    BY <1>1, <1>10 DEF StartTurn, QueueSelfTurn, ReachHead, BeginSelfTurn, Early
  <2>5. turnStatus[t] \in {"none", "active"} => Undecided(t) /\ told[t] = "none"
    BY <1>1 DEF Undecided, DurableInv, Terminal
  <2> QED BY <1>1, <2>1, <2>2, <2>3, <2>4, <2>5, DurableBeside
<1>11. ASSUME NEW t \in Turns,
              \/ DrainEnds(t) \/ JoinFinalization(t) \/ LateEvent(t) \/ FinallyBlock(t)
              \/ ForceFinished(t) \/ ReservationExpires(t) \/ ReserveCancellation(t)
       PROVE  DurableInv'
  <2>1. /\ UNCHANGED <<storeVars, log, told, sweepDue, queue, replies>>
        /\ \/ pc' = pc
           \/ \E p \in {"refused", "finishing", "over"} : pc' = [pc EXCEPT ![t] = p]
    BY <1>11 DEF DrainEnds, JoinFinalization, LateEvent, FinallyBlock, Leave, ForceFinished,
                 ReservationExpires, ReserveCancellation, dbVars, historyVars, processVars
  <2>2. \A u \in Turns : pc'[u] \in Early => pc[u] \in Early
    BY <1>1, <2>1 DEF Early
  <2> QED BY <1>1, <1>2, <2>1, <2>2, DurableBeside
<1>12. ASSUME NEW t \in Turns, Persist(t)
       PROVE  DurableInv'
  <2>1. /\ UNCHANGED <<storeVars, pc, told, sweepDue, replies>> /\ log[t].fin = "requested"
    BY <1>12 DEF Persist, historyVars, processVars
  <2>2. /\ \A u \in Turns \ {t} : log'[u] = log[u]
        /\ log[t].status = "active" /\ log'[t].fin = "committing"
        /\ log'[t].steer = log[t].steer
    BY <1>12, PersistedLog
  <2>3. PICK q \in SeqNumbers :
            queue' = Append(queue, Call("finalize", t, q, log[t].outcome,
                                        log[t].steer = "accepted"))
    BY <1>12, PersistedLog
  <2> DEFINE c == Call("finalize", t, q, log[t].outcome, log[t].steer = "accepted")
  <2>4. c.turn = t /\ queue' = Append(queue, c)
    BY <2>3 DEF Call
  <2> HIDE DEF c
  <2>5. Undecided(t)
    BY <2>1, <2>2 DEF DurableInv, Unfinished
  <2>6. \A u \in Turns : Unfinished(log'[u]) => Unfinished(log[u])
    BY <2>2 DEF Unfinished
  <2> QED BY <1>1, <2>1, <2>2, <2>4, <2>5, <2>6, DurableBeside
<1>13. ASSUME NEW t \in Turns, Evict(t)
       PROVE  DurableInv'
  <2>1. /\ UNCHANGED <<storeVars, pc, told, sweepDue, queue, replies>>
        /\ log' = [log EXCEPT ![t] = NewLog] \/ log' = log
    BY <1>13 DEF Evict, dbVars, historyVars, processVars
  <2>2. \A u \in Turns : log'[u] = log[u] \/ (log'[u].status = "none" /\ log'[u].steer = "none")
    BY <1>1, <2>1, NewLogFits
  <2>3. \A u \in Turns : Unfinished(log'[u]) => Unfinished(log[u])
    BY <2>2 DEF Unfinished
  <2> QED BY <1>1, <1>2, <2>1, <2>2, <2>3, DurableBeside
<1> QED BY <1>3, <1>4, <1>6, <1>7, <1>8, <1>9, <1>10, <1>11, <1>12, <1>13
        DEF HubNext, Backend, Client, Runtime, Faults, Microtask

LEMMA DurableInit == HubInit => DurableInv
<1> SUFFICES ASSUME HubInit
             PROVE  DurableInv
  OBVIOUS
<1>1. /\ told = [t \in Turns |-> "none"] /\ log = [t \in Turns |-> NewLog]
      /\ pc = [t \in Turns |-> "idle"] /\ queue = <<>> /\ replies = <<>>
      /\ sweepDue = SweepPending
  BY DEF HubInit
<1>2. \A u \in Turns : log[u].status = "none" /\ told[u] = "none" /\ pc[u] = "idle"
  BY <1>1, NewLogFits
<1>3. Len(queue) = 0 /\ Len(replies) = 0
  BY <1>1
<1> QED BY <1>1, <1>2, <1>3 DEF DurableInv, Early, Unfinished

LEMMA DurableInvariant == HubSpec => []DurableInv
<1>1. HubSpec => []StoreInv
  BY HubKeepsStore, StoreInvariant, PTL
<1>2. HubSpec => []AskedInv
  BY AskedInit, AskedStep, TurnInvariant, PTL DEF HubSpec
<1> QED BY <1>1, <1>2, DurableInit, DurableStep, TurnInvariant, PTL DEF HubSpec

\* The durability boundary: an outcome that subscribers were told is in the
\* turn's row and stays there, over worker deaths, late calls, sweeps and
\* restarts.
THEOREM OutcomesAreDurable == HubSpec => []DoneIsDurable
<1>1. DurableInv => DoneIsDurable
  BY DEF DurableInv, DoneIsDurable
<1> QED BY <1>1, DurableInvariant, PTL

\* Steering the user was told is accepted is in the transcript when the turn is
\* reported as completed or cancelled; when it is reported as an error, too,
\* unless the process still had a deferred sweep to do.
THEOREM SteeringSavedUnlessSwept ==
    HubSpec => [](\A t \in Turns : told[t] # "none" /\ Published(t, "steer") =>
                      \/ messageSeq[t]["steer"] # Absent
                      \/ SweepPending /\ told[t] = "error")
<1>1. TurnInv /\ DurableInv =>
          \A t \in Turns : told[t] # "none" /\ Published(t, "steer") =>
              \/ messageSeq[t]["steer"] # Absent
              \/ SweepPending /\ told[t] = "error"
  BY DEF TurnInv, LogsInv, EventsFit, Published, DurableInv, Saved
<1> QED BY <1>1, TurnInvariant, DurableInvariant, PTL

\* Commit accepted input before done or error, in every process whose deferred
\* sweep is not to come any more.
THEOREM SteeringIsDurable ==
    ASSUME ~SweepPending
    PROVE  HubSpec => []SteeringIsSaved
<1>1. TurnInv /\ DurableInv => SteeringIsSaved
  BY DEF TurnInv, LogsInv, EventsFit, Published, DurableInv, Saved, SteeringIsSaved
<1> QED BY <1>1, TurnInvariant, DurableInvariant, PTL

-----------------------------------------------------------------------------
(***************************************************************************)
(* A Stop that comes before its turn.  Its reservation and its timer go    *)
(* together as long as the turn was asked to stop once: with two Stops     *)
(* there are two timers and one entry in cancelled, and the first timer    *)
(* removes what the second still holds.                                    *)
(***************************************************************************)
Unsent == {"idle", "queued", "waiting", "beginning"}

HoldInv ==
    /\ stops \in [Turns -> 0 .. MaxStops] /\ expiry \in [Turns -> Nat]
    /\ \A t \in Turns :
           /\ expiry[t] <= stops[t]
           /\ pc[t] \in Unsent /\ stops[t] <= 1 /\ expiry[t] > 0 => t \in cancelled

\* No Stop comes or runs out, and only a turn that is over forgets its Stop.
LEMMA HoldLeft ==
    ASSUME HoldInv, UNCHANGED <<stops, expiry>>,
           \A u \in Turns : /\ pc'[u] \in Unsent => pc[u] \in Unsent
                            /\ u \in cancelled => u \in cancelled' \/ pc'[u] \notin Unsent
    PROVE  HoldInv'
BY DEF HoldInv

LEMMA HoldStep == TurnInv /\ HoldInv /\ [HubNext]_vars => HoldInv'
<1> SUFFICES ASSUME TurnInv, HoldInv, [HubNext]_vars
             PROVE  HoldInv'
  OBVIOUS
<1>1. /\ pc \in [Turns -> Places] /\ MaxStops \in Nat
      /\ stops \in [Turns -> 0 .. MaxStops] /\ expiry \in [Turns -> Nat]
  BY HubAssumption DEF TurnInv, PlaceTypes, HoldInv
<1>2. ASSUME \/ RunCall \/ RunDeferred \/ WorkerReady \/ CheckpointRejected \/ WorkerDies
             \/ DeferredSweep \/ UNCHANGED vars \/ ReceiveFinalize \/ CancelTimeout
      PROVE  HoldInv'
  <2>1. UNCHANGED <<pc, stops, expiry, cancelled>>
    BY <1>2 DEF RunCall, RunDeferred, WorkerReady, CheckpointRejected, WorkerDies,
                DeferredSweep, ReceiveFinalize, CancelTimeout, vars, hubVars, stopVars
  <2> QED BY <2>1, HoldLeft
<1>3. CASE Restart
  BY <1>1, <1>3 DEF Restart, HoldInv
<1>4. CASE ReceiveBegin
  <2>1. PICK t \in Turns : t = Head(replies).turn
    BY <1>4 DEF ReceiveBegin, TurnInv, CallsInv, GoodCalls, Calls
  <2>2. /\ UNCHANGED <<stops, expiry, cancelled>>
        /\ \E p \in {"finishing", "streaming", "refused", "draining"} :
               pc' = [pc EXCEPT ![t] = p]
    BY <1>4, <2>1 DEF ReceiveBegin, BeginCommitted, BeginFailed, stopVars
  <2>3. \A u \in Turns : pc'[u] \in Unsent => pc[u] \in Unsent
    BY <1>1, <2>2 DEF Unsent
  <2> QED BY <2>2, <2>3, HoldLeft
<1>5. ASSUME NEW t \in Turns,
             \/ StartTurn(t) \/ QueueSelfTurn(t) \/ ReachHead(t) \/ BeginSelfTurn(t)
             \/ DrainEnds(t) \/ JoinFinalization(t) \/ LateEvent(t) \/ FinallyBlock(t)
             \/ (\E s \in EndReasons : EndTurn(t, s))
             \/ (\E r \in BOOLEAN : FailTurn(t, r))
      PROVE  HoldInv'
  <2>1. UNCHANGED <<stops, expiry>> /\ \A u \in Turns \ {t} : pc'[u] = pc[u]
    BY <1>1, <1>5 DEF StartTurn, QueueSelfTurn, ReachHead, BeginSelfTurn, DrainEnds,
                 JoinFinalization, LateEvent, FinallyBlock, Leave, EndTurn, FailTurn, stopVars
  <2>2. pc'[t] \in Unsent => pc[t] \in Unsent
    BY <1>1, <1>5 DEF StartTurn, QueueSelfTurn, ReachHead, BeginSelfTurn, DrainEnds,
                 JoinFinalization, LateEvent, FinallyBlock, Leave, EndTurn, FailTurn, Unsent
  <2>3. cancelled' = cancelled \/ (cancelled' = cancelled \ {t} /\ pc'[t] \notin Unsent)
    BY <1>1, <1>5 DEF StartTurn, QueueSelfTurn, ReachHead, BeginSelfTurn, DrainEnds,
                 JoinFinalization, LateEvent, FinallyBlock, Leave, EndTurn, FailTurn,
                 Unsent, stopVars
  <2> QED BY <2>1, <2>2, <2>3, HoldLeft
<1>6. ASSUME NEW t \in Turns, StopActive(t) \/ ReserveCancellation(t)
      PROVE  HoldInv'
  <2>1. /\ stops[t] < MaxStops /\ stops' = [stops EXCEPT ![t] = stops[t] + 1]
        /\ cancelled' = cancelled \cup {t} /\ UNCHANGED pc
        /\ expiry' = expiry \/ expiry' = [expiry EXCEPT ![t] = expiry[t] + 1]
    BY <1>6 DEF StopActive, ReserveCancellation
  <2>2. /\ stops' \in [Turns -> 0 .. MaxStops] /\ expiry' \in [Turns -> Nat]
        /\ \A u \in Turns \ {t} : stops'[u] = stops[u] /\ expiry'[u] = expiry[u]
        /\ stops'[t] = stops[t] + 1 /\ expiry'[t] <= expiry[t] + 1
    BY <1>1, <2>1
  <2>3. \A u \in Turns : expiry'[u] <= stops'[u]
    BY <1>1, <2>2 DEF HoldInv
  <2> QED BY <2>1, <2>2, <2>3 DEF HoldInv
<1>7. ASSUME NEW t \in Turns, ReservationExpires(t)
      PROVE  HoldInv'
  <2>1. /\ expiry[t] > 0 /\ expiry' = [expiry EXCEPT ![t] = expiry[t] - 1]
        /\ cancelled' = cancelled \ {t} /\ UNCHANGED <<pc, stops>>
    BY <1>7 DEF ReservationExpires
  <2>2. /\ expiry' \in [Turns -> Nat] /\ expiry'[t] = expiry[t] - 1
        /\ \A u \in Turns \ {t} : expiry'[u] = expiry[u]
    BY <1>1, <2>1
  <2>3. stops[t] <= 1 => ~(expiry'[t] > 0)
    BY <1>1, <2>2 DEF HoldInv
  <2>4. \A u \in Turns : expiry'[u] <= stops'[u]
    BY <1>1, <2>1, <2>2 DEF HoldInv
  <2> QED BY <2>1, <2>2, <2>3, <2>4 DEF HoldInv
<1>8. ASSUME NEW t \in Turns,
             \/ Emit(t) \/ TitleArrives(t) \/ Steer(t) \/ SteerSettles(t)
             \/ CancelAnswered(t) \/ ForceFinished(t) \/ Persist(t) \/ Evict(t)
      PROVE  HoldInv'
  <2>1. CASE Emit(t) \/ TitleArrives(t) \/ Steer(t) \/ SteerSettles(t)
    <3>1. UNCHANGED <<pc, stops, expiry, cancelled>>
      BY <2>1 DEF Emit, TitleArrives, Steer, SteerSettles, stopVars
    <3> QED BY <3>1, HoldLeft
  <2>2. CASE CancelAnswered(t) \/ ForceFinished(t) \/ Persist(t) \/ Evict(t)
    <3>1. UNCHANGED <<pc, stops, expiry, cancelled>>
      BY <2>2 DEF CancelAnswered, ForceFinished, Persist, Evict, stopVars
    <3> QED BY <3>1, HoldLeft
  <2> QED BY <1>8, <2>1, <2>2
<1> QED BY <1>2, <1>3, <1>4, <1>5, <1>6, <1>7, <1>8
        DEF HubNext, Backend, Client, Runtime, Faults, Microtask

LEMMA HoldInit == HubInit => HoldInv
<1> SUFFICES ASSUME HubInit
             PROVE  HoldInv
  OBVIOUS
<1>1. stops = [t \in Turns |-> 0] /\ expiry = [t \in Turns |-> 0] /\ MaxStops \in Nat
  BY HubAssumption DEF HubInit
<1> QED BY <1>1 DEF HoldInv

\* A prompt goes out when its begin is answered, and only then.
LEMMA SentByBegin ==
    ASSUME [HubNext]_vars, sent' # sent, sent' # {}
    PROVE  ReceiveBegin
<1>1. ~(RunCall \/ RunDeferred \/ WorkerReady \/ CheckpointRejected \/ WorkerDies
        \/ DeferredSweep \/ UNCHANGED vars \/ ReceiveFinalize \/ CancelTimeout \/ Restart)
  BY DEF RunCall, RunDeferred, WorkerReady, CheckpointRejected, WorkerDies, DeferredSweep,
         ReceiveFinalize, CancelTimeout, Restart, vars, hubVars, historyVars
<1>2. ASSUME NEW t \in Turns,
             \/ Emit(t) \/ TitleArrives(t) \/ Steer(t) \/ SteerSettles(t)
             \/ CancelAnswered(t) \/ ForceFinished(t) \/ Persist(t) \/ Evict(t)
      PROVE  FALSE
  BY <1>2 DEF Emit, TitleArrives, Steer, SteerSettles, CancelAnswered, ForceFinished,
              Persist, Evict, historyVars
<1>3. ASSUME NEW t \in Turns,
             \/ StartTurn(t) \/ QueueSelfTurn(t) \/ ReachHead(t) \/ BeginSelfTurn(t)
             \/ StopActive(t) \/ ReserveCancellation(t) \/ ReservationExpires(t)
      PROVE  FALSE
  BY <1>3 DEF StartTurn, QueueSelfTurn, ReachHead, BeginSelfTurn, StopActive,
              ReserveCancellation, ReservationExpires, historyVars
<1>4. ASSUME NEW t \in Turns,
             \/ DrainEnds(t) \/ JoinFinalization(t) \/ LateEvent(t) \/ FinallyBlock(t)
             \/ (\E s \in EndReasons : EndTurn(t, s))
             \/ (\E r \in BOOLEAN : FailTurn(t, r))
      PROVE  FALSE
  BY <1>4 DEF DrainEnds, JoinFinalization, LateEvent, FinallyBlock, EndTurn, FailTurn,
              historyVars
<1> QED BY <1>1, <1>2, <1>3, <1>4 DEF HubNext, Backend, Client, Runtime, Faults, Microtask

\* At that moment no Stop is held for the turn.
LEMMA SentStep ==
    ASSUME TurnInv, HoldInv, [HubNext]_vars, NEW t \in sent' \ sent
    PROVE  t \in Turns /\ (stops[t] <= 1 => expiry[t] = 0)
<1>1. ReceiveBegin
  BY SentByBegin
<1>2. /\ replies \in Seq(GoodCalls) /\ replies # <<>> /\ Head(replies).op = "begin"
  BY <1>1 DEF ReceiveBegin, TurnInv, CallsInv
<1>3. /\ t = Head(replies).turn /\ ~StopPending(t)
  BY <1>1 DEF ReceiveBegin, BeginCommitted, BeginFailed
<1>4. Head(replies) = replies[1] /\ 1 \in 1 .. Len(replies) /\ Head(replies) \in GoodCalls
  BY <1>2
<1>5. pc[t] = "beginning" /\ t \in Turns
  BY <1>2, <1>3, <1>4 DEF TurnInv, CallsFit, Fits, GoodCalls, Calls
<1>6. expiry[t] \in Nat /\ ~(stops[t] <= 1 /\ expiry[t] > 0)
  BY <1>3, <1>5 DEF HoldInv, Unsent, StopPending
<1> QED BY <1>5, <1>6

\* While the Stop that beat its turn's start is held, the turn's prompt does
\* not reach the runtime, for every turn that was asked to stop once.
THEOREM HeldTurnsAreNotSent ==
    HubSpec => [][\A t \in sent' \ sent : stops[t] <= 1 => expiry[t] = 0]_vars
<1>1. TurnInv /\ HoldInv /\ [HubNext]_vars =>
          [\A t \in sent' \ sent : stops[t] <= 1 => expiry[t] = 0]_vars
  BY SentStep
<1> QED BY <1>1, HoldInit, HoldStep, TurnInvariant, PTL DEF HubSpec

\* So a held Stop is always honoured when every turn is stopped at most once.
THEOREM SingleStopsAreHonoured ==
    ASSUME MaxStops <= 1
    PROVE  HubSpec => StopIsHonoured
<1>1. TurnInv /\ HoldInv /\ [HubNext]_vars => [\A t \in sent' \ sent : expiry[t] = 0]_vars
  <2> SUFFICES ASSUME TurnInv, HoldInv, [HubNext]_vars, NEW t \in sent' \ sent
               PROVE  expiry[t] = 0
    OBVIOUS
  <2>1. t \in Turns /\ (stops[t] <= 1 => expiry[t] = 0)
    BY SentStep
  <2>2. stops[t] \in 0 .. MaxStops /\ MaxStops \in Nat
    BY <2>1, HubAssumption DEF HoldInv
  <2> QED BY <2>1, <2>2
<1> QED BY <1>1, HoldInit, HoldStep, TurnInvariant, PTL DEF HubSpec, StopIsHonoured

-----------------------------------------------------------------------------
(***************************************************************************)
(* What a published done says.  The window that follows a turn takes the   *)
(* outcome from its log (turn_end carries it).                             *)
(***************************************************************************)
DoneFits(l, outcome) ==
    /\ l.status = "ended" => outcome = l.outcome
    /\ \A i \in 1 .. Len(l.events) : l.events[i].kind = "done" => l.status = "ended"

DoneInv == \A t \in Turns : DoneFits(log[t], told[t])

LEMMA DoneKept ==
    ASSUME DoneInv, LogsInv',
           \A u \in Turns :
               \/ log'[u].fin # "settled"
               \/ /\ told'[u] = told[u] /\ log'[u].status = log[u].status
                  /\ log'[u].outcome = log[u].outcome /\ log'[u].events = log[u].events
               \/ DoneFits(log'[u], told'[u])
    PROVE  DoneInv'
<1> SUFFICES ASSUME NEW u \in Turns
             PROVE  DoneFits(log[u], told[u])'
  BY DEF DoneInv
<1>1. DoneFits(log[u], told[u]) /\ (StageFits(log[u]) /\ EventsFit(log[u]))'
  BY DEF DoneInv, LogsInv
<1>2. CASE log'[u].fin # "settled"
  BY <1>1, <1>2 DEF DoneFits, StageFits, EventsFit, EndKinds
<1>3. CASE /\ told'[u] = told[u] /\ log'[u].status = log[u].status
           /\ log'[u].outcome = log[u].outcome /\ log'[u].events = log[u].events
  BY <1>1, <1>3 DEF DoneFits
<1>4. CASE DoneFits(log'[u], told'[u])
  BY <1>4 DEF DoneFits
<1> QED BY <1>2, <1>3, <1>4

\* Nothing is published to a log that is not active, except by the answer to
\* its final transaction.
LEMMA EventsOfActive ==
    ASSUME CallsInv, LogsInv, NEW t \in Turns, NEW u \in Turns,
           \/ Emit(t) \/ TitleArrives(t) \/ Steer(t) \/ SteerSettles(t)
           \/ StopActive(t) \/ CancelAnswered(t)
    PROVE  log'[u].events = log[u].events \/ log[u].status = "active"
<1>1. log \in [Turns -> GoodLogs] /\ log[u] \in LogShape /\ StageFits(log[u])
  BY DEF CallsInv, GoodLogs, LogsInv
<1>2. CASE u # t
  BY <1>1, <1>2 DEF Emit, TitleArrives, Steer, SteerSettles, StopActive, CancelAnswered
<1>3. CASE u = t /\ Live(t)
  BY <1>3 DEF Live
<1>4. CASE u = t /\ ~Live(t)
  <2>1. CASE Emit(t) \/ Steer(t) \/ StopActive(t)
    BY <1>4, <2>1 DEF Emit, Steer, StopActive
  <2>2. CASE CancelAnswered(t)
    BY <1>4, <2>2 DEF CancelAnswered
  <2>3. CASE SteerSettles(t)
    BY <1>1, <1>4, <2>3 DEF SteerSettles, StageFits
  <2>4. CASE TitleArrives(t)
    <3>1. log' = [log EXCEPT ![t].title = "none"]
      BY <1>4, <2>4 DEF TitleArrives
    <3> DEFINE k == [log[t] EXCEPT !.title = "none"]
    <3>2. log'[t] = k
      BY <1>1, <3>1
    <3>3. k.events = log[t].events
      BY <1>1, <1>4 DEF LogShape
    <3> QED BY <1>4, <3>2, <3>3
  <2> QED BY <2>1, <2>2, <2>3, <2>4
<1> QED BY <1>2, <1>3, <1>4

LEMMA DoneStep ==
    TurnInv /\ TurnInv' /\ AskedInv /\ DoneInv /\ [HubNext]_vars =>
        /\ DoneInv'
        /\ crashes' = crashes =>
               \A u \in Turns : log'[u].fin = "settled" => log'[u].outcome = log[u].outcome
<1> DEFINE Same == \A u \in Turns : log'[u].fin = "settled" => log'[u].outcome = log[u].outcome
<1> SUFFICES ASSUME TurnInv, TurnInv', AskedInv, DoneInv, [HubNext]_vars
             PROVE  DoneInv' /\ (crashes' = crashes => Same)
  OBVIOUS
<1>1. /\ told \in [Turns -> Terminal \cup {"none"}] /\ CallsInv /\ LogsInv /\ LogsInv'
      /\ log \in [Turns -> GoodLogs]
  BY DEF AskedInv, TurnInv, CallsInv
<1>2. ASSUME UNCHANGED <<log, told>>
      PROVE  DoneInv' /\ Same
  BY <1>1, <1>2, DoneKept
<1>3. ASSUME UNCHANGED told, NEW t \in Turns, \A u \in Turns \ {t} : log'[u] = log[u],
             log'[t].fin # "settled"
      PROVE  DoneInv' /\ Same
  BY <1>1, <1>3, DoneKept
<1>4. CASE RunCall \/ RunDeferred \/ WorkerReady \/ CheckpointRejected \/ WorkerDies
           \/ DeferredSweep \/ UNCHANGED vars
  <2>1. UNCHANGED <<log, told>>
    BY <1>4 DEF RunCall, RunDeferred, WorkerReady, CheckpointRejected, WorkerDies,
                DeferredSweep, vars, hubVars, historyVars
  <2> QED BY <1>2, <2>1
<1>5. CASE Restart
  <2>1. log' = [u \in Turns |-> NewLog] /\ crashes' = crashes + 1
    BY <1>5 DEF Restart
  <2>2. \A u \in Turns : log'[u].fin = "none"
    BY <2>1, NewLogFits
  <2> QED BY <1>1, <2>2, DoneKept
<1>6. CASE ReceiveBegin
  <2>1. PICK t \in Turns : t = Head(replies).turn
    BY <1>6 DEF ReceiveBegin, TurnInv, CallsInv, GoodCalls, Calls
  <2>2. CASE BeginCommitted(t)
    <3>1. (\A u \in Turns \ {t} : log'[u] = log[u]) /\ log'[t].fin # "settled"
      BY <2>2, BegunLog
    <3> QED BY <1>3, <1>6, <3>1 DEF ReceiveBegin
  <2>3. CASE BeginFailed(t)
    BY <1>2, <1>6, <2>3 DEF BeginFailed, ReceiveBegin
  <2> QED BY <1>6, <2>1, <2>2, <2>3 DEF ReceiveBegin
<1>7. CASE ReceiveFinalize
  <2>1. PICK t \in Turns : t = Head(replies).turn
    BY <1>7 DEF ReceiveFinalize, TurnInv, CallsInv, GoodCalls, Calls
  <2>2. /\ \A u \in Turns \ {t} : log'[u] = log[u]
        /\ log'[t].outcome = log[t].outcome
        /\ \E x : /\ log'[t].events = Append(log[t].events, x)
                  /\ x.kind = "done" => log'[t].status = "ended"
        /\ log'[t].status = "ended" => told' = [told EXCEPT ![t] = log[t].outcome]
    BY <1>7, <2>1, SettledLog
  <2>3. \A u \in Turns \ {t} : told'[u] = told[u]
    BY <1>1, <1>7, <2>1 DEF ReceiveFinalize, FinalizeCommitted, FinalizeFailed
  <2>4. log'[t].status = "ended" => told'[t] = log'[t].outcome
    BY <1>1, <2>2
  <2>5. PICK x : /\ log'[t].events = Append(log[t].events, x)
                 /\ x.kind = "done" => log'[t].status = "ended"
    BY <2>2
  <2>6. log[t].events \in Seq([seq : Int, kind : Kinds])
    BY <1>1 DEF GoodLogs, LogShape
  <2>7. log[t].fin = "committing" /\ EventsFit(log[t])
    BY <1>1, <1>7, <2>1, FinalizeAwaited DEF LogsInv
  <2>8. ASSUME NEW i \in 1 .. Len(log'[t].events), log'[t].events[i].kind = "done"
        PROVE  log'[t].status = "ended"
    <3>1. \/ log'[t].events[i] = x
          \/ i \in 1 .. Len(log[t].events) /\ log'[t].events[i] = log[t].events[i]
      BY <2>5, <2>6
    <3>2. CASE log'[t].events[i] = x
      BY <2>5, <2>8, <3>2
    <3>3. CASE i \in 1 .. Len(log[t].events) /\ log'[t].events[i] = log[t].events[i]
      BY <2>7, <2>8, <3>3 DEF EventsFit, EndKinds
    <3> QED BY <3>1, <3>2, <3>3
  <2>9. DoneFits(log'[t], told'[t])
    BY <2>4, <2>8 DEF DoneFits
  <2> QED BY <1>1, <2>2, <2>3, <2>9, DoneKept
<1>8. ASSUME NEW t \in Turns, NEW s \in Terminal, Live(t), log[t].fin = "none",
             Finish(t, s), UNCHANGED told
      PROVE  DoneInv' /\ Same
  BY <1>3, <1>8, FinishedLog
<1>9. CASE CancelTimeout
  <2>1. PICK t \in Turns : t = cancelTimer
    BY <1>9 DEF CancelTimeout, TurnInv, CallsInv
  <2>2. UNCHANGED told /\ (UNCHANGED log
            \/ (Live(t) /\ log[t].fin = "none" /\ Finish(t, "cancelled")))
    BY <1>9, <2>1 DEF CancelTimeout, historyVars
  <2> QED BY <1>2, <1>8, <2>2 DEF Terminal
<1>10. ASSUME NEW t \in Turns, NEW s \in EndReasons, EndTurn(t, s)
       PROVE  DoneInv' /\ Same
  <2> DEFINE r == IF StopPending(t) THEN "cancelled" ELSE s
  <2>1. /\ r \in Terminal /\ Live(t) /\ log[t].fin = "none" /\ Finish(t, r) /\ UNCHANGED told
    BY <1>10, HubAssumption DEF EndTurn, Terminal
  <2> HIDE DEF r
  <2> QED BY <1>8, <2>1
<1>11. ASSUME NEW t \in Turns, NEW r \in BOOLEAN, FailTurn(t, r)
       PROVE  DoneInv' /\ Same
  <2> DEFINE s == IF StopPending(t) /\ ~r THEN "cancelled" ELSE "error"
  <2>1. /\ s \in Terminal /\ Live(t) /\ log[t].fin = "none" /\ Finish(t, s) /\ UNCHANGED told
    BY <1>11 DEF FailTurn, Terminal, historyVars
  <2> HIDE DEF s
  <2> QED BY <1>8, <2>1
<1>12. ASSUME NEW t \in Turns,
              \/ Emit(t) \/ TitleArrives(t) \/ Steer(t) \/ SteerSettles(t)
              \/ StopActive(t) \/ CancelAnswered(t)
       PROVE  DoneInv' /\ Same
  <2>1. SameStages
    BY <1>1, <1>12, StreamStep
  <2>2. UNCHANGED told
    BY <1>12 DEF Emit, TitleArrives, Steer, SteerSettles, StopActive, CancelAnswered, historyVars
  <2>3. \A u \in Turns : log'[u].events = log[u].events \/ log[u].status = "active"
    BY <1>1, <1>12, EventsOfActive
  <2>4. \A u \in Turns : log[u].status = "active" => log[u].fin # "settled"
    BY <1>1 DEF LogsInv, StageFits
  <2> QED BY <1>1, <2>1, <2>2, <2>3, <2>4, DoneKept DEF SameStages
<1>13. ASSUME NEW t \in Turns,
              \/ StartTurn(t) \/ QueueSelfTurn(t) \/ ReachHead(t) \/ BeginSelfTurn(t)
              \/ DrainEnds(t) \/ JoinFinalization(t) \/ LateEvent(t) \/ FinallyBlock(t)
              \/ ForceFinished(t) \/ ReservationExpires(t) \/ ReserveCancellation(t)
       PROVE  DoneInv' /\ Same
  <2>1. UNCHANGED <<log, told>>
    BY <1>13 DEF StartTurn, QueueSelfTurn, ReachHead, BeginSelfTurn, DrainEnds,
                 JoinFinalization, LateEvent, FinallyBlock, ForceFinished,
                 ReservationExpires, ReserveCancellation, historyVars
  <2> QED BY <1>2, <2>1
<1>14. ASSUME NEW t \in Turns, Persist(t)
       PROVE  DoneInv' /\ Same
  <2>1. UNCHANGED told /\ (\A u \in Turns \ {t} : log'[u] = log[u]) /\ log'[t].fin # "settled"
    BY <1>14, PersistedLog DEF Persist, historyVars
  <2> QED BY <1>3, <2>1
<1>15. ASSUME NEW t \in Turns, Evict(t)
       PROVE  DoneInv' /\ Same
  <2>1. UNCHANGED told /\ (log' = [log EXCEPT ![t] = NewLog] \/ log' = log)
    BY <1>15 DEF Evict, historyVars
  <2>2. log' = log \/ ((\A u \in Turns \ {t} : log'[u] = log[u]) /\ log'[t].fin # "settled")
    BY <1>1, <2>1, NewLogFits
  <2> QED BY <1>2, <1>3, <2>1, <2>2
<1> HIDE DEF Same
<1> QED BY <1>4, <1>5, <1>6, <1>7, <1>9, <1>10, <1>11, <1>12, <1>13, <1>14, <1>15
        DEF HubNext, Backend, Client, Runtime, Faults, Microtask

LEMMA DoneInit == HubInit => DoneInv
<1> SUFFICES ASSUME HubInit, NEW t \in Turns
             PROVE  DoneFits(log[t], told[t])
  BY DEF DoneInv
<1>1. log[t] = NewLog
  BY DEF HubInit
<1>2. NewLog.status = "none" /\ EventsFit(NewLog) /\ NewLog.fin = "none"
  BY NewLogFits
<1> QED BY <1>1, <1>2 DEF DoneFits, EventsFit, EndKinds

LEMMA DoneInvariant == HubSpec => []DoneInv
<1>1. HubSpec => []AskedInv
  BY AskedInit, AskedStep, TurnInvariant, PTL DEF HubSpec
<1> QED BY <1>1, DoneInit, DoneStep, TurnInvariant, PTL DEF HubSpec

-----------------------------------------------------------------------------
(***************************************************************************)
(* The chat keeps the promises of TurnService.  A step of the hub is one   *)
(* of the service only because of what the hub remembers of a turn: who    *)
(* has its prompt already, whose row exists when its begin is answered,    *)
(* and that a turn which comes to the front is new or resumed.             *)
(***************************************************************************)
PromiseInv ==
    /\ \A t \in Turns :
           /\ pc[t] \in Unsent => t \notin sent
           /\ pc[t] = "streaming" => t \in sent
           /\ pc[t] \in {"idle", "queued", "waiting"} => turnStatus[t] = "none" \/ t \in Deliveries
           /\ pc[t] \in {"queued", "waiting"} => turnStatus[t] \in {"none", "active"}
           /\ log[t].status = "active" => turnStatus[t] # "none"
    /\ \A i \in 1 .. Len(replies) :
           replies[i].op = "begin" /\ replies[i].ok => turnStatus[replies[i].turn] # "none"

\* How the service sees a turn that runs.
Judged(t) == IF log[t].status = "active" /\ log[t].fin # "none" THEN log[t].outcome ELSE "none"

\* What a transaction of the hub does to the outcomes: nothing, a first row, or
\* the outcome of a turn whose row is active.
LEMMA ExecutedStatus ==
    ASSUME NEW c \in GoodCalls, NEW ok \in BOOLEAN, Execute(c, ok)
    PROVE  \/ /\ turnStatus' = turnStatus
              /\ ok /\ c.op = "begin" => turnStatus[c.turn] # "none"
           \/ /\ c.op = "begin" /\ turnStatus[c.turn] = "none"
              /\ turnStatus' = [turnStatus EXCEPT ![c.turn] = "active"]
           \/ /\ c.op = "finalize" /\ turnStatus[c.turn] = "active"
              /\ turnStatus' = [turnStatus EXCEPT ![c.turn] = c.status]
<1>1. CASE ok /\ c.op = "begin"
  BY <1>1 DEF Execute, BeginTurn, storeVars
<1>2. CASE c.op = "checkpoint"
  BY <1>2 DEF Execute, CheckpointTurn, storeVars
<1>3. CASE c.op = "finalize"
  BY <1>3 DEF Execute, FinalizeTurn, FinalizeApplies, storeVars
<1>4. CASE ~ok
  BY <1>4 DEF Execute, storeVars
<1> QED BY <1>1, <1>2, <1>3, <1>4 DEF GoodCalls, Calls

\* A row is never removed.
LEMMA RowsStay ==
    ASSUME TypeOK, [Next]_storeVars, NEW t \in Turns, turnStatus[t] # "none"
    PROVE  turnStatus'[t] # "none"
<1>1. turnStatus \in [Turns -> Terminal \cup {"none", "active"}]
  BY DEF TypeOK
<1>2. ASSUME NEW u \in Turns, BeginTurn(u)
      PROVE  turnStatus'[t] # "none"
  BY <1>1, <1>2 DEF BeginTurn
<1>3. ASSUME NEW u \in Turns, NEW q, NEW b, CheckpointTurn(u, q, b)
      PROVE  turnStatus'[t] # "none"
  BY <1>3 DEF CheckpointTurn
<1>4. ASSUME NEW u \in Turns, NEW s \in Terminal, NEW q, NEW b, FinalizeTurn(u, s, q, b)
      PROVE  turnStatus'[t] # "none"
  BY <1>1, <1>4 DEF FinalizeTurn, Terminal
<1>5. CASE \E preserve \in SUBSET Turns : RecoverInterruptedTurns(preserve)
  BY <1>5 DEF RecoverInterruptedTurns
<1>6. CASE \E tree \in Trees, w \in Workspaces : MoveTreeToWorkspace(tree, w)
  BY <1>6 DEF MoveTreeToWorkspace
<1>7. CASE UNCHANGED storeVars
  BY <1>7 DEF storeVars
<1> QED BY <1>2, <1>3, <1>4, <1>5, <1>6, <1>7 DEF Next

(***************************************************************************)
(* A step that changes no outcome: a turn becomes active only when its row *)
(* exists, streams only when its prompt is out, and queues when its row    *)
(* still takes an outcome.                                                 *)
(***************************************************************************)
LEMMA PromisesKept ==
    ASSUME PromiseInv, CallsInv, turnStatus' = turnStatus,
           replies' = replies \/ (replies # <<>> /\ replies' = Tail(replies)),
           \A u \in Turns :
               /\ pc'[u] \in Unsent => pc[u] \in Unsent
               /\ u \in sent => u \in sent'
               /\ u \in sent' => u \in sent \/ pc'[u] \notin Unsent
               /\ pc'[u] = "streaming" => pc[u] = "streaming" \/ u \in sent'
               /\ pc'[u] = "idle" => pc[u] = "idle"
               /\ pc'[u] \in {"queued", "waiting"} =>
                      \/ pc[u] \in {"queued", "waiting"}
                      \/ pc[u] = "idle" /\ turnStatus[u] \in {"none", "active"}
               /\ log'[u].status = "active" => log[u].status = "active" \/ turnStatus[u] # "none"
    PROVE  PromiseInv'
<1>1. \A i \in 1 .. Len(replies') : \E j \in 1 .. Len(replies) : replies'[i] = replies[j]
  BY RepliesTaken
<1>2. \A i \in 1 .. Len(replies') :
          replies'[i].op = "begin" /\ replies'[i].ok => turnStatus'[replies'[i].turn] # "none"
  BY <1>1 DEF PromiseInv
<1>3. ASSUME NEW t \in Turns
      PROVE  (/\ pc[t] \in Unsent => t \notin sent
              /\ pc[t] = "streaming" => t \in sent
              /\ pc[t] \in {"idle", "queued", "waiting"} =>
                     turnStatus[t] = "none" \/ t \in Deliveries
              /\ pc[t] \in {"queued", "waiting"} => turnStatus[t] \in {"none", "active"}
              /\ log[t].status = "active" => turnStatus[t] # "none")'
  BY DEF PromiseInv
<1> QED BY <1>2, <1>3 DEF PromiseInv

\* The database executes a call: a begin writes the row its turn waits for.
LEMMA PromiseRun ==
    ASSUME TurnInv, StoreInv, PromiseInv, RunCall
    PROVE  PromiseInv'
<1> DEFINE h == Head(queue)
<1>1. /\ queue \in Seq(GoodCalls) /\ queue # <<>> /\ replies \in Seq(GoodCalls)
      /\ UNCHANGED <<pc, log, sent>>
  BY DEF RunCall, TurnInv, CallsInv, historyVars
<1>2. h \in GoodCalls /\ 1 \in 1 .. Len(queue) /\ h = queue[1]
  BY <1>1
<1>3. PICK ok \in BOOLEAN :
          /\ Execute(h, ok)
          /\ replies' = replies \/ replies' = Append(replies, Answered(h, ok))
  BY DEF RunCall
<1> HIDE DEF h
<1>4. /\ h.turn \in Turns /\ h.status \in Terminal
      /\ h.op = "begin" => pc[h.turn] = "beginning"
      /\ h.op = "finalize" => log[h.turn].fin = "committing"
  BY <1>2 DEF TurnInv, CallsFit, Fits, GoodCalls, Calls
<1>5. /\ turnStatus \in [Turns -> Terminal \cup {"none", "active"}]
      /\ \A u \in Turns : turnStatus[u] # "none" => turnStatus'[u] # "none"
  BY <1>2, <1>3, ExecuteRefines, RowsStay DEF StoreInv, TypeOK
<1>6. ok /\ h.op = "begin" => turnStatus'[h.turn] # "none"
  BY <1>2, <1>3, <1>4, <1>5, ExecutedStatus
<1>7. ASSUME NEW u \in Turns, pc[u] \in {"idle", "queued", "waiting"}
      PROVE  turnStatus'[u] = turnStatus[u]
  <2>1. Control(u)
    BY DEF TurnInv, ControlInv
  <2>2. log[u].status = "none" /\ StageFits(log[u])
    BY <1>7, <2>1 DEF Control, NotBegun, TurnInv, LogsInv
  <2>3. u # h.turn \/ h.op \notin {"begin", "finalize"}
    BY <1>4, <1>7, <2>2 DEF StageFits
  <2> QED BY <1>2, <1>3, <1>4, <1>5, <2>3, ExecutedStatus
<1>8. \A i \in 1 .. Len(replies') :
          \/ \E j \in 1 .. Len(replies) : replies'[i] = replies[j]
          \/ replies'[i] = Answered(h, ok)
  BY <1>1, <1>3
<1>9. Answered(h, ok).op = h.op /\ Answered(h, ok).turn = h.turn /\ Answered(h, ok).ok = ok
  BY <1>2, AnswerOf DEF Answered, GoodCalls, Calls
<1>10. ASSUME NEW i \in 1 .. Len(replies'), replies'[i].op = "begin", replies'[i].ok
       PROVE  turnStatus'[replies'[i].turn] # "none"
  <2>1. CASE replies'[i] = Answered(h, ok)
    BY <1>6, <1>9, <1>10, <2>1
  <2>2. CASE \E j \in 1 .. Len(replies) : replies'[i] = replies[j]
    <3>1. PICK j \in 1 .. Len(replies) : replies'[i] = replies[j]
      BY <2>2
    <3>2. replies[j].turn \in Turns /\ turnStatus[replies[j].turn] # "none"
      BY <1>1, <1>10, <3>1 DEF PromiseInv, GoodCalls, Calls
    <3> QED BY <1>5, <3>1, <3>2
  <2> QED BY <1>8, <2>1, <2>2
<1> QED BY <1>1, <1>5, <1>7, <1>10 DEF PromiseInv

\* The deferred sweep spares what is resumed.
LEMMA PromiseSweep ==
    ASSUME TurnInv, StoreInv, PromiseInv, DeferredSweep
    PROVE  PromiseInv'
<1>1. /\ UNCHANGED <<pc, log, sent, replies>> /\ Sweep(Spared) /\ Deliveries \subseteq Spared
      /\ Spared \in SUBSET Turns
  BY HubAssumption DEF DeferredSweep, Spared, historyVars, dbVars
<1>2. \A u \in Turns : /\ turnStatus[u] # "none" => turnStatus'[u] # "none"
                       /\ turnStatus[u] = "none" => turnStatus'[u] = "none"
                       /\ u \in Deliveries => turnStatus'[u] = turnStatus[u]
  BY <1>1 DEF Sweep, RecoverInterruptedTurns, storeVars
<1>3. \A i \in 1 .. Len(replies) : replies[i].turn \in Turns
  BY DEF TurnInv, CallsInv, GoodCalls, Calls
<1> QED BY <1>1, <1>2, <1>3 DEF PromiseInv

\* After a restart a turn waits for its start when it has no row or is resumed.
LEMMA PromiseRestart ==
    ASSUME PromiseInv, Restart
    PROVE  PromiseInv'
<1>1. /\ Sweep(Deliveries) /\ log' = [t \in Turns |-> NewLog] /\ replies' = <<>> /\ sent' = {}
      /\ pc' = [t \in Turns |-> IF t \in Deliveries \/ turnStatus[t] = "none"
                                THEN "idle" ELSE "over"]
  BY DEF Restart
<1>2. \A u \in Turns : turnStatus[u] = "none" => turnStatus'[u] = "none"
  BY <1>1 DEF Sweep, RecoverInterruptedTurns, storeVars
<1>3. \A u \in Turns : log'[u].status = "none"
  BY <1>1, NewLogFits
<1>4. Len(replies') = 0
  BY <1>1
<1> QED BY <1>1, <1>2, <1>3, <1>4 DEF PromiseInv

\* The answer to a begin: the prompt goes out, or the turn does not stream.
LEMMA PromiseBegun ==
    ASSUME TurnInv, PromiseInv, ReceiveBegin
    PROVE  PromiseInv'
<1> DEFINE t == Head(replies).turn
<1>1. /\ replies \in Seq(GoodCalls) /\ replies # <<>> /\ Head(replies).op = "begin"
      /\ turnStatus' = turnStatus /\ replies' = Tail(replies)
      /\ pc \in [Turns -> Places]
  BY DEF ReceiveBegin, TurnInv, CallsInv, PlaceTypes, storeVars
<1>2. /\ Head(replies) = replies[1] /\ 1 \in 1 .. Len(replies)
      /\ Head(replies) \in GoodCalls
  BY <1>1
<1>3. t \in Turns /\ (Head(replies).ok => turnStatus[t] # "none")
  BY <1>1, <1>2 DEF PromiseInv, GoodCalls, Calls
<1> HIDE DEF t
<1>4. CASE Head(replies).ok
  <2>1. BeginCommitted(t)
    BY <1>4 DEF ReceiveBegin, t
  <2>2. /\ \A u \in Turns \ {t} : log'[u] = log[u]
        /\ \/ pc' = [pc EXCEPT ![t] = "finishing"] /\ sent' = sent
           \/ pc' = [pc EXCEPT ![t] = "streaming"] /\ sent' = sent \cup {t}
    <3>1. \A u \in Turns \ {t} : log'[u] = log[u]
      BY <1>3, <2>1, BegunLog
    <3>2. \/ pc' = [pc EXCEPT ![t] = "finishing"] /\ sent' = sent
          \/ pc' = [pc EXCEPT ![t] = "streaming"] /\ sent' = sent \cup {t}
      BY <2>1 DEF BeginCommitted
    <3> QED BY <3>1, <3>2
  <2> QED BY <1>1, <1>3, <1>4, <2>2, PromisesKept DEF TurnInv, Unsent
<1>5. CASE ~Head(replies).ok
  <2>1. /\ UNCHANGED <<log, sent>>
        /\ \E p \in {"refused", "draining"} : pc' = [pc EXCEPT ![t] = p]
    BY <1>5 DEF ReceiveBegin, BeginFailed, t
  <2> QED BY <1>1, <1>3, <2>1, PromisesKept DEF TurnInv, Unsent
<1> QED BY <1>4, <1>5

LEMMA PromiseStep ==
    ASSUME TurnInv, StoreInv, PromiseInv, [HubNext]_vars
    PROVE  PromiseInv'
<1>1. /\ CallsInv /\ LogsInv /\ pc \in [Turns -> Places]
  BY DEF TurnInv, PlaceTypes
<1>2. CASE RunCall \/ DeferredSweep \/ Restart \/ ReceiveBegin
  BY <1>2, PromiseRun, PromiseSweep, PromiseRestart, PromiseBegun
<1>3. CASE RunDeferred
  <2>1. /\ deferred \in Seq(GoodCalls) /\ deferred # <<>>
        /\ UNCHANGED <<pc, log, sent, replies>>
    BY <1>1, <1>3 DEF RunDeferred, CallsInv, historyVars
  <2>2. Head(deferred) = deferred[1] /\ 1 \in 1 .. Len(deferred) /\ Head(deferred) \in GoodCalls
    BY <2>1
  <2>3. Head(deferred).op = "checkpoint"
    BY <2>2 DEF TurnInv, CallsFit
  <2>4. turnStatus' = turnStatus
    BY <1>3, <2>2, <2>3, ExecutedStatus DEF RunDeferred
  <2> QED BY <1>1, <2>1, <2>4, PromisesKept
<1>4. CASE WorkerReady \/ CheckpointRejected \/ CancelTimeout \/ UNCHANGED vars \/ ReceiveFinalize
  <2>1. /\ UNCHANGED <<pc, sent, turnStatus>>
        /\ replies' = replies \/ (replies # <<>> /\ replies' = Tail(replies))
    BY <1>4 DEF WorkerReady, CheckpointRejected, CancelTimeout, ReceiveFinalize, vars,
                hubVars, storeVars, dbVars, historyVars
  <2>2. \A u \in Turns : log'[u].status = "active" => log[u].status = "active"
    <3>1. CASE WorkerReady \/ CheckpointRejected \/ UNCHANGED vars
      BY <3>1 DEF WorkerReady, CheckpointRejected, vars, hubVars
    <3>2. CASE CancelTimeout
      <4>1. CASE UNCHANGED log
        BY <4>1
      <4>2. CASE ~UNCHANGED log
        <5>1. /\ cancelTimer \in Turns /\ Live(cancelTimer) /\ log[cancelTimer].fin = "none"
              /\ Finish(cancelTimer, "cancelled")
          BY <1>1, <3>2, <4>2 DEF CancelTimeout, CallsInv
        <5> QED BY <5>1, FinishedLog DEF Terminal, Live
      <4> QED BY <4>1, <4>2
    <3>3. CASE ReceiveFinalize
      <4>1. PICK t \in Turns : t = Head(replies).turn
        BY <1>1, <3>3 DEF ReceiveFinalize, CallsInv, GoodCalls, Calls
      <4> QED BY <3>3, <4>1, SettledLog
    <3> QED BY <1>4, <3>1, <3>2, <3>3
  <2> QED BY <1>1, <2>1, <2>2, PromisesKept
<1>5. CASE WorkerDies
  <2>1. /\ UNCHANGED <<pc, log, sent, turnStatus>>
        /\ replies' = [i \in 1 .. Len(replies \o queue) |->
                           Answered((replies \o queue)[i], FALSE)]
        /\ replies \o queue \in Seq(GoodCalls)
    BY <1>1, <1>5 DEF WorkerDies, storeVars, historyVars, CallsInv
  <2>2. \A i \in 1 .. Len(replies') : ~replies'[i].ok
    BY <2>1, AnswerOf DEF Answered, GoodCalls, Calls
  <2> QED BY <2>1, <2>2 DEF PromiseInv
<1>6. ASSUME NEW t \in Turns,
             \/ Emit(t) \/ TitleArrives(t) \/ Steer(t) \/ SteerSettles(t)
             \/ StopActive(t) \/ CancelAnswered(t)
      PROVE  PromiseInv'
  <2>1. SameStages
    BY <1>1, <1>6, StreamStep
  <2>2. UNCHANGED <<pc, sent, turnStatus, replies>>
    BY <1>6 DEF Emit, TitleArrives, Steer, SteerSettles, StopActive, CancelAnswered,
                storeVars, historyVars, dbVars
  <2> QED BY <1>1, <2>1, <2>2, PromisesKept DEF SameStages
<1>7. ASSUME NEW t \in Turns,
             \/ ReserveCancellation(t) \/ ReservationExpires(t) \/ ForceFinished(t)
             \/ Persist(t) \/ Evict(t)
      PROVE  PromiseInv'
  <2>1. UNCHANGED <<pc, sent, turnStatus, replies>>
    BY <1>7 DEF ReserveCancellation, ReservationExpires, ForceFinished, Persist, Evict,
                storeVars, historyVars, dbVars
  <2>2. \A u \in Turns : log'[u].status = "active" => log[u].status = "active"
    <3>1. CASE Persist(t)
      BY <3>1, PersistedLog
    <3>2. CASE Evict(t)
      <4>1. log' = log \/ log' = [log EXCEPT ![t] = NewLog]
        BY <3>2 DEF Evict
      <4> QED BY <1>1, <4>1, NewLogFits DEF CallsInv
    <3>3. CASE ReserveCancellation(t) \/ ReservationExpires(t) \/ ForceFinished(t)
      BY <3>3 DEF ReserveCancellation, ReservationExpires, ForceFinished
    <3> QED BY <1>7, <3>1, <3>2, <3>3
  <2> QED BY <1>1, <2>1, <2>2, PromisesKept
<1>8. ASSUME NEW t \in Turns,
             \/ StartTurn(t) \/ QueueSelfTurn(t) \/ ReachHead(t) \/ BeginSelfTurn(t)
             \/ DrainEnds(t) \/ JoinFinalization(t) \/ LateEvent(t) \/ FinallyBlock(t)
      PROVE  PromiseInv'
  <2>1. /\ UNCHANGED <<log, sent, turnStatus, replies>>
        /\ \A u \in Turns \ {t} : pc'[u] = pc[u]
    BY <1>1, <1>8 DEF StartTurn, QueueSelfTurn, ReachHead, BeginSelfTurn, DrainEnds,
                 JoinFinalization, LateEvent, FinallyBlock, Leave, storeVars, dbVars, historyVars
  <2>2. /\ pc'[t] \in Unsent => pc[t] \in Unsent
        /\ pc'[t] \notin {"streaming", "idle"}
        /\ pc'[t] \in {"queued", "waiting"} =>
               \/ pc[t] \in {"queued", "waiting"}
               \/ pc[t] = "idle" /\ turnStatus[t] \in {"none", "active"}
    BY <1>1, <1>8 DEF StartTurn, QueueSelfTurn, ReachHead, BeginSelfTurn, DrainEnds,
                 JoinFinalization, LateEvent, FinallyBlock, Leave, Unsent
  <2> QED BY <1>1, <2>1, <2>2, PromisesKept
<1>9. ASSUME NEW t \in Turns,
             (\E s \in EndReasons : EndTurn(t, s)) \/ (\E r \in BOOLEAN : FailTurn(t, r))
      PROVE  PromiseInv'
  <2>1. /\ UNCHANGED <<sent, turnStatus, replies>> /\ log[t].status = "active"
        /\ pc' = [pc EXCEPT ![t] = "finishing"]
    BY <1>9 DEF EndTurn, FailTurn, Live, storeVars, dbVars, historyVars
  <2>2. \A u \in Turns \ {t} : log'[u] = log[u]
    BY <1>1, <1>9 DEF EndTurn, FailTurn, Finish, CallsInv
  <2> QED BY <1>1, <2>1, <2>2, PromisesKept DEF Unsent
<1> QED BY <1>2, <1>3, <1>4, <1>5, <1>6, <1>7, <1>8, <1>9
        DEF HubNext, Backend, Client, Runtime, Faults, Microtask

LEMMA PromiseInit == HubInit => PromiseInv
<1> SUFFICES ASSUME HubInit
             PROVE  PromiseInv
  OBVIOUS
<1>1. /\ pc = [t \in Turns |-> "idle"] /\ log = [t \in Turns |-> NewLog] /\ replies = <<>>
      /\ sent = {} /\ turnStatus = [t \in Turns |-> "none"]
  BY DEF HubInit, Init
<1>2. (\A t \in Turns : log[t].status = "none") /\ Len(replies) = 0
  BY <1>1, NewLogFits
<1> QED BY <1>1, <1>2 DEF PromiseInv

(***************************************************************************)
(* The actions of the service, as the hub's state shows them.              *)
(***************************************************************************)
SameAsked == \A u \in Turns : Asked(u)' <=> Asked(u)
SameRunning == \A u \in Turns : Running(u)' <=> Running(u)
SameJudged == \A u \in Turns : Judged(u)' = Judged(u)
SameRows == UNCHANGED <<turnStatus, sent, told>>

ServiceStep == [Service!ServiceNext]_(Service!serviceVars)

LEMMA Unseen == SameAsked /\ SameRunning /\ SameJudged /\ SameRows => ServiceStep
BY DEF SameAsked, SameRunning, SameJudged, SameRows, Asked, Judged, ServiceStep,
       Service!serviceVars

LEMMA SeenOpen ==
    ASSUME NEW t \in Turns, \A u \in Turns : ~Running(u), t \notin sent,
           turnStatus[t] = "none" \/ (turnStatus[t] = "active" /\ t \in Deliveries),
           \A u \in Turns : Running(u)' <=> u = t,
           SameAsked, SameJudged, SameRows
    PROVE  ServiceStep
<1>1. Service!Open(t)
  BY DEF SameAsked, SameJudged, SameRows, Asked, Judged, Service!Open
<1> QED BY <1>1 DEF ServiceStep, Service!ServiceNext

LEMMA SeenAsk ==
    ASSUME NEW t \in Turns, Asked(t)', \A u \in Turns \ {t} : Asked(u)' <=> Asked(u),
           SameRunning, SameJudged, SameRows
    PROVE  ServiceStep
<1>1. Service!Ask(t)
  BY DEF SameRunning, SameJudged, SameRows, Asked, Judged, Service!Ask
<1> QED BY <1>1 DEF ServiceStep, Service!ServiceNext

LEMMA SeenJudge ==
    ASSUME NEW t \in Turns, NEW s \in Terminal, Running(t), Judged(t) = "none",
           IF s = "cancelled" THEN Asked(t) ELSE t \in sent,
           Judged(t)' = s, \A u \in Turns \ {t} : Judged(u)' = Judged(u),
           SameAsked, SameRunning, SameRows
    PROVE  ServiceStep
<1>1. Service!Judge(t, s)
  BY DEF SameAsked, SameRunning, SameRows, Asked, Judged, Service!Judge
<1>2. s \in Service!Outcomes
  BY DEF Terminal, Service!Outcomes
<1> QED BY <1>1, <1>2 DEF ServiceStep, Service!ServiceNext

LEMMA SeenQuit ==
    ASSUME NEW t \in Turns, Running(t), t \in sent, Judged(t) = "none", Asked(t)',
           Judged(t)' = "cancelled", \A u \in Turns \ {t} : Judged(u)' = Judged(u),
           \A u \in Turns \ {t} : Asked(u)' <=> Asked(u), SameRunning, SameRows
    PROVE  ServiceStep
<1>1. Service!Quit(t)
  BY DEF SameRunning, SameRows, Asked, Judged, Service!Quit
<1> QED BY <1>1 DEF ServiceStep, Service!ServiceNext

LEMMA SeenEnd ==
    ASSUME NEW t \in Turns, Running(t), ~Running(t)', Judged(t)' = "none",
           \A u \in Turns \ {t} : /\ Running(u)' <=> Running(u)
                                  /\ Judged(u)' = Judged(u),
           \/ told' = told
           \/ turnStatus[t] = Judged(t) /\ told' = [told EXCEPT ![t] = turnStatus[t]],
           UNCHANGED <<turnStatus, sent>>, SameAsked
    PROVE  ServiceStep
<1> DEFINE J == [u \in Turns |-> Judged(u)]
<1>1. {u \in Turns : Running(u)}' = {u \in Turns : Running(u)} \ {t}
  OBVIOUS
<1>2. J' = [J EXCEPT ![t] = "none"]
  OBVIOUS
<1>3. told' = told \/ (turnStatus[t] = J[t] /\ told' = [told EXCEPT ![t] = turnStatus[t]])
  OBVIOUS
<1>4. {u \in Turns : Asked(u)}' = {u \in Turns : Asked(u)}
  BY DEF SameAsked
<1>5. Service!End(t)
  BY <1>1, <1>2, <1>3, <1>4, Zenon DEF Asked, Judged, Service!End
<1> QED BY <1>5 DEF ServiceStep, Service!ServiceNext

\* Stages that stay, and nobody begins: the service sees the same turns.
LEMMA SameLooks ==
    ASSUME SameStages, \A u \in Turns : pc'[u] = "beginning" <=> pc[u] = "beginning"
    PROVE  SameRunning /\ SameJudged
BY DEF SameStages, SameRunning, SameJudged, Running, Judged

\* A transaction begins the turn that waits for its row, records the judgement
\* of a turn that runs, or is not seen.
LEMMA ServiceRun ==
    ASSUME TurnInv, PromiseInv, RunCall
    PROVE  ServiceStep
<1> DEFINE h == Head(queue)
<1>1. /\ queue \in Seq(GoodCalls) /\ queue # <<>>
      /\ UNCHANGED <<pc, log, sent, told, stops, quit>>
  BY DEF RunCall, TurnInv, CallsInv, historyVars, stopVars
<1>2. h \in GoodCalls /\ 1 \in 1 .. Len(queue) /\ h = queue[1]
  BY <1>1
<1>3. PICK ok \in BOOLEAN : Execute(h, ok)
  BY DEF RunCall
<1> HIDE DEF h
<1>4. PICK t \in Turns : t = h.turn
  BY <1>2 DEF GoodCalls, Calls
<1>5. SameRunning /\ SameJudged /\ SameAsked
  BY <1>1 DEF SameRunning, SameJudged, SameAsked, Running, Judged, Asked
<1>6. CASE turnStatus' = turnStatus
  BY <1>1, <1>5, <1>6, Unseen DEF SameRows
<1>7. CASE h.op = "begin" /\ turnStatus[t] = "none"
           /\ turnStatus' = [turnStatus EXCEPT ![t] = "active"]
  <2>1. Running(t) /\ t \notin sent
    BY <1>2, <1>4, <1>7 DEF TurnInv, CallsFit, Fits, Running, PromiseInv, Unsent
  <2>2. Service!Begin(t)
    BY <1>1, <1>5, <1>7, <2>1 DEF SameRunning, SameJudged, SameAsked, Asked, Judged,
                                  Service!Begin
  <2> QED BY <2>2 DEF ServiceStep, Service!ServiceNext
<1>8. CASE h.op = "finalize" /\ turnStatus[t] = "active"
           /\ turnStatus' = [turnStatus EXCEPT ![t] = h.status]
  <2>1. log[t].fin = "committing" /\ h.status = log[t].outcome
    BY <1>2, <1>4, <1>8 DEF TurnInv, CallsFit, Fits
  <2>2. log[t].status = "active"
    BY <2>1 DEF TurnInv, LogsInv, StageFits, CallsInv, GoodLogs, LogShape
  <2>3. Running(t) /\ Judged(t) = h.status /\ h.status # "none"
    BY <1>2, <2>1, <2>2 DEF Running, Judged, GoodCalls, Calls, Terminal
  <2>4. Service!Record(t)
    BY <1>1, <1>5, <1>8, <2>3 DEF SameRunning, SameJudged, SameAsked, Asked, Judged,
                                  Service!Record
  <2> QED BY <2>4 DEF ServiceStep, Service!ServiceNext
<1> QED BY <1>2, <1>3, <1>4, <1>6, <1>7, <1>8, ExecutedStatus

\* The answer to a begin: the prompt goes out, the turn is judged as cancelled
\* since a Stop came first, or it ends untold.
LEMMA ServiceBegun ==
    ASSUME TurnInv, AskedInv, PromiseInv, ReceiveBegin
    PROVE  ServiceStep
<1>0. PICK t \in Turns : t = Head(replies).turn
  BY DEF ReceiveBegin, TurnInv, CallsInv, GoodCalls, Calls
<1>1. /\ replies \in Seq(GoodCalls) /\ replies # <<>> /\ Head(replies).op = "begin"
      /\ UNCHANGED <<turnStatus, told, stops, quit>>
      /\ pc \in [Turns -> Places] /\ SameAsked
  BY DEF ReceiveBegin, TurnInv, CallsInv, PlaceTypes, storeVars, stopVars, SameAsked, Asked
<1>2. /\ Head(replies) = replies[1] /\ 1 \in 1 .. Len(replies)
      /\ Head(replies) \in GoodCalls
  BY <1>1
<1>3. /\ t \in Turns /\ pc[t] = "beginning"
      /\ Head(replies).ok => turnStatus[t] # "none"
  BY <1>0, <1>1, <1>2 DEF PromiseInv, TurnInv, CallsFit, Fits, GoodCalls, Calls
<1>4. BeginCommitted(t) \/ BeginFailed(t)
  BY <1>0 DEF ReceiveBegin
<1>5. BeginCommitted(t) => Head(replies).ok
  <2>1. ASSUME ~Head(replies).ok
        PROVE  ~BeginCommitted(t)
    BY <1>0, <1>1, <1>3, <2>1 DEF ReceiveBegin, BeginFailed, BeginCommitted, Places
  <2> QED BY <2>1
<1>6. log[t].status = "none" /\ Running(t) /\ Judged(t) = "none" /\ t \notin sent
  <2>1. Control(t)
    BY <1>3 DEF TurnInv, ControlInv
  <2> QED BY <1>3, <2>1 DEF Control, NotBegun, Running, Judged, PromiseInv, Unsent
<1>7. ASSUME \A u \in Turns \ {t} : log'[u] = log[u] /\ pc'[u] = pc[u]
      PROVE  \A u \in Turns \ {t} : /\ Running(u)' <=> Running(u)
                                    /\ Judged(u)' = Judged(u)
  BY <1>7 DEF Running, Judged
<1>8. CASE BeginCommitted(t)
  <2>1. /\ \A u \in Turns \ {t} : log'[u] = log[u]
        /\ log'[t].status = "active"
        /\ \/ /\ StopPending(t) /\ pc' = [pc EXCEPT ![t] = "finishing"]
              /\ log'[t].fin = "requested" /\ log'[t].outcome = "cancelled"
           \/ /\ ~StopPending(t) /\ pc' = [pc EXCEPT ![t] = "streaming"]
              /\ log'[t].fin = "none"
    BY <1>3, <1>8, BegunLog
  <2>2. \A u \in Turns \ {t} : pc'[u] = pc[u]
    BY <1>1, <2>1
  <2>3. SameRunning
    BY <1>6, <1>7, <2>1, <2>2 DEF SameRunning, Running
  <2>4. CASE StopPending(t)
    <3>1. Judged(t)' = "cancelled" /\ sent' = sent /\ Asked(t)
      BY <1>3, <1>8, <2>1, <2>4 DEF Judged, BeginCommitted, AskedInv, Asked, StopPending
    <3> QED BY <1>1, <1>3, <1>6, <1>7, <2>1, <2>2, <2>3, <3>1, SeenJudge
            DEF SameRows, Terminal
  <2>5. CASE ~StopPending(t)
    <3>1. Judged(t)' = "none" /\ sent' = sent \cup {t}
      BY <1>8, <2>1, <2>5 DEF Judged, BeginCommitted
    <3>2. SameJudged
      BY <1>6, <1>7, <2>1, <2>2, <3>1 DEF SameJudged
    <3>3. turnStatus[t] # "none"
      BY <1>3, <1>5, <1>8
    <3>4. Service!Send(t)
      BY <1>1, <1>3, <1>6, <2>3, <3>1, <3>2, <3>3
         DEF SameRunning, SameJudged, SameAsked, Asked, Judged, Service!Send
    <3> QED BY <1>3, <3>4 DEF ServiceStep, Service!ServiceNext
  <2> QED BY <2>4, <2>5
<1>9. CASE BeginFailed(t)
  <2>1. /\ UNCHANGED <<log, sent>>
        /\ \E p \in {"refused", "draining"} : pc' = [pc EXCEPT ![t] = p]
    BY <1>9 DEF BeginFailed
  <2>2. ~Running(t)' /\ Judged(t)' = "none" /\ \A u \in Turns \ {t} : pc'[u] = pc[u]
    BY <1>1, <1>3, <1>6, <2>1 DEF Running, Judged
  <2> QED BY <1>1, <1>3, <1>6, <1>7, <2>1, <2>2, SeenEnd
<1> QED BY <1>4, <1>8, <1>9

\* The answer to a finalization ends the turn; it is told only when the answer
\* is what the row says.
LEMMA ServiceSettled ==
    ASSUME TurnInv, DurableInv, ReceiveFinalize
    PROVE  ServiceStep
<1>1. PICK t \in Turns : t = Head(replies).turn
  BY DEF ReceiveFinalize, TurnInv, CallsInv, GoodCalls, Calls
<1>2. /\ log[t].fin = "committing" /\ log[t].status = "active"
      /\ log[t].outcome = Head(replies).status
      /\ 1 \in 1 .. Len(replies) /\ Head(replies) = replies[1]
  BY <1>1, FinalizeAwaited
<1>3. /\ \A u \in Turns \ {t} : log'[u] = log[u]
      /\ log'[t].status \in {"ended", "error"}
  BY <1>1, SettledLog
<1>4. UNCHANGED <<pc, turnStatus, sent, stops, quit>> /\ Head(replies).op = "finalize"
  BY DEF ReceiveFinalize, storeVars, stopVars
<1>5. pc[t] # "beginning"
  BY <1>2 DEF TurnInv, ControlInv, Control, NotBegun
<1>6. Running(t) /\ Judged(t) = log[t].outcome /\ ~Running(t)' /\ Judged(t)' = "none"
  BY <1>2, <1>3, <1>4, <1>5 DEF Running, Judged
<1>7. \A u \in Turns \ {t} : (Running(u)' <=> Running(u)) /\ Judged(u)' = Judged(u)
  BY <1>3, <1>4 DEF Running, Judged
<1>8. \/ told' = told
      \/ turnStatus[t] = Judged(t) /\ told' = [told EXCEPT ![t] = turnStatus[t]]
  <2>1. CASE Head(replies).ok
    <3>1. turnStatus[t] = log[t].outcome
      BY <1>1, <1>2, <1>4, <2>1 DEF DurableInv
    <3>2. told' = [told EXCEPT ![t] = log[t].outcome]
      BY <1>1, <2>1 DEF ReceiveFinalize, FinalizeCommitted
    <3> QED BY <1>6, <3>1, <3>2
  <2>2. CASE ~Head(replies).ok
    BY <2>2 DEF ReceiveFinalize, FinalizeFailed
  <2> QED BY <2>1, <2>2
<1>9. SameAsked
  BY <1>4 DEF SameAsked, Asked
<1> QED BY <1>4, <1>6, <1>7, <1>8, <1>9, SeenEnd

\* A turn opens when nobody else runs, and only one that is new or resumed.
LEMMA ServiceOpen ==
    ASSUME TurnInv, PromiseInv, NEW t \in Turns, StartTurn(t) \/ BeginSelfTurn(t)
    PROVE  ServiceStep
<1>1. /\ UNCHANGED <<log, turnStatus, sent, told, stops, quit>>
      /\ pc[t] \in {"idle", "waiting"}
      /\ turnStatus[t] = "none" \/ (turnStatus[t] = "active" /\ t \in Deliveries)
      /\ pc' = [pc EXCEPT ![t] = "refused"] \/ pc' = [pc EXCEPT ![t] = "beginning"]
      /\ pc \in [Turns -> Places]
  BY DEF StartTurn, BeginSelfTurn, storeVars, stopVars, historyVars, TurnInv, PlaceTypes,
         PromiseInv
<1>2. \A u \in Turns : ~Running(u)
  <2>1. StartTurn(t) => \A u \in Turns : ~Running(u)
    BY FreeChat DEF StartTurn
  <2>2. BeginSelfTurn(t) => \A u \in Turns : ~Running(u)
    BY NoneUnderWay
  <2> QED BY <2>1, <2>2
<1>3. SameJudged /\ SameAsked /\ SameRows
  BY <1>1 DEF SameJudged, SameAsked, SameRows, Judged, Asked
<1>4. CASE pc' = [pc EXCEPT ![t] = "refused"]
  <2>1. SameRunning
    BY <1>1, <1>4 DEF SameRunning, Running
  <2> QED BY <1>3, <2>1, Unseen
<1>5. CASE pc' = [pc EXCEPT ![t] = "beginning"]
  <2>1. \A u \in Turns : Running(u)' <=> u = t
    BY <1>1, <1>2, <1>5 DEF Running
  <2>2. t \notin sent
    BY <1>1 DEF PromiseInv, Unsent
  <2> QED BY <1>1, <1>2, <1>3, <2>1, <2>2, SeenOpen
<1> QED BY <1>1, <1>4, <1>5

\* How a turn ends is judged once, by its loop or by the timer of its Stop.
LEMMA ServiceJudged ==
    ASSUME TurnInv, AskedInv, PromiseInv, NEW t \in Turns,
           \/ \E s \in EndReasons : EndTurn(t, s)
           \/ \E r \in BOOLEAN : FailTurn(t, r)
           \/ CancelTimeout /\ t = cancelTimer /\ Live(t) /\ log[t].fin = "none"
    PROVE  ServiceStep
<1>1. /\ Live(t) /\ log[t].fin = "none" /\ log[t].status = "active"
      /\ UNCHANGED <<turnStatus, told, sent, stops>>
      /\ pc \in [Turns -> Places]
  BY DEF EndTurn, FailTurn, CancelTimeout, Live, storeVars, stopVars, historyVars,
         TurnInv, PlaceTypes
<1>2. StopPending(t) \/ t = cancelTimer => Asked(t)
  BY DEF AskedInv, Asked, StopPending
<1>3. \E s \in Terminal :
          /\ Finish(t, s)
          /\ \/ quit' = quit /\ (IF s = "cancelled" THEN Asked(t) ELSE pc[t] = "streaming")
             \/ quit' = quit \cup {t} /\ s = "cancelled" /\ pc[t] = "streaming"
  <2>1. CASE CancelTimeout /\ t = cancelTimer
    <3>1. Finish(t, "cancelled") /\ quit' = quit
      BY <1>1, <2>1 DEF CancelTimeout, historyVars
    <3> QED BY <1>2, <2>1, <3>1 DEF Terminal
  <2>2. ASSUME NEW r \in BOOLEAN, FailTurn(t, r)
        PROVE  \E s \in Terminal :
                   /\ Finish(t, s) /\ quit' = quit
                   /\ IF s = "cancelled" THEN Asked(t) ELSE pc[t] = "streaming"
    <3> DEFINE s == IF StopPending(t) /\ ~r THEN "cancelled" ELSE "error"
    <3>1. Finish(t, s) /\ quit' = quit /\ pc[t] = "streaming"
      BY <2>2 DEF FailTurn, historyVars
    <3>2. s \in Terminal /\ (s = "cancelled" => Asked(t))
      BY <1>2 DEF Terminal
    <3> QED BY <3>1, <3>2
  <2>3. ASSUME NEW r \in EndReasons, EndTurn(t, r)
        PROVE  \E s \in Terminal :
                   /\ Finish(t, s)
                   /\ \/ quit' = quit
                         /\ (IF s = "cancelled" THEN Asked(t) ELSE pc[t] = "streaming")
                      \/ quit' = quit \cup {t} /\ s = "cancelled" /\ pc[t] = "streaming"
    <3> DEFINE s == IF StopPending(t) THEN "cancelled" ELSE r
    <3>1. /\ Finish(t, s) /\ pc[t] = "streaming"
          /\ quit' = IF r = "cancelled" THEN quit \cup {t} ELSE quit
      BY <2>3 DEF EndTurn
    <3>2. s \in Terminal /\ r \in {"completed", "cancelled"}
      BY HubAssumption DEF Terminal
    <3>3. CASE r = "cancelled"
      BY <3>1, <3>2, <3>3
    <3>4. CASE r # "cancelled"
      BY <1>2, <3>1, <3>2, <3>4
    <3> QED BY <3>3, <3>4
  <2> QED BY <2>1, <2>2, <2>3
<1>4. PICK s \in Terminal :
          /\ Finish(t, s)
          /\ \/ quit' = quit /\ (IF s = "cancelled" THEN Asked(t) ELSE pc[t] = "streaming")
             \/ quit' = quit \cup {t} /\ s = "cancelled" /\ pc[t] = "streaming"
  BY <1>3
<1>5. /\ \A u \in Turns \ {t} : log'[u] = log[u]
      /\ log'[t].status = "active" /\ log'[t].fin = "requested" /\ log'[t].outcome = s
  BY <1>1, <1>4, FinishedLog
<1>6. Running(t) /\ Judged(t) = "none" /\ Judged(t)' = s
      /\ \A u \in Turns \ {t} : Judged(u)' = Judged(u)
  BY <1>1, <1>5 DEF Running, Judged
<1>7. \A u \in Turns : pc'[u] = "beginning" <=> pc[u] = "beginning"
  <2>1. pc' = pc \/ (pc[t] = "streaming" /\ pc' = [pc EXCEPT ![t] = "finishing"])
    BY DEF EndTurn, FailTurn, CancelTimeout
  <2> QED BY <1>1, <2>1
<1>8. SameRunning /\ SameRows
  BY <1>1, <1>5, <1>7 DEF SameRunning, SameRows, Running
<1>9. pc[t] = "streaming" => t \in sent
  BY DEF PromiseInv
<1>10. CASE quit' = quit /\ (IF s = "cancelled" THEN Asked(t) ELSE pc[t] = "streaming")
  <2>1. SameAsked
    BY <1>1, <1>10 DEF SameAsked, Asked
  <2>2. IF s = "cancelled" THEN Asked(t) ELSE t \in sent
    BY <1>9, <1>10
  <2> QED BY <1>6, <1>8, <2>1, <2>2, SeenJudge
<1>11. CASE quit' = quit \cup {t} /\ s = "cancelled" /\ pc[t] = "streaming"
  <2>1. Asked(t)' /\ \A u \in Turns \ {t} : Asked(u)' <=> Asked(u)
    BY <1>1, <1>11 DEF Asked
  <2> QED BY <1>6, <1>8, <1>9, <1>11, <2>1, SeenQuit
<1> QED BY <1>4, <1>10, <1>11

\* A Stop asks for the turn it names.
LEMMA ServiceAsked ==
    ASSUME TurnInv, AskedInv, NEW t \in Turns, StopActive(t) \/ ReserveCancellation(t)
    PROVE  ServiceStep
<1>1. /\ UNCHANGED <<pc, turnStatus, sent, told, quit>>
      /\ stops' = [stops EXCEPT ![t] = stops[t] + 1] /\ stops \in [Turns -> Nat]
  BY DEF StopActive, ReserveCancellation, storeVars, historyVars, AskedInv
<1>2. SameStages
  <2>1. CASE StopActive(t)
    BY <2>1, StreamStep DEF TurnInv
  <2>2. CASE ReserveCancellation(t)
    BY <2>2, LogsLeft DEF ReserveCancellation, TurnInv
  <2> QED BY <2>1, <2>2
<1>3. Asked(t)' /\ \A u \in Turns \ {t} : Asked(u)' <=> Asked(u)
  BY <1>1 DEF Asked
<1> QED BY <1>1, <1>2, <1>3, SameLooks, SeenAsk DEF SameRows

\* The deferred sweep ends what nobody runs, or a turn whose begin is not
\* answered yet.
LEMMA ServiceSwept ==
    ASSUME TurnInv, PromiseInv, DeferredSweep
    PROVE  ServiceStep
<1> DEFINE S == {u \in Turns : turnStatus[u] = "active"} \ Spared
<1>1. UNCHANGED <<pc, log, sent, told, stops, quit>> /\ Sweep(Spared)
  BY DEF DeferredSweep, stopVars, historyVars
<1>2. SameRunning /\ SameJudged /\ SameAsked
  BY <1>1 DEF SameRunning, SameJudged, SameAsked, Running, Judged, Asked
<1>3. CASE turnStatus' = turnStatus
  BY <1>1, <1>2, <1>3, Unseen DEF SameRows
<1>4. CASE turnStatus' = [u \in Turns |-> IF u \in S THEN "error" ELSE turnStatus[u]]
  <2>1. ASSUME NEW u \in S
        PROVE  /\ turnStatus[u] = "active" /\ u \notin Deliveries
               /\ Running(u) => u \notin sent /\ Judged(u) = "none"
    <3>1. log[u].status # "active"
      BY DEF Spared, TurnInv, ControlInv, Control
    <3> QED BY <3>1 DEF Spared, Running, Judged, PromiseInv, Unsent
  <2>2. S \in SUBSET Turns
    OBVIOUS
  <2> HIDE DEF S
  <2>3. Service!Abandon(S)
    BY <1>1, <1>2, <1>4, <2>1, <2>2 DEF SameRunning, SameJudged, SameAsked, Asked, Judged,
                                       Service!Abandon
  <2> QED BY <2>2, <2>3 DEF ServiceStep, Service!ServiceNext
<1> QED BY <1>1, <1>3, <1>4 DEF Sweep, RecoverInterruptedTurns, storeVars

\* A crash leaves nothing running, and no turn active that is not resumed.
LEMMA ServiceCrash ==
    ASSUME StoreInv, AskedInv, Restart
    PROVE  ServiceStep
<1>1. /\ UNCHANGED <<told, stops, quit>> /\ Sweep(Deliveries) /\ sent' = {}
      /\ log' = [u \in Turns |-> NewLog]
      /\ pc' = [u \in Turns |-> IF u \in Deliveries \/ turnStatus[u] = "none"
                                THEN "idle" ELSE "over"]
  BY DEF Restart
<1>2. \A u \in Turns : ~Running(u)' /\ Judged(u)' = "none" /\ (Asked(u)' <=> Asked(u))
  BY <1>1, NewLogFits DEF Running, Judged, Asked
<1>3. turnStatus' = [u \in Turns |-> IF turnStatus[u] = "active" /\ u \notin Deliveries
                                     THEN "error" ELSE turnStatus[u]]
  <2>1. turnStatus \in [Turns -> Terminal \cup {"none", "active"}]
    BY DEF StoreInv, TypeOK
  <2>2. CASE RecoverInterruptedTurns(Deliveries)
    BY <2>2 DEF RecoverInterruptedTurns
  <2>3. CASE (\A u \in Turns \ Deliveries : turnStatus[u] # "active") /\ UNCHANGED storeVars
    BY <2>1, <2>3 DEF storeVars
  <2> QED BY <1>1, <2>2, <2>3 DEF Sweep
<1>4. Service!Crash
  BY <1>1, <1>2, <1>3 DEF Asked, Judged, Service!Crash, Service!Nothing
<1> QED BY <1>4 DEF ServiceStep, Service!ServiceNext

\* The other steps are not seen.
LEMMA ServiceBeside ==
    ASSUME TurnInv,
           \/ WorkerReady \/ CheckpointRejected \/ WorkerDies \/ RunDeferred \/ UNCHANGED vars
           \/ CancelTimeout /\ UNCHANGED log
           \/ \E t \in Turns :
                  \/ Emit(t) \/ TitleArrives(t) \/ Steer(t) \/ SteerSettles(t)
                  \/ CancelAnswered(t) \/ ReservationExpires(t) \/ ForceFinished(t)
                  \/ Persist(t) \/ Evict(t) \/ QueueSelfTurn(t) \/ ReachHead(t)
                  \/ DrainEnds(t) \/ JoinFinalization(t) \/ LateEvent(t) \/ FinallyBlock(t)
    PROVE  ServiceStep
<1>1. /\ CallsInv /\ LogsInv /\ pc \in [Turns -> Places]
  BY DEF TurnInv, PlaceTypes
<1>2. CASE WorkerReady \/ CheckpointRejected \/ WorkerDies \/ UNCHANGED vars
           \/ (CancelTimeout /\ UNCHANGED log)
  <2>1. UNCHANGED <<pc, log, turnStatus, sent, told, stops, quit>>
    BY <1>2 DEF WorkerReady, CheckpointRejected, WorkerDies, CancelTimeout, vars, hubVars,
                storeVars, stopVars, historyVars
  <2> QED BY <2>1, Unseen DEF SameRunning, SameJudged, SameAsked, SameRows, Running, Judged, Asked
<1>3. CASE RunDeferred
  <2>1. /\ deferred \in Seq(GoodCalls) /\ deferred # <<>>
        /\ UNCHANGED <<pc, log, sent, told, stops, quit>>
    BY <1>1, <1>3 DEF RunDeferred, CallsInv, stopVars, historyVars
  <2>2. Head(deferred) = deferred[1] /\ 1 \in 1 .. Len(deferred) /\ Head(deferred) \in GoodCalls
    BY <2>1
  <2>3. Head(deferred).op = "checkpoint"
    BY <2>2 DEF TurnInv, CallsFit
  <2>4. turnStatus' = turnStatus
    BY <1>3, <2>2, <2>3, ExecutedStatus DEF RunDeferred
  <2> QED BY <2>1, <2>4, Unseen
          DEF SameRunning, SameJudged, SameAsked, SameRows, Running, Judged, Asked
<1>4. ASSUME NEW t \in Turns,
             \/ Emit(t) \/ TitleArrives(t) \/ Steer(t) \/ SteerSettles(t) \/ CancelAnswered(t)
             \/ ReservationExpires(t) \/ ForceFinished(t)
      PROVE  ServiceStep
  <2>1. SameStages
    <3>1. CASE Emit(t) \/ TitleArrives(t) \/ Steer(t) \/ SteerSettles(t) \/ CancelAnswered(t)
      BY <1>1, <3>1, StreamStep
    <3>2. CASE ReservationExpires(t) \/ ForceFinished(t)
      BY <1>1, <3>2, LogsLeft DEF ReservationExpires, ForceFinished
    <3> QED BY <1>4, <3>1, <3>2
  <2>2. UNCHANGED <<pc, turnStatus, sent, told, stops, quit>>
    BY <1>4 DEF Emit, TitleArrives, Steer, SteerSettles, CancelAnswered, ReservationExpires,
                ForceFinished, storeVars, stopVars, historyVars
  <2> QED BY <2>1, <2>2, SameLooks, Unseen DEF SameAsked, SameRows, Asked
<1>5. ASSUME NEW t \in Turns, Persist(t)
      PROVE  ServiceStep
  <2>1. UNCHANGED <<pc, turnStatus, sent, told, stops, quit>> /\ log[t].fin = "requested"
    BY <1>5 DEF Persist, storeVars, stopVars, historyVars
  <2>2. /\ \A u \in Turns \ {t} : log'[u] = log[u]
        /\ log[t].status = "active" /\ log'[t].status = "active"
        /\ log'[t].fin = "committing" /\ log'[t].outcome = log[t].outcome
    BY <1>5, PersistedLog
  <2> QED BY <2>1, <2>2, Unseen
          DEF SameRunning, SameJudged, SameAsked, SameRows, Running, Judged, Asked
<1>6. ASSUME NEW t \in Turns, Evict(t)
      PROVE  ServiceStep
  <2>1. /\ UNCHANGED <<pc, turnStatus, sent, told, stops, quit>> /\ t \in retained
        /\ log' = log \/ log' = [log EXCEPT ![t] = NewLog]
    BY <1>6 DEF Evict, storeVars, stopVars, historyVars
  <2>2. log[t].status # "active"
    BY <2>1 DEF TurnInv, ControlInv, Control
  <2>3. /\ \A u \in Turns \ {t} : log'[u] = log[u]
        /\ log'[t].status # "active"
    BY <1>1, <2>1, <2>2, NewLogFits DEF CallsInv
  <2> QED BY <2>1, <2>2, <2>3, Unseen
          DEF SameRunning, SameJudged, SameAsked, SameRows, Running, Judged, Asked
<1>7. ASSUME NEW t \in Turns,
             \/ QueueSelfTurn(t) \/ ReachHead(t) \/ DrainEnds(t) \/ JoinFinalization(t)
             \/ LateEvent(t) \/ FinallyBlock(t)
      PROVE  ServiceStep
  <2>1. UNCHANGED <<log, turnStatus, sent, told, stops, quit>>
    BY <1>7 DEF QueueSelfTurn, ReachHead, DrainEnds, JoinFinalization, LateEvent, FinallyBlock,
                storeVars, stopVars, historyVars
  <2>2. \A u \in Turns : pc'[u] = "beginning" <=> pc[u] = "beginning"
    BY <1>1, <1>7 DEF QueueSelfTurn, ReachHead, DrainEnds, JoinFinalization, LateEvent,
                FinallyBlock, Leave
  <2> QED BY <2>1, <2>2, Unseen
          DEF SameRunning, SameJudged, SameAsked, SameRows, Running, Judged, Asked
<1> QED BY <1>2, <1>3, <1>4, <1>5, <1>6, <1>7

LEMMA KeepsPromise ==
    ASSUME TurnInv, StoreInv, AskedInv, DurableInv, PromiseInv, [HubNext]_vars
    PROVE  ServiceStep
<1>1. CASE CancelTimeout
  <2>1. CASE UNCHANGED log
    BY <1>1, <2>1, ServiceBeside
  <2>2. CASE ~UNCHANGED log
    <3>1. cancelTimer \in Turns /\ Live(cancelTimer) /\ log[cancelTimer].fin = "none"
      BY <1>1, <2>2 DEF CancelTimeout, TurnInv, CallsInv
    <3> QED BY <1>1, <3>1, ServiceJudged
  <2> QED BY <2>1, <2>2
<1>2. CASE RunCall \/ ReceiveBegin \/ ReceiveFinalize \/ DeferredSweep \/ Restart
  BY <1>2, ServiceRun, ServiceBegun, ServiceSettled, ServiceSwept, ServiceCrash
<1>3. ASSUME NEW t \in Turns,
             \/ StartTurn(t) \/ BeginSelfTurn(t) \/ StopActive(t) \/ ReserveCancellation(t)
             \/ (\E s \in EndReasons : EndTurn(t, s)) \/ (\E r \in BOOLEAN : FailTurn(t, r))
      PROVE  ServiceStep
  BY <1>3, ServiceOpen, ServiceAsked, ServiceJudged
<1> QED BY <1>1, <1>2, <1>3, ServiceBeside
        DEF HubNext, Backend, Client, Runtime, Faults, Microtask

(***************************************************************************)
(* For any number of turns, Stops, failing transactions, worker deaths and *)
(* crashes the chat is a TurnService: calls that are decided in one state  *)
(* and executed in another, answered late, lost after their commit or      *)
(* overtaken by a sweep never start a turn beside another, send a prompt   *)
(* twice or before its row, record an outcome that was not judged, or tell *)
(* one that is not on disk.                                                *)
(***************************************************************************)
THEOREM HubKeepsPromises == HubSpec => HubImplementsService
<1>1. HubInit => Service!ServiceInit
  <2> SUFFICES ASSUME HubInit
               PROVE  Service!ServiceInit
    OBVIOUS
  <2>1. \A t \in Turns : pc[t] = "idle" /\ log[t] = NewLog
    BY DEF HubInit
  <2>2. \A t \in Turns : ~Running(t) /\ log[t].status # "active"
    BY <2>1, NewLogFits DEF Running
  <2>3. \A t \in Turns : ~(stops[t] > 0) /\ t \notin quit
    <3>1. \A t \in Turns : stops[t] = 0 /\ t \notin quit
      BY DEF HubInit
    <3>2. ~(0 > 0)
      OBVIOUS
    <3> QED BY <3>1, <3>2
  <2>4. /\ sent = {}
        /\ turnStatus = [t \in Turns |-> "none"] /\ told = [t \in Turns |-> "none"]
    BY DEF HubInit, Init
  <2> QED BY <2>2, <2>3, <2>4 DEF Service!ServiceInit, Service!Nothing
<1>2. HubSpec => []StoreInv
  BY HubKeepsStore, StoreInvariant, PTL
<1>3. HubSpec => []AskedInv
  BY AskedInit, AskedStep, TurnInvariant, PTL DEF HubSpec
<1>4. TurnInv /\ StoreInv /\ PromiseInv /\ [HubNext]_vars => PromiseInv'
  BY PromiseStep
<1>5. HubSpec => []PromiseInv
  BY <1>2, <1>4, PromiseInit, TurnInvariant, PTL DEF HubSpec
<1>6. TurnInv /\ StoreInv /\ AskedInv /\ DurableInv /\ PromiseInv /\ [HubNext]_vars
      => [Service!ServiceNext]_(Service!serviceVars)
  BY KeepsPromise DEF ServiceStep
<1> QED BY <1>1, <1>2, <1>3, <1>5, <1>6, TurnInvariant, DurableInvariant, PTL
        DEF HubSpec, HubImplementsService, Service!ServiceSpec
=============================================================================
