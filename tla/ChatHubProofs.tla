--------------------------- MODULE ChatHubProofs ---------------------------
(***************************************************************************)
(* Proofs about ChatHub: whatever turns, Stops, worker deaths, failing     *)
(* transactions and crashes there are, the calls the hub makes are ones    *)
(* the store takes, so that what is proved about the store in              *)
(* TurnStoreProofs holds below a running hub.                              *)
(***************************************************************************)
EXTENDS ChatHub, TurnStoreProofs, SequenceTheorems

(***************************************************************************)
(* A step of the hub is a step of the store only if the calls that reach   *)
(* the database are ones the store allows: a turn, an outcome, an event    *)
(* number within the bound.  A call is made from a log long before it is   *)
(* executed, so the invariant follows logs and calls: a log that is not    *)
(* being finalized yet has room for the numbers of its end.                *)
(***************************************************************************)
LogShape ==
    [status : {"none", "active", "ended", "error"},
     fin : {"none", "requested", "committing", "settled"},
     outcome : Terminal, nextSeq : Nat, endSeq : Int,
     steer : {"none", "asked", "accepted", "rejected"},
     title : {"none", "pending", "shown"}, events : Seq([seq : Int, kind : Kinds])]

RoomForEnd(l) == l.fin \in {"none", "requested"} => l.nextSeq <= MaxSeq - 2

GoodLogs == {l \in LogShape : RoomForEnd(l)}

GoodCalls == {c \in Calls : c.op # "begin" => c.seq >= 0}

CallsInv ==
    /\ log \in [Turns -> GoodLogs]
    /\ cancelTimer \in Turns \cup {NoTurn}
    /\ queue \in Seq(GoodCalls)
    /\ replies \in Seq(GoodCalls)
    /\ deferred \in Seq(GoodCalls)

-----------------------------------------------------------------------------
\* A function on 1 .. n is a sequence.
LEMMA FunctionIsSeq ==
    ASSUME NEW S, NEW n \in Nat, NEW f \in [1 .. n -> S]
    PROVE  f \in Seq(S)
<1>1. f \in UNION {[1 .. m -> S] : m \in Nat}
  BY Zenon
<1>2. Seq(S) = UNION {[1 .. m -> S] : m \in Nat}
  BY SeqDef, Zenon
<1> QED BY <1>1, <1>2, Zenon

\* The answer to a call is the call with its result.
LEMMA AnsweredGood ==
    ASSUME NEW c \in GoodCalls, NEW ok \in BOOLEAN
    PROVE  Answered(c, ok) \in GoodCalls
<1>1. c \in Calls /\ (c.op # "begin" => c.seq >= 0)
  BY DEF GoodCalls
<1>2. /\ Answered(c, ok) \in Calls
      /\ Answered(c, ok).op = c.op
      /\ Answered(c, ok).seq = c.seq
  BY <1>1 DEF Answered, Calls
<1> QED BY <1>1, <1>2 DEF GoodCalls

\* A rejected batch of calls is a sequence of answers.
LEMMA RejectedGood ==
    ASSUME NEW p \in Seq(GoodCalls)
    PROVE  [i \in 1 .. Len(p) |-> Answered(p[i], FALSE)] \in Seq(GoodCalls)
<1>1. \A i \in 1 .. Len(p) : Answered(p[i], FALSE) \in GoodCalls
  <2>1. \A i \in 1 .. Len(p) : p[i] \in GoodCalls
    OBVIOUS
  <2> QED BY <2>1, AnsweredGood
<1>2. Len(p) \in Nat
  OBVIOUS
<1>3. [i \in 1 .. Len(p) |-> Answered(p[i], FALSE)] \in [1 .. Len(p) -> GoodCalls]
  BY <1>1
<1> QED BY <1>2, <1>3, FunctionIsSeq, Zenon

\* A call made with a turn, an outcome and a number within the bound is good.
LEMMA CallGood ==
    ASSUME NEW op \in {"begin", "checkpoint", "finalize"}, NEW t \in Turns,
           NEW q \in SeqNumbers, NEW s \in Terminal, NEW b \in BOOLEAN,
           op # "begin" => q >= 0
    PROVE  Call(op, t, q, s, b) \in GoodCalls
<1>1. /\ Call(op, t, q, s, b) \in Calls
      /\ Call(op, t, q, s, b).op = op
      /\ Call(op, t, q, s, b).seq = q
  BY DEF Call, Calls
<1> QED BY <1>1 DEF GoodCalls

\* Numbering an event changes the next number and the events of a log.
LEMMA StampedShape ==
    ASSUME NEW l \in LogShape, NEW kind \in Kinds
    PROVE  /\ Stamped(l, kind) \in LogShape
           /\ Stamped(l, kind).nextSeq = l.nextSeq + 1
           /\ Stamped(l, kind).fin = l.fin
           /\ Stamped(l, kind).outcome = l.outcome
           /\ Stamped(l, kind).steer = l.steer
<1>1. Append(l.events, [seq |-> l.nextSeq, kind |-> kind]) \in Seq([seq : Int, kind : Kinds])
  BY DEF LogShape
<1>2. /\ Stamped(l, kind).nextSeq = l.nextSeq + 1
      /\ Stamped(l, kind).events = Append(l.events, [seq |-> l.nextSeq, kind |-> kind])
  BY DEF Stamped, LogShape
<1>3. /\ Stamped(l, kind).fin = l.fin
      /\ Stamped(l, kind).outcome = l.outcome
      /\ Stamped(l, kind).steer = l.steer
  BY DEF Stamped, LogShape
<1>4. Stamped(l, kind) \in LogShape
  <2> DEFINE e == Append(l.events, [seq |-> l.nextSeq, kind |-> kind])
  <2>1. e \in Seq([seq : Int, kind : Kinds])
    BY <1>1
  <2> HIDE DEF e
  <2>2. l.nextSeq + 1 \in Nat
    BY DEF LogShape
  <2>3. Stamped(l, kind) = [l EXCEPT !.nextSeq = l.nextSeq + 1, !.events = e]
    BY DEF Stamped, e
  <2> QED BY <2>1, <2>2, <2>3 DEF LogShape
<1> QED BY <1>2, <1>3, <1>4

\* With room, a numbered event leaves a good log whose number fits a checkpoint.
LEMMA StampedGood ==
    ASSUME NEW l \in GoodLogs, NEW kind \in Kinds, l.nextSeq < MaxSeq - 2
    PROVE  /\ Stamped(l, kind) \in GoodLogs
           /\ Stamped(l, kind).nextSeq \in 1 .. MaxSeq - 2
<1>1. l \in LogShape /\ l.nextSeq \in Nat
  BY DEF GoodLogs, LogShape
<1> QED BY <1>1, StampedShape, BoundAssumption DEF GoodLogs, RoomForEnd

\* A checkpoint, whether it goes to the worker or to the next tick, is good.
LEMMA CheckpointGood ==
    ASSUME CallsInv, NEW t \in Turns, NEW l \in GoodLogs, l.nextSeq \in 1 .. MaxSeq - 2,
           MaybeCheckpoint(t, l)
    PROVE  queue' \in Seq(GoodCalls) /\ deferred' \in Seq(GoodCalls)
<1> DEFINE c == Call("checkpoint", t, l.nextSeq - 1, "error", l.steer = "accepted")
<1>1. l.nextSeq - 1 \in SeqNumbers /\ l.nextSeq - 1 >= 0
  BY BoundAssumption DEF SeqNumbers
<1>2. (l.steer = "accepted") \in BOOLEAN /\ "error" \in Terminal
  BY DEF Terminal
<1>3. c \in GoodCalls
  BY <1>1, <1>2, CallGood
<1> HIDE DEF c
<1>4. \/ queue' = Append(queue, c) /\ deferred' = deferred
      \/ deferred' = Append(deferred, c) /\ queue' = queue
      \/ queue' = queue /\ deferred' = deferred
  BY DEF MaybeCheckpoint, Checkpoint, c
<1>5. Append(queue, c) \in Seq(GoodCalls) /\ Append(deferred, c) \in Seq(GoodCalls)
  BY <1>3 DEF CallsInv
<1> QED BY <1>4, <1>5, Zenon DEF CallsInv

\* Replacing the log of one turn by a good one.
LEMMA LogReplaced ==
    ASSUME CallsInv, NEW t \in Turns, NEW l \in GoodLogs, log' = [log EXCEPT ![t] = l]
    PROVE  log' \in [Turns -> GoodLogs]
BY DEF CallsInv

\* finalizeOnce keeps a log good.
LEMMA FinishGood ==
    ASSUME CallsInv, NEW t \in Turns, NEW s \in Terminal, log[t].fin = "none", Finish(t, s)
    PROVE  log' \in [Turns -> GoodLogs]
<1> DEFINE l == [log[t] EXCEPT !.fin = "requested", !.outcome = s]
<1>1. log[t] \in LogShape /\ log[t].nextSeq <= MaxSeq - 2
  BY DEF CallsInv, GoodLogs, RoomForEnd
<1>2. l \in LogShape /\ l.nextSeq = log[t].nextSeq
  BY <1>1 DEF LogShape
<1>3. l \in GoodLogs
  BY <1>1, <1>2 DEF GoodLogs, RoomForEnd
<1>4. log' = [log EXCEPT ![t] = l]
  BY <1>1 DEF Finish, CallsInv, LogShape
<1> QED BY <1>3, <1>4, LogReplaced

\* A log without finalization, steering or title, and with no number beyond
\* the first, is good.
LEMMA NewLogGood ==
    /\ NewLog \in GoodLogs
    /\ NewLog.nextSeq = 0
BY BoundAssumption, HubAssumption
   DEF NewLog, GoodLogs, LogShape, RoomForEnd, Terminal

-----------------------------------------------------------------------------
\* Executing a good call is a transaction of the store, or changes nothing.
LEMMA ExecuteRefines ==
    ASSUME NEW c \in GoodCalls, NEW ok \in BOOLEAN, Execute(c, ok)
    PROVE  [Next]_storeVars
<1>1. /\ c.turn \in Turns /\ c.status \in Terminal /\ c.steered \in BOOLEAN
      /\ c.op # "begin" => c.seq \in 0 .. MaxSeq
  BY BoundAssumption DEF GoodCalls, Calls, SeqNumbers
<1>2. CASE c.op = "begin" /\ BeginTurn(c.turn)
  BY <1>1, <1>2 DEF Next
<1>3. CASE c.op = "checkpoint" /\ CheckpointTurn(c.turn, c.seq, c.steered)
  BY <1>1, <1>3 DEF Next
<1>4. CASE c.op = "finalize" /\ FinalizeTurn(c.turn, c.status, c.seq, c.steered)
  BY <1>1, <1>4 DEF Next
<1>5. CASE UNCHANGED storeVars
  BY <1>5
<1> QED BY <1>2, <1>3, <1>4, <1>5 DEF Execute

\* A sweep is the store's sweep, or changes nothing.
LEMMA SweepRefines ==
    ASSUME NEW preserve \in SUBSET Turns, Sweep(preserve)
    PROVE  [Next]_storeVars
BY DEF Sweep, Next

\* A step that touches neither logs nor calls.
LEMMA CallsUnchanged ==
    ASSUME CallsInv, UNCHANGED <<log, cancelTimer, queue, replies, deferred>>
    PROVE  CallsInv'
BY DEF CallsInv

-----------------------------------------------------------------------------
\* The database side.
LEMMA DatabaseStep ==
    ASSUME CallsInv,
           RunCall \/ RunDeferred \/ WorkerReady \/ WorkerDies \/ CheckpointRejected
    PROVE  CallsInv' /\ [Next]_storeVars
<1>1. CASE RunCall
  <2>1. /\ Head(queue) \in GoodCalls
        /\ queue' \in Seq(GoodCalls)
    BY <1>1 DEF CallsInv, RunCall
  <2>2. PICK ok \in BOOLEAN :
            /\ Execute(Head(queue), ok)
            /\ replies' = IF Head(queue).op = "checkpoint" THEN replies
                          ELSE Append(replies, Answered(Head(queue), ok))
    BY <1>1 DEF RunCall
  <2>3. Answered(Head(queue), ok) \in GoodCalls
    BY <2>1, AnsweredGood
  <2>4. replies' \in Seq(GoodCalls)
    BY <2>2, <2>3 DEF CallsInv
  <2>5. UNCHANGED <<log, cancelTimer, deferred>>
    BY <1>1 DEF RunCall, stopVars
  <2>6. [Next]_storeVars
    BY <2>1, <2>2, ExecuteRefines
  <2> QED BY <2>1, <2>4, <2>5, <2>6 DEF CallsInv
<1>2. CASE RunDeferred
  <2>1. /\ Head(deferred) \in GoodCalls
        /\ deferred' \in Seq(GoodCalls)
    BY <1>2 DEF CallsInv, RunDeferred
  <2>2. [Next]_storeVars
    BY <1>2, <2>1, ExecuteRefines DEF RunDeferred
  <2>3. UNCHANGED <<log, cancelTimer, queue, replies>>
    BY <1>2 DEF RunDeferred, stopVars
  <2> QED BY <2>1, <2>2, <2>3 DEF CallsInv
<1>3. CASE WorkerReady
  BY <1>3, CallsUnchanged DEF WorkerReady, stopVars
<1>4. CASE WorkerDies
  <2>1. replies \o queue \in Seq(GoodCalls)
    BY DEF CallsInv
  <2>2. replies' \in Seq(GoodCalls)
    BY <1>4, <2>1, RejectedGood DEF WorkerDies
  <2>3. queue' \in Seq(GoodCalls)
    BY <1>4 DEF WorkerDies
  <2>4. UNCHANGED <<storeVars, log, cancelTimer, deferred>>
    BY <1>4 DEF WorkerDies, stopVars
  <2> QED BY <2>2, <2>3, <2>4 DEF CallsInv
<1>5. CASE CheckpointRejected
  <2>1. replies' \in Seq(GoodCalls)
    BY <1>5 DEF CallsInv, CheckpointRejected
  <2>2. UNCHANGED <<storeVars, log, cancelTimer, queue, deferred>>
    BY <1>5 DEF CheckpointRejected, stopVars
  <2> QED BY <2>1, <2>2 DEF CallsInv
<1> QED BY <1>1, <1>2, <1>3, <1>4, <1>5

\* Asking for a begin adds a good call.
LEMMA RequestBeginGood ==
    ASSUME CallsInv, NEW t \in Turns, RequestBegin(t)
    PROVE  queue' \in Seq(GoodCalls)
<1> DEFINE c == Call("begin", t, -1, "error", FALSE)
<1>1. -1 \in SeqNumbers /\ "error" \in Terminal
  BY BoundAssumption DEF SeqNumbers, Terminal
<1>2. c \in GoodCalls
  BY <1>1, CallGood
<1> HIDE DEF c
<1>3. queue' = Append(queue, c)
  BY DEF RequestBegin, c
<1> QED BY <1>2, <1>3 DEF CallsInv

\* A turn that has begun has one event and room for its end.
LEMMA BeginCommittedGood ==
    ASSUME CallsInv, NEW t \in Turns, BeginCommitted(t)
    PROVE  log' \in [Turns -> GoodLogs]
<1> DEFINE title == IF t \in Titled /\ ~StopPending(t) THEN "pending" ELSE "none"
           fresh == [NewLog EXCEPT !.status = "active", !.title = title]
           started == Stamped(fresh, "start")
           ended == [started EXCEPT !.fin = "requested", !.outcome = "cancelled"]
<1>1. title \in {"none", "pending", "shown"}
  OBVIOUS
<1>2. fresh \in LogShape /\ fresh.nextSeq = 0
  <2> HIDE DEF title
  <2> QED BY <1>1, NewLogGood DEF GoodLogs, LogShape
<1>3. started \in LogShape /\ started.nextSeq = 1
  <2>1. "start" \in Kinds
    BY DEF Kinds
  <2> HIDE DEF fresh
  <2> QED BY <1>2, <2>1, StampedShape
<1>4. started \in GoodLogs
  BY <1>3, BoundAssumption, HubAssumption DEF GoodLogs, RoomForEnd
<1>5. ended \in GoodLogs
  <2> HIDE DEF started
  <2>1. ended \in LogShape /\ ended.nextSeq = 1
    BY <1>3 DEF LogShape, Terminal
  <2> HIDE DEF ended
  <2> QED BY <2>1, BoundAssumption, HubAssumption DEF GoodLogs, RoomForEnd
<1>6. log' = [log EXCEPT ![t] = ended] \/ log' = [log EXCEPT ![t] = started]
  BY DEF BeginCommitted
<1> HIDE DEF started, ended
<1> QED BY <1>4, <1>5, <1>6, LogReplaced

\* Submitting, queueing and beginning turns.
LEMMA SubmitStep ==
    ASSUME CallsInv, NEW t \in Turns,
           \/ StartTurn(t) \/ QueueSelfTurn(t) \/ ReachHead(t) \/ BeginSelfTurn(t)
           \/ ReceiveBegin \/ DrainEnds(t)
    PROVE  CallsInv' /\ UNCHANGED storeVars
<1>1. CASE StartTurn(t)
  <2>1. queue' = queue \/ RequestBegin(t)
    BY <1>1 DEF StartTurn
  <2>2. queue' \in Seq(GoodCalls)
    BY <2>1, RequestBeginGood DEF CallsInv
  <2>3. UNCHANGED <<storeVars, log, cancelTimer, replies, deferred>>
    BY <1>1 DEF StartTurn
  <2> QED BY <2>2, <2>3 DEF CallsInv
<1>2. CASE QueueSelfTurn(t)
  BY <1>2, CallsUnchanged DEF QueueSelfTurn, stopVars, dbVars
<1>3. CASE ReachHead(t)
  BY <1>3, CallsUnchanged DEF ReachHead, stopVars, dbVars
<1>4. CASE BeginSelfTurn(t)
  <2>1. queue' \in Seq(GoodCalls)
    BY <1>4, RequestBeginGood DEF BeginSelfTurn
  <2>2. UNCHANGED <<storeVars, log, cancelTimer, replies, deferred>>
    BY <1>4 DEF BeginSelfTurn, stopVars
  <2> QED BY <2>1, <2>2 DEF CallsInv
<1>5. CASE ReceiveBegin
  <2> DEFINE u == Head(replies).turn
  <2>1. Head(replies) \in GoodCalls /\ replies' \in Seq(GoodCalls)
    BY <1>5 DEF CallsInv, ReceiveBegin
  <2>2. u \in Turns
    BY <2>1 DEF GoodCalls, Calls
  <2>3. BeginCommitted(u) \/ log' = log
    BY <1>5 DEF ReceiveBegin, BeginFailed
  <2>4. log' \in [Turns -> GoodLogs]
    BY <2>2, <2>3, BeginCommittedGood DEF CallsInv
  <2>5. UNCHANGED <<storeVars, cancelTimer, queue, deferred>>
    BY <1>5 DEF ReceiveBegin, stopVars
  <2> QED BY <2>1, <2>4, <2>5 DEF CallsInv
<1>6. CASE DrainEnds(t)
  BY <1>6, CallsUnchanged DEF DrainEnds, stopVars, dbVars
<1> QED BY <1>1, <1>2, <1>3, <1>4, <1>5, <1>6

\* An event that is numbered, logged and perhaps checkpointed.
LEMMA AppendGood ==
    ASSUME CallsInv, NEW t \in Turns, NEW l \in GoodLogs, NEW kind \in Kinds,
           l.nextSeq < MaxSeq - 2,
           log' = [log EXCEPT ![t] = Stamped(l, kind)],
           MaybeCheckpoint(t, Stamped(l, kind)),
           cancelTimer' \in Turns \cup {NoTurn}, UNCHANGED replies
    PROVE  CallsInv'
<1>1. Stamped(l, kind) \in GoodLogs /\ Stamped(l, kind).nextSeq \in 1 .. MaxSeq - 2
  BY StampedGood
<1>2. log' \in [Turns -> GoodLogs]
  BY <1>1, LogReplaced
<1>3. queue' \in Seq(GoodCalls) /\ deferred' \in Seq(GoodCalls)
  BY <1>1, CheckpointGood
<1> QED BY <1>2, <1>3 DEF CallsInv

\* What the runtime does with a turn, and the end of the turn's loop.
LEMMA RuntimeStep ==
    ASSUME CallsInv, NEW t \in Turns,
           \/ Emit(t) \/ JoinFinalization(t) \/ LateEvent(t) \/ FinallyBlock(t)
           \/ (\E s \in EndReasons : EndTurn(t, s))
           \/ (\E r \in BOOLEAN : FailTurn(t, r))
    PROVE  CallsInv' /\ UNCHANGED storeVars
<1>1. CASE Emit(t)
  <2>1. log[t] \in GoodLogs /\ "delta" \in Kinds /\ log[t].nextSeq < MaxSeq - 2
    BY <1>1 DEF CallsInv, Kinds, Emit, Room
  <2>2. /\ log' = [log EXCEPT ![t] = Stamped(log[t], "delta")]
        /\ MaybeCheckpoint(t, Stamped(log[t], "delta"))
        /\ UNCHANGED <<storeVars, cancelTimer, replies>>
    BY <1>1 DEF Emit, stopVars
  <2> QED BY <2>1, <2>2, AppendGood DEF CallsInv
<1>2. CASE JoinFinalization(t)
  BY <1>2, CallsUnchanged DEF JoinFinalization, stopVars, dbVars
<1>3. CASE LateEvent(t) \/ FinallyBlock(t)
  <2>1. /\ cancelTimer' \in Turns \cup {NoTurn}
        /\ UNCHANGED <<storeVars, log, queue, replies, deferred>>
    BY <1>3 DEF LateEvent, FinallyBlock, Leave, dbVars, CallsInv
  <2> QED BY <2>1 DEF CallsInv
<1>4. CASE \E s \in EndReasons : EndTurn(t, s)
  <2>1. PICK s \in EndReasons : EndTurn(t, s)
    BY <1>4
  <2>2. (IF StopPending(t) THEN "cancelled" ELSE s) \in Terminal
    BY HubAssumption DEF Terminal
  <2>3. log' \in [Turns -> GoodLogs]
    BY <2>1, <2>2, FinishGood DEF EndTurn
  <2>4. UNCHANGED <<storeVars, cancelTimer, queue, replies, deferred>>
    BY <2>1 DEF EndTurn, stopVars, dbVars
  <2> QED BY <2>3, <2>4 DEF CallsInv
<1>5. CASE \E r \in BOOLEAN : FailTurn(t, r)
  <2>1. PICK r \in BOOLEAN : FailTurn(t, r)
    BY <1>5
  <2>2. (IF StopPending(t) /\ ~r THEN "cancelled" ELSE "error") \in Terminal
    BY DEF Terminal
  <2>3. log' \in [Turns -> GoodLogs]
    BY <2>1, <2>2, FinishGood DEF FailTurn
  <2>4. UNCHANGED <<storeVars, cancelTimer, queue, replies, deferred>>
    BY <2>1 DEF FailTurn, stopVars, dbVars
  <2> QED BY <2>3, <2>4 DEF CallsInv
<1> QED BY <1>1, <1>2, <1>3, <1>4, <1>5

\* Titles and steering.
LEMMA TitleAndSteerStep ==
    ASSUME CallsInv, NEW t \in Turns, TitleArrives(t) \/ Steer(t) \/ SteerSettles(t)
    PROVE  CallsInv' /\ UNCHANGED storeVars
<1>1. /\ log[t] \in LogShape
      /\ RoomForEnd(log[t])
  BY DEF CallsInv, GoodLogs
<1>2. \A x \in {"none", "asked", "accepted", "rejected"} :
          /\ [log[t] EXCEPT !.steer = x] \in GoodLogs
          /\ [log[t] EXCEPT !.steer = x].nextSeq = log[t].nextSeq
  <2> TAKE x \in {"none", "asked", "accepted", "rejected"}
  <2> DEFINE l == [log[t] EXCEPT !.steer = x]
  <2>1. l \in LogShape /\ l.nextSeq = log[t].nextSeq /\ l.fin = log[t].fin
    BY <1>1 DEF LogShape
  <2> HIDE DEF l
  <2>2. l \in GoodLogs
    BY <1>1, <2>1 DEF GoodLogs, RoomForEnd
  <2> QED BY <2>1, <2>2 DEF l
<1>3. \A x \in {"none", "pending", "shown"} :
          /\ [log[t] EXCEPT !.title = x] \in GoodLogs
          /\ [log[t] EXCEPT !.title = x].nextSeq = log[t].nextSeq
  <2> TAKE x \in {"none", "pending", "shown"}
  <2> DEFINE l == [log[t] EXCEPT !.title = x]
  <2>1. l \in LogShape /\ l.nextSeq = log[t].nextSeq /\ l.fin = log[t].fin
    BY <1>1 DEF LogShape
  <2> HIDE DEF l
  <2>2. l \in GoodLogs
    BY <1>1, <2>1 DEF GoodLogs, RoomForEnd
  <2> QED BY <2>1, <2>2 DEF l
<1>4. CASE TitleArrives(t) /\ Live(t)
  <2> DEFINE l == [log[t] EXCEPT !.title = "shown"]
  <2>1. l \in GoodLogs /\ "title" \in Kinds /\ l.nextSeq < MaxSeq - 2
    BY <1>3, <1>4 DEF Kinds, TitleArrives, Room
  <2>2. /\ log' = [log EXCEPT ![t] = Stamped(l, "title")]
        /\ Checkpoint(t, Stamped(l, "title"))
        /\ UNCHANGED <<storeVars, cancelTimer, replies>>
    BY <1>4 DEF TitleArrives, stopVars
  <2> HIDE DEF l
  <2>3. MaybeCheckpoint(t, Stamped(l, "title"))
    BY <2>2 DEF MaybeCheckpoint
  <2> QED BY <2>1, <2>2, <2>3, AppendGood DEF CallsInv
<1>5. CASE TitleArrives(t) /\ ~Live(t)
  <2>1. /\ log' = [log EXCEPT ![t] = [log[t] EXCEPT !.title = "none"]]
        /\ UNCHANGED <<storeVars, cancelTimer, queue, replies, deferred>>
    BY <1>5 DEF TitleArrives, stopVars, CallsInv
  <2>2. log' \in [Turns -> GoodLogs]
    BY <1>3, <2>1, LogReplaced
  <2> QED BY <2>1, <2>2 DEF CallsInv
<1>6. CASE Steer(t) \/ (SteerSettles(t) /\ UNCHANGED <<queue, deferred>> /\
                         log' = [log EXCEPT ![t].steer = "rejected"])
  <2>1. /\ \/ log' = [log EXCEPT ![t] = [log[t] EXCEPT !.steer = "asked"]]
           \/ log' = [log EXCEPT ![t] = [log[t] EXCEPT !.steer = "rejected"]]
        /\ UNCHANGED <<storeVars, cancelTimer, queue, replies, deferred>>
    BY <1>6 DEF Steer, SteerSettles, stopVars, dbVars, CallsInv
  <2>2. log' \in [Turns -> GoodLogs]
    BY <1>2, <2>1, LogReplaced
  <2> QED BY <2>1, <2>2 DEF CallsInv
<1>7. CASE SteerSettles(t) /\ Room(t) /\
           LET l == Stamped([log[t] EXCEPT !.steer = "accepted"], "steer")
           IN log' = [log EXCEPT ![t] = l] /\ Checkpoint(t, l)
  <2> DEFINE l == [log[t] EXCEPT !.steer = "accepted"]
  <2>1. l \in GoodLogs /\ "steer" \in Kinds /\ l.nextSeq < MaxSeq - 2
    BY <1>2, <1>7 DEF Kinds, Room
  <2>2. /\ log' = [log EXCEPT ![t] = Stamped(l, "steer")]
        /\ Checkpoint(t, Stamped(l, "steer"))
        /\ UNCHANGED <<storeVars, cancelTimer, replies>>
    BY <1>7 DEF SteerSettles, stopVars
  <2> HIDE DEF l
  <2>3. MaybeCheckpoint(t, Stamped(l, "steer"))
    BY <2>2 DEF MaybeCheckpoint
  <2> QED BY <2>1, <2>2, <2>3, AppendGood DEF CallsInv
<1>8. SteerSettles(t) =>
          \/ Room(t) /\ LET l == Stamped([log[t] EXCEPT !.steer = "accepted"], "steer")
                        IN log' = [log EXCEPT ![t] = l] /\ Checkpoint(t, l)
          \/ UNCHANGED <<queue, deferred>> /\ log' = [log EXCEPT ![t].steer = "rejected"]
  BY DEF SteerSettles
<1> QED BY <1>4, <1>5, <1>6, <1>7, <1>8

\* Stop, its timers and the answers of the runtime.
LEMMA StopStep ==
    ASSUME CallsInv, NEW t \in Turns,
           \/ StopActive(t) \/ ReserveCancellation(t) \/ ReservationExpires(t)
           \/ CancelAnswered(t) \/ CancelTimeout \/ ForceFinished(t)
    PROVE  CallsInv' /\ UNCHANGED storeVars
<1>1. CASE StopActive(t)
  <2>1. log[t] \in GoodLogs /\ "requested" \in Kinds /\ log[t].nextSeq < MaxSeq - 2
    BY <1>1 DEF CallsInv, Kinds, StopActive, Room
  <2>2. /\ log' = [log EXCEPT ![t] = Stamped(log[t], "requested")]
        /\ MaybeCheckpoint(t, Stamped(log[t], "requested"))
        /\ cancelTimer' = t
        /\ UNCHANGED <<storeVars, replies>>
    BY <1>1 DEF StopActive, ArmTimer
  <2> QED BY <2>1, <2>2, AppendGood
<1>2. CASE ReserveCancellation(t)
  BY <1>2, CallsUnchanged DEF ReserveCancellation, dbVars
<1>3. CASE ReservationExpires(t)
  BY <1>3, CallsUnchanged DEF ReservationExpires, dbVars
<1>4. CASE CancelAnswered(t)
  <2>1. CASE UNCHANGED <<log, queue, deferred>>
    BY <1>4, <2>1, CallsUnchanged DEF CancelAnswered
  <2>2. CASE Room(t) /\ log' = [log EXCEPT ![t] = Stamped(log[t], "acknowledged")]
                     /\ MaybeCheckpoint(t, Stamped(log[t], "acknowledged"))
    <3>1. log[t] \in GoodLogs /\ "acknowledged" \in Kinds /\ log[t].nextSeq < MaxSeq - 2
      BY <2>2 DEF CallsInv, Kinds, Room
    <3>2. UNCHANGED <<storeVars, cancelTimer, replies>>
      BY <1>4 DEF CancelAnswered
    <3> QED BY <2>2, <3>1, <3>2, AppendGood DEF CallsInv
  <2> QED BY <1>4, <2>1, <2>2 DEF CancelAnswered
<1>5. CASE CancelTimeout
  <2>1. /\ cancelTimer \in Turns /\ cancelTimer' = NoTurn
        /\ UNCHANGED <<storeVars, queue, replies, deferred>>
    BY <1>5 DEF CancelTimeout, CallsInv, dbVars
  <2>2. \/ log[cancelTimer].fin = "none" /\ Finish(cancelTimer, "cancelled")
        \/ UNCHANGED log
    BY <1>5 DEF CancelTimeout
  <2>3. log' \in [Turns -> GoodLogs]
    BY <2>1, <2>2, FinishGood DEF CallsInv, Terminal
  <2> QED BY <2>1, <2>3 DEF CallsInv
<1>6. CASE ForceFinished(t)
  BY <1>6, CallsUnchanged DEF ForceFinished, dbVars
<1> QED BY <1>1, <1>2, <1>3, <1>4, <1>5, <1>6

\* A log whose terminal event is numbered keeps its shape.
LEMMA CommittingShape ==
    ASSUME NEW l \in LogShape, NEW e \in Int, NEW n \in Nat
    PROVE  LET k == [l EXCEPT !.fin = "committing", !.endSeq = e, !.nextSeq = n]
           IN  k \in LogShape /\ k.fin = "committing"
BY DEF LogShape

\* The number of a terminal event is within the bound when it is sent to the
\* store: the log of a turn whose end was asked for has room for it.
LEMMA PersistGood ==
    ASSUME CallsInv, NEW t \in Turns, Persist(t)
    PROVE  CallsInv' /\ UNCHANGED storeVars
<1> DEFINE l == IF StopPending(t) /\ ~Published(t, "settled")
                THEN Stamped(log[t], "settled") ELSE log[t]
           k == [l EXCEPT !.fin = "committing", !.endSeq = l.nextSeq,
                          !.nextSeq = l.nextSeq + 1]
           c == Call("finalize", t, l.nextSeq, l.outcome, l.steer = "accepted")
<1>1. log[t] \in LogShape /\ log[t].nextSeq \in Nat /\ log[t].nextSeq <= MaxSeq - 2
  BY DEF Persist, CallsInv, GoodLogs, RoomForEnd, LogShape
<1>2. l \in LogShape /\ l.nextSeq <= MaxSeq
  <2>1. "settled" \in Kinds
    BY DEF Kinds
  <2> QED BY <1>1, <2>1, StampedShape, BoundAssumption
<1>3. log' = [log EXCEPT ![t] = k] /\ queue' = Append(queue, c)
  BY DEF Persist, RequestFinalize
<1> HIDE DEF l
<1>4. l.nextSeq \in SeqNumbers /\ l.nextSeq >= 0 /\ l.outcome \in Terminal
  BY <1>2, BoundAssumption DEF LogShape, SeqNumbers
<1>5. c \in GoodCalls
  <2>1. (l.steer = "accepted") \in BOOLEAN
    OBVIOUS
  <2> QED BY <1>4, <2>1, CallGood
<1>6. k \in LogShape /\ k.fin = "committing"
  <2>1. l.nextSeq \in Int /\ l.nextSeq + 1 \in Nat
    BY <1>2 DEF LogShape
  <2> QED BY <1>2, <2>1, CommittingShape
<1> HIDE DEF k, c
<1>7. k \in GoodLogs
  BY <1>6 DEF GoodLogs, RoomForEnd
<1>8. log' \in [Turns -> GoodLogs]
  BY <1>3, <1>7, LogReplaced
<1>9. UNCHANGED <<storeVars, cancelTimer, replies, deferred>>
  BY DEF Persist, stopVars
<1> QED BY <1>3, <1>5, <1>8, <1>9 DEF CallsInv

\* A log that has settled keeps its shape.
LEMMA SettledShape ==
    ASSUME NEW l \in LogShape, NEW s \in {"ended", "error"},
           NEW e \in Seq([seq : Int, kind : Kinds])
    PROVE  LET k == [l EXCEPT !.fin = "settled", !.status = s, !.events = e]
               f == [l EXCEPT !.fin = "settled", !.status = s]
           IN  /\ k \in LogShape /\ k.fin = "settled"
               /\ f \in LogShape /\ f.fin = "settled"
BY DEF LogShape

\* The answer to a finalization settles the log of its turn.
LEMMA ReceiveFinalizeGood ==
    ASSUME CallsInv, ReceiveFinalize
    PROVE  CallsInv' /\ UNCHANGED storeVars
<1> DEFINE t == Head(replies).turn
           failed == log[t].outcome = "error"
           last == [seq |-> log[t].endSeq, kind |-> IF failed THEN "error" ELSE "done"]
           e == Append(log[t].events, last)
           s == IF failed THEN "error" ELSE "ended"
           k == [log[t] EXCEPT !.fin = "settled", !.status = s, !.events = e]
           f == [log[t] EXCEPT !.fin = "settled", !.status = "error"]
<1>1. Head(replies) \in GoodCalls /\ replies' \in Seq(GoodCalls)
  BY DEF CallsInv, ReceiveFinalize
<1>2. t \in Turns
  BY <1>1 DEF GoodCalls, Calls
<1>3. \/ log' = [log EXCEPT ![t] = k]
      \/ log' = [log EXCEPT ![t] = Stamped(f, "unsaved")]
  BY DEF ReceiveFinalize, FinalizeCommitted, FinalizeFailed
<1> HIDE DEF t
<1>4. log[t] \in LogShape
  BY <1>2 DEF CallsInv, GoodLogs
<1>5. s \in {"ended", "error"} /\ "error" \in {"ended", "error"}
  OBVIOUS
<1>6. last \in [seq : Int, kind : Kinds]
  BY <1>4 DEF LogShape, Kinds
<1>7. e \in Seq([seq : Int, kind : Kinds])
  <2> HIDE DEF last
  <2> QED BY <1>4, <1>6 DEF LogShape
<1> HIDE DEF s, e
<1>8. k \in LogShape /\ k.fin = "settled" /\ f \in LogShape /\ f.fin = "settled"
  BY <1>4, <1>5, <1>7, SettledShape
<1> HIDE DEF k, f
<1>9. /\ Stamped(f, "unsaved") \in LogShape
      /\ Stamped(f, "unsaved").fin = "settled"
  <2>1. "unsaved" \in Kinds
    BY DEF Kinds
  <2> QED BY <1>8, <2>1, StampedShape
<1>10. k \in GoodLogs /\ Stamped(f, "unsaved") \in GoodLogs
  BY <1>8, <1>9 DEF GoodLogs, RoomForEnd
<1>11. log' \in [Turns -> GoodLogs]
  BY <1>2, <1>3, <1>10, LogReplaced
<1>12. UNCHANGED <<storeVars, cancelTimer, queue, deferred>>
  BY DEF ReceiveFinalize, stopVars
<1> QED BY <1>1, <1>11, <1>12 DEF CallsInv

\* Eviction drops a log or leaves it.
LEMMA EvictGood ==
    ASSUME CallsInv, NEW t \in Turns, Evict(t)
    PROVE  CallsInv' /\ UNCHANGED storeVars
<1>1. log' = [log EXCEPT ![t] = NewLog] \/ log' = log
  BY DEF Evict
<1>2. log' \in [Turns -> GoodLogs]
  BY <1>1, NewLogGood, LogReplaced DEF CallsInv
<1>3. UNCHANGED <<storeVars, cancelTimer, queue, replies, deferred>>
  BY DEF Evict, stopVars, dbVars
<1> QED BY <1>2, <1>3 DEF CallsInv

\* A restart empties the hub and sweeps the store; the deferred sweep spares
\* turns only.
LEMMA RestartStep ==
    ASSUME CallsInv, Restart \/ DeferredSweep
    PROVE  CallsInv' /\ [Next]_storeVars
<1>1. Deliveries \subseteq Turns
  BY HubAssumption
<1>2. CASE Restart
  <2>1. [Next]_storeVars
    BY <1>1, <1>2, SweepRefines DEF Restart
  <2>2. /\ log' = [u \in Turns |-> NewLog] /\ cancelTimer' = NoTurn
        /\ queue' = <<>> /\ replies' = <<>> /\ deferred' = <<>>
    BY <1>2 DEF Restart
  <2>3. CallsInv'
    BY <2>2, NewLogGood DEF CallsInv
  <2> QED BY <2>1, <2>3
<1>3. CASE DeferredSweep
  <2>1. Spared \in SUBSET Turns
    BY <1>1 DEF Spared
  <2>2. Sweep(Spared)
    BY <1>3 DEF DeferredSweep
  <2>3. [Next]_storeVars
    BY <2>1, <2>2, SweepRefines
  <2>4. CallsInv'
    BY <1>3, CallsUnchanged DEF DeferredSweep, stopVars, dbVars
  <2> QED BY <2>3, <2>4
<1> QED BY <1>2, <1>3

\* A hub that has just started has made no call.
LEMMA CallsInvInit == HubInit => CallsInv
BY NewLogGood DEF HubInit, CallsInv

\* Every step of the hub keeps the calls good and is, below, a transaction of
\* the store or no change.
LEMMA HubStepRefines == CallsInv /\ [HubNext]_vars => CallsInv' /\ [Next]_storeVars
<1> SUFFICES ASSUME CallsInv, [HubNext]_vars
             PROVE  CallsInv' /\ [Next]_storeVars
  OBVIOUS
<1>1. CASE Backend
  <2>1. CASE RunCall \/ RunDeferred \/ WorkerReady \/ CheckpointRejected
    BY <2>1, DatabaseStep
  <2>2. CASE ReceiveBegin
    <3>1. PICK u \in Turns : u = Head(replies).turn
      BY <2>2 DEF ReceiveBegin, CallsInv, GoodCalls, Calls
    <3> QED BY <2>2, <3>1, SubmitStep
  <2>3. CASE ReceiveFinalize
    BY <2>3, ReceiveFinalizeGood
  <2>4. CASE CancelTimeout
    <3>1. cancelTimer \in Turns
      BY <2>4 DEF CancelTimeout, CallsInv
    <3> QED BY <2>4, <3>1, StopStep
  <2>5. ASSUME NEW t \in Turns,
               \/ ReachHead(t) \/ BeginSelfTurn(t) \/ Microtask(t)
               \/ SteerSettles(t) \/ CancelAnswered(t) \/ TitleArrives(t)
               \/ ReservationExpires(t) \/ Evict(t)
        PROVE  CallsInv' /\ [Next]_storeVars
    <3>1. CASE ReachHead(t) \/ BeginSelfTurn(t)
      BY <3>1, SubmitStep
    <3>2. CASE Persist(t)
      BY <3>2, PersistGood
    <3>3. CASE FinallyBlock(t)
      BY <3>3, RuntimeStep
    <3>4. CASE ForceFinished(t) \/ CancelAnswered(t) \/ ReservationExpires(t)
      BY <3>4, StopStep
    <3>5. CASE SteerSettles(t) \/ TitleArrives(t)
      BY <3>5, TitleAndSteerStep
    <3>6. CASE Evict(t)
      BY <3>6, EvictGood
    <3> QED BY <2>5, <3>1, <3>2, <3>3, <3>4, <3>5, <3>6 DEF Microtask
  <2> QED BY <1>1, <2>1, <2>2, <2>3, <2>4, <2>5 DEF Backend
<1>2. CASE Client
  <2>1. PICK t \in Turns : \/ StartTurn(t) \/ QueueSelfTurn(t) \/ Steer(t)
                           \/ StopActive(t) \/ ReserveCancellation(t)
    BY <1>2 DEF Client
  <2> QED BY <2>1, SubmitStep, TitleAndSteerStep, StopStep
<1>3. ASSUME NEW t \in Turns, Runtime(t)
      PROVE  CallsInv' /\ [Next]_storeVars
  <2>1. CASE DrainEnds(t)
    BY <2>1, SubmitStep
  <2>2. CASE ~DrainEnds(t)
    BY <1>3, <2>2, RuntimeStep DEF Runtime
  <2> QED BY <2>1, <2>2
<1>4. CASE Faults
  BY <1>4, DatabaseStep, RestartStep DEF Faults
<1>5. CASE UNCHANGED vars
  BY <1>5, CallsUnchanged DEF vars, hubVars, stopVars, dbVars
<1> QED BY <1>1, <1>2, <1>3, <1>4, <1>5 DEF HubNext

\* Every effect of the hub on the rows is a whole transaction of turns.ts, so
\* what is proved about the store holds below a running hub.
LEMMA HubKeepsStore == HubSpec => Spec
<1>1. HubInit => Init
  BY DEF HubInit
<1> QED BY <1>1, CallsInvInit, HubStepRefines, PTL DEF HubSpec, Spec

\* So a node that shows a turn streaming belongs to a turn that is active,
\* below any history of the hub.
THEOREM HubLeavesNoOrphanSpinner == HubSpec => []StreamingNodeHasActiveTurn
BY HubKeepsStore, NoOrphanSpinner, PTL

\* And an outcome that is recorded is never changed or removed by a late call,
\* a repeated finalization or a sweep of the hub.
THEOREM HubOutcomesAreFinal == HubSpec => OutcomeIsFinal
BY HubKeepsStore, OutcomesAreFinal, PTL

=============================================================================
