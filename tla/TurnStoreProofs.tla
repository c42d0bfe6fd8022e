-------------------------- MODULE TurnStoreProofs --------------------------
(***************************************************************************)
(* Proofs about TurnStore, for every set of turns, nodes, trees and        *)
(* workspaces and every bound.                                             *)
(***************************************************************************)
EXTENDS TurnStore, TLAPS

-----------------------------------------------------------------------------
(***************************************************************************)
(* The node rows of a tree follow the tree's own row.  Without this the    *)
(* uniqueness of completion numbers is not inductive: a move that keeps    *)
(* the numbers would have to be known to keep the workspace as well.       *)
(***************************************************************************)
NodesFollowTree == \A n \in Nodes : nodeWorkspace[n] = treeWorkspace[TreeOf[n]]

CompletionInv == TypeOK /\ NodesFollowTree /\ CompletionSeqUnique

(***************************************************************************)
(* A turn has an assistant row exactly when it has a receipt, and every    *)
(* node has a next free position.  MAX(seq)+1 is a CHOOSE, so its          *)
(* existence is carried along as an invariant.                             *)
(***************************************************************************)
RowsWithReceipt ==
    \A t \in Turns :
        /\ turnStatus[t] = "none" => \A r \in Roles : messageSeq[t][r] = Absent
        /\ turnStatus[t] # "none" => messageSeq[t]["assistant"] # Absent

NextSeqExists == \A n \in Nodes : \E s \in Nat : IsNextSeq(n, s)

MessageInv == TypeOK /\ RowsWithReceipt /\ NextSeqExists /\ MessageBlocks

-----------------------------------------------------------------------------
(***************************************************************************)
(* The node projection of a turn is well typed.                            *)
(***************************************************************************)
LEMMA ProjectionType ==
    ASSUME TypeOK, NEW t \in Turns, NEW s \in {"idle", "streaming", "error"},
           NEW q \in SeqNumbers, WriteTurnNodeProjection(t, s, q)
    PROVE  node' \in [Nodes -> [status : {"idle", "streaming", "error"},
                                turn : Turns \cup {NoTurn}, seq : SeqNumbers]]
BY TurnAssumption DEF TypeOK, WriteTurnNodeProjection

(***************************************************************************)
(* Writing steering keeps every position a natural number or Absent.       *)
(***************************************************************************)
LEMMA SteeringType ==
    ASSUME TypeOK, NEW t \in Turns, NEW b \in BOOLEAN, WriteSteeredMessages(t, b)
    PROVE  messageSeq' \in [Turns -> [Roles -> Nat \cup {Absent}]]
BY SMTT(30) DEF TypeOK, WriteSteeredMessages, Absent, Roles

(***************************************************************************)
(* A finalization gives out a natural number and keeps the counter within  *)
(* its range.                                                              *)
(***************************************************************************)
LEMMA CompletionType ==
    ASSUME TypeOK, NEW t \in Turns, NEW s \in Terminal, TakeCompletionSeq(t, s)
    PROVE  /\ completionSeq' \in [Turns -> Nat]
           /\ completionCounter' \in [Workspaces -> 0 .. MaxCounter]
<1> DEFINE w == nodeWorkspace[NodeOf[t]]
<1>1. w \in Workspaces /\ completionCounter[w] \in 0 .. MaxCounter
  BY TurnAssumption DEF TypeOK
<1>2. CASE Counted(t, s)
  <2>1. completionCounter[w] + 1 \in 0 .. MaxCounter
    BY <1>1, <1>2, BoundAssumption DEF TakeCompletionSeq
  <2>2. /\ completionSeq' = [completionSeq EXCEPT ![t] = completionCounter[w] + 1]
        /\ completionCounter' = [completionCounter EXCEPT ![w] = completionCounter[w] + 1]
    BY <1>2 DEF TakeCompletionSeq
  <2> HIDE DEF w
  <2> QED BY <1>1, <2>1, <2>2, BoundAssumption DEF TypeOK
<1>3. CASE ~Counted(t, s)
  BY <1>3 DEF TakeCompletionSeq, TypeOK, Null
<1> QED BY <1>2, <1>3

(***************************************************************************)
(* The position a begin takes is the next free one, once one exists.       *)
(***************************************************************************)
LEMMA NextSeqIsNext ==
    ASSUME TypeOK, NEW n \in Nodes, NEW x \in Nat, IsNextSeq(n, x)
    PROVE  NextSeq(n) \in Nat /\ IsNextSeq(n, NextSeq(n))
<1> DEFINE C == {0} \cup {messageSeq[t][r] + 1 : t \in Turns, r \in Roles}
<1>1. x \in C
  BY DEF IsNextSeq, TypeOK, Absent
<1>2. C \subseteq Nat
  <2>1. \A t \in Turns, r \in Roles : messageSeq[t][r] + 1 \in Nat
    BY DEF TypeOK, Absent
  <2> QED BY <2>1
<1>3. \E s \in C : IsNextSeq(n, s)
  BY <1>1
<1>4. NextSeq(n) \in C /\ IsNextSeq(n, NextSeq(n))
  <2> HIDE DEF C
  <2>1. NextSeq(n) = CHOOSE s \in C : IsNextSeq(n, s)
    BY DEF NextSeq, C
  <2> QED BY <1>3, <2>1
<1> QED BY <1>2, <1>4

-----------------------------------------------------------------------------
(***************************************************************************)
(* What a single step may do, one lemma per idea, shared by the theorems.  *)
(***************************************************************************)

\* Every transaction leaves well typed rows.  Begin is the only one that needs
\* a fact beyond the types: the next message position exists.
LEMMA TypeStep ==
    ASSUME TypeOK, NextSeqExists, [Next]_storeVars
    PROVE  TypeOK'
<1> USE DEF Terminal, SeqNumbers, Null
<1>1. ASSUME NEW t \in Turns, BeginTurn(t) PROVE TypeOK'
  <2> DEFINE s == NextSeq(NodeOf[t])
  <2>1. s \in Nat
    BY NextSeqIsNext, TurnAssumption DEF NextSeqExists
  <2> HIDE DEF s
  <2>2. messageSeq' \in [Turns -> [Roles -> Nat \cup {Absent}]]
    <3>1. ProvisionalRows(t, s) \in [Roles -> Nat \cup {Absent}]
      BY <2>1 DEF Roles, ProvisionalRows
    <3>2. messageSeq' = [messageSeq EXCEPT ![t] = ProvisionalRows(t, s)]
      BY <1>1 DEF BeginTurn, s
    <3> QED BY <3>1, <3>2 DEF TypeOK
  <2>3. node' \in [Nodes -> [status : {"idle", "streaming", "error"},
                             turn : Turns \cup {NoTurn}, seq : SeqNumbers]]
    BY <1>1, ProjectionType, BoundAssumption DEF BeginTurn
  <2> QED BY <1>1, <2>2, <2>3, BoundAssumption DEF BeginTurn, TypeOK
<1>2. ASSUME NEW t \in Turns, NEW q \in 0 .. MaxSeq, NEW b \in BOOLEAN,
             CheckpointTurn(t, q, b)
      PROVE  TypeOK'
  <2>1. q \in SeqNumbers
    BY BoundAssumption
  <2>2. node' \in [Nodes -> [status : {"idle", "streaming", "error"},
                             turn : Turns \cup {NoTurn}, seq : SeqNumbers]]
    BY <1>2, <2>1, ProjectionType DEF CheckpointTurn
  <2>3. messageSeq' \in [Turns -> [Roles -> Nat \cup {Absent}]]
    BY <1>2, SteeringType DEF CheckpointTurn
  <2> QED BY <1>2, <2>1, <2>2, <2>3 DEF CheckpointTurn, TypeOK
<1>3. ASSUME NEW t \in Turns, NEW s \in Terminal, NEW q \in 0 .. MaxSeq,
             NEW b \in BOOLEAN, FinalizeTurn(t, s, q, b)
      PROVE  TypeOK'
  <2>1. q \in SeqNumbers
    BY BoundAssumption
  <2>2. node' \in [Nodes -> [status : {"idle", "streaming", "error"},
                             turn : Turns \cup {NoTurn}, seq : SeqNumbers]]
    <3>1. TerminalNodeStatus(s) \in {"idle", "streaming", "error"}
      BY DEF TerminalNodeStatus
    <3> QED BY <1>3, <2>1, <3>1, ProjectionType DEF FinalizeTurn
  <2>3. messageSeq' \in [Turns -> [Roles -> Nat \cup {Absent}]]
    BY <1>3, SteeringType DEF FinalizeTurn
  <2>4. /\ completionSeq' \in [Turns -> Nat]
        /\ completionCounter' \in [Workspaces -> 0 .. MaxCounter]
    BY <1>3, CompletionType DEF FinalizeTurn
  <2> QED BY <1>3, <2>1, <2>2, <2>3, <2>4 DEF FinalizeTurn, TypeOK
<1>4. ASSUME NEW preserve \in SUBSET Turns, RecoverInterruptedTurns(preserve)
      PROVE  TypeOK'
  BY ZenonT(40), <1>4 DEF RecoverInterruptedTurns, TypeOK
<1>5. ASSUME NEW tree \in Trees, NEW w \in Workspaces, MoveTreeToWorkspace(tree, w)
      PROVE  TypeOK'
  BY <1>5 DEF MoveTreeToWorkspace, CompletionsAfterMove, TypeOK
<1>6. CASE UNCHANGED storeVars
  BY <1>6 DEF storeVars, TypeOK
<1> QED BY <1>1, <1>2, <1>3, <1>4, <1>5, <1>6 DEF Next

-----------------------------------------------------------------------------
(***************************************************************************)
(* Completion numbers                                                      *)
(***************************************************************************)

\* Finalizing, moving and everything else keep completion numbers unique in
\* a workspace and bounded by its counter.
LEMMA CompletionStep ==
    ASSUME CompletionInv, TypeOK', [Next]_storeVars
    PROVE  NodesFollowTree' /\ CompletionSeqUnique'
<1>0. TypeOK /\ NodesFollowTree /\ CompletionSeqUnique
  BY DEF CompletionInv
<1>1. CASE UNCHANGED <<completionSeq, nodeWorkspace, treeWorkspace, completionCounter>>
  BY <1>0, <1>1 DEF NodesFollowTree, CompletionSeqUnique
<1>2. ASSUME NEW t \in Turns, NEW s \in Terminal, NEW q \in 0 .. MaxSeq,
             NEW b \in BOOLEAN, FinalizeTurn(t, s, q, b)
      PROVE  NodesFollowTree' /\ CompletionSeqUnique'
  <2> DEFINE w == nodeWorkspace[NodeOf[t]]
  <2>1. UNCHANGED <<nodeWorkspace, treeWorkspace>>
    BY <1>2 DEF FinalizeTurn
  <2>2. w \in Workspaces /\ completionCounter[w] \in Nat
    BY <1>0, TurnAssumption, BoundAssumption DEF TypeOK
  <2>3. CASE Counted(t, s)
    <3>1. /\ completionSeq' = [completionSeq EXCEPT ![t] = completionCounter[w] + 1]
          /\ completionCounter' = [completionCounter EXCEPT ![w] = completionCounter[w] + 1]
      BY <1>2, <2>3 DEF FinalizeTurn, TakeCompletionSeq
    <3>2. NodesFollowTree'
      BY <1>0, <2>1 DEF NodesFollowTree
    <3>3. \A u \in Turns : nodeWorkspace[NodeOf[u]] \in Workspaces
      BY <1>0, TurnAssumption DEF TypeOK
    <3>4. /\ completionSeq'[t] = completionCounter[w] + 1
          /\ \A u \in Turns \ {t} : completionSeq'[u] = completionSeq[u]
      BY <1>0, <3>1 DEF TypeOK
    <3>5. /\ completionCounter'[w] = completionCounter[w] + 1
          /\ \A v \in Workspaces \ {w} : completionCounter'[v] = completionCounter[v]
      BY <1>0, <2>2, <3>1 DEF TypeOK
    <3>6. \A u \in Turns : completionSeq[u] \in Nat
      BY <1>0 DEF TypeOK
    <3>7. CompletionSeqUnique'
      BY <1>0, <2>1, <2>2, <3>3, <3>4, <3>5, <3>6 DEF CompletionSeqUnique, Null
    <3> QED BY <3>2, <3>7
  <2>4. CASE ~Counted(t, s)
    <3>1. completionSeq' = [completionSeq EXCEPT ![t] = Null] /\ completionCounter' = completionCounter
      BY <1>2, <2>4 DEF FinalizeTurn, TakeCompletionSeq
    <3>2. completionSeq'[t] = Null /\ \A u \in Turns \ {t} : completionSeq'[u] = completionSeq[u]
      BY <1>0, <3>1 DEF TypeOK
    <3> QED BY <1>0, <2>1, <3>1, <3>2 DEF NodesFollowTree, CompletionSeqUnique
  <2> QED BY <2>3, <2>4
<1>3. ASSUME NEW tree \in Trees, NEW to \in Workspaces, MoveTreeToWorkspace(tree, to)
      PROVE  NodesFollowTree' /\ CompletionSeqUnique'
  <2>1. NodesFollowTree'
    BY <1>0, <1>3, TurnAssumption DEF MoveTreeToWorkspace, NodesFollowTree, TypeOK
  <2>2. CASE treeWorkspace[tree] = to
    <3>1. nodeWorkspace' = nodeWorkspace
      BY <1>0, <1>3, <2>2 DEF MoveTreeToWorkspace, NodesFollowTree, TypeOK
    <3> QED BY <1>0, <1>3, <2>1, <2>2, <3>1
            DEF MoveTreeToWorkspace, CompletionsAfterMove, CompletionSeqUnique
  <2>3. CASE treeWorkspace[tree] # to
    BY <1>0, <1>3, <2>1, <2>3, TurnAssumption
       DEF MoveTreeToWorkspace, CompletionsAfterMove, CompletionSeqUnique, TypeOK, Null
  <2> QED BY <2>2, <2>3
<1> QED
  BY <1>1, <1>2, <1>3
     DEF Next, BeginTurn, CheckpointTurn, RecoverInterruptedTurns, storeVars

\* A step takes a completion number only from above the counter.
LEMMA CompletionBehindStep ==
    ASSUME TypeOK, [Next]_storeVars
    PROVE  /\ \A w \in Workspaces : completionCounter'[w] >= completionCounter[w]
           /\ \A t \in Turns :
                  completionSeq'[t] \notin {completionSeq[t], Null}
                      => completionSeq'[t] > completionCounter[nodeWorkspace[NodeOf[t]]]
<1>1. CASE UNCHANGED <<completionSeq, completionCounter>>
  BY <1>1, BoundAssumption DEF TypeOK
<1>2. ASSUME NEW t \in Turns, NEW s \in Terminal, NEW q \in 0 .. MaxSeq,
             NEW b \in BOOLEAN, FinalizeTurn(t, s, q, b)
      PROVE  /\ \A w \in Workspaces : completionCounter'[w] >= completionCounter[w]
             /\ \A u \in Turns :
                    completionSeq'[u] \notin {completionSeq[u], Null}
                        => completionSeq'[u] > completionCounter[nodeWorkspace[NodeOf[u]]]
  <2> DEFINE w == nodeWorkspace[NodeOf[t]]
  <2>2. w \in Workspaces /\ completionCounter[w] \in Nat
    BY TurnAssumption, BoundAssumption DEF TypeOK
  <2>3. CASE Counted(t, s)
    <3>1. /\ completionSeq' = [completionSeq EXCEPT ![t] = completionCounter[w] + 1]
          /\ completionCounter' = [completionCounter EXCEPT ![w] = completionCounter[w] + 1]
      BY <1>2, <2>3 DEF FinalizeTurn, TakeCompletionSeq
    <3> QED BY <2>2, <3>1, BoundAssumption DEF TypeOK
  <2>4. CASE ~Counted(t, s)
    BY <1>2, <2>4, BoundAssumption DEF FinalizeTurn, TakeCompletionSeq, TypeOK
  <2> QED BY <2>3, <2>4
<1>3. ASSUME NEW tree \in Trees, NEW to \in Workspaces, MoveTreeToWorkspace(tree, to)
      PROVE  /\ \A w \in Workspaces : completionCounter'[w] >= completionCounter[w]
             /\ \A t \in Turns : completionSeq'[t] \in {completionSeq[t], Null}
  BY <1>3, BoundAssumption DEF MoveTreeToWorkspace, CompletionsAfterMove, TypeOK
<1> QED
  BY <1>1, <1>2, <1>3
     DEF Next, BeginTurn, CheckpointTurn, RecoverInterruptedTurns, storeVars

-----------------------------------------------------------------------------
(***************************************************************************)
(* Outcomes and spinners                                                   *)
(***************************************************************************)

\* No step changes the row of a turn that has its outcome.
LEMMA OutcomeStep ==
    ASSUME TypeOK, [Next]_storeVars, NEW t \in Turns, turnStatus[t] \in Terminal
    PROVE  turnStatus'[t] = turnStatus[t] /\ lastSeq'[t] = lastSeq[t]
BY DEF Next, BeginTurn, CheckpointTurn, CheckpointApplies, FinalizeTurn, FinalizeApplies,
       RecoverInterruptedTurns,
       MoveTreeToWorkspace, CompletionsAfterMove, storeVars, TypeOK, Terminal

\* A node stops streaming no later than its last active turn ends.
LEMMA StreamingStep ==
    ASSUME TypeOK, StreamingNodeHasActiveTurn, [Next]_storeVars
    PROVE  StreamingNodeHasActiveTurn'
<1>1. ASSUME NEW t \in Turns, BeginTurn(t) PROVE StreamingNodeHasActiveTurn'
  BY <1>1, TurnAssumption
     DEF BeginTurn, WriteTurnNodeProjection, StreamingNodeHasActiveTurn, TypeOK
<1>2. ASSUME NEW t \in Turns, NEW q \in 0 .. MaxSeq, NEW b \in BOOLEAN,
             CheckpointTurn(t, q, b)
      PROVE  StreamingNodeHasActiveTurn'
  BY <1>2, TurnAssumption
     DEF CheckpointTurn, CheckpointApplies, WriteTurnNodeProjection,
         StreamingNodeHasActiveTurn, TypeOK
<1>3. ASSUME NEW t \in Turns, NEW s \in Terminal, NEW q \in 0 .. MaxSeq,
             NEW b \in BOOLEAN, FinalizeTurn(t, s, q, b)
      PROVE  StreamingNodeHasActiveTurn'
  BY <1>3, TurnAssumption
     DEF FinalizeTurn, FinalizeApplies, WriteTurnNodeProjection, TerminalNodeStatus,
         StreamingNodeHasActiveTurn, TypeOK
<1>4. ASSUME NEW preserve \in SUBSET Turns, RecoverInterruptedTurns(preserve)
      PROVE  StreamingNodeHasActiveTurn'
  BY <1>4 DEF RecoverInterruptedTurns, StreamingNodeHasActiveTurn, TypeOK
<1>5. CASE UNCHANGED <<node, turnStatus>>
  BY <1>5 DEF StreamingNodeHasActiveTurn
<1> QED BY <1>1, <1>2, <1>3, <1>4, <1>5 DEF Next, MoveTreeToWorkspace, storeVars

-----------------------------------------------------------------------------
(***************************************************************************)
(* The transcript                                                          *)
(***************************************************************************)

\* Writing a steering message into a turn that has its reply row keeps the
\* transcript in blocks: the shift is strictly monotone on the node, and the
\* gap it opens is the place of the steering message.
LEMMA SteeringKeepsBlocks ==
    ASSUME TypeOK, NextSeqExists, MessageBlocks,
           NEW t \in Turns, messageSeq[t]["assistant"] # Absent,
           NEW b \in BOOLEAN, WriteSteeredMessages(t, b)
    PROVE  /\ NextSeqExists' /\ MessageBlocks'
           /\ \A u \in Turns, r \in Roles :
                  /\ messageSeq[u][r] # Absent => messageSeq'[u][r] # Absent
                  /\ u # t /\ messageSeq[u][r] = Absent => messageSeq'[u][r] = Absent
<1> DEFINE place == messageSeq[t]["assistant"]
<1>0. place \in Nat /\ "assistant" \in Roles /\ "steer" \in Roles /\ "user" \in Roles
  BY DEF TypeOK, Roles
<1>1. CASE ~(b /\ messageSeq[t]["steer"] = Absent)
  <2>1. messageSeq' = messageSeq
    BY <1>1 DEF WriteSteeredMessages
  <2> QED BY <2>1 DEF NextSeqExists, IsNextSeq, MessageBlocks, Before
<1>2. CASE b /\ messageSeq[t]["steer"] = Absent
  <2> DEFINE shift(u, r) == IF NodeOf[u] = NodeOf[t] /\ messageSeq[u][r] >= place
                            THEN messageSeq[u][r] + 1 ELSE messageSeq[u][r]
  <2>1. messageSeq' = [u \in Turns |-> [r \in Roles |->
            IF u = t /\ r = "steer" THEN place ELSE shift(u, r)]]
    BY <1>2 DEF WriteSteeredMessages
  <2>2. \A u \in Turns, r \in Roles :
            messageSeq'[u][r] = IF u = t /\ r = "steer" THEN place ELSE shift(u, r)
    BY <2>1
  <2>3. \A u \in Turns, r \in Roles : messageSeq[u][r] \in Nat \cup {Absent}
    BY DEF TypeOK
  <2>4. \A u \in Turns, r \in Roles :
            /\ messageSeq[u][r] # Absent => messageSeq'[u][r] # Absent
            /\ u # t /\ messageSeq[u][r] = Absent => messageSeq'[u][r] = Absent
    BY <1>0, <1>2, <2>2, <2>3 DEF Absent
  <2>5. NextSeqExists'
    <3> SUFFICES ASSUME NEW n \in Nodes PROVE \E s \in Nat : IsNextSeq(n, s)'
      BY DEF NextSeqExists
    <3>1. PICK s \in Nat : IsNextSeq(n, s)
      BY DEF NextSeqExists
    <3>2. CASE n # NodeOf[t]
      BY <2>2, <3>1, <3>2 DEF IsNextSeq
    <3>3. CASE n = NodeOf[t]
      <4>1. place < s
        BY <1>0, <3>1, <3>3 DEF IsNextSeq
      <4>2. PICK u \in Turns, r \in Roles : NodeOf[u] = n /\ messageSeq[u][r] = s - 1
        BY <1>0, <3>1, <4>1 DEF IsNextSeq
      <4>3. messageSeq'[u][r] = s
        BY <1>0, <1>2, <2>2, <3>3, <4>1, <4>2 DEF Absent
      <4>4. \A v \in Turns, q \in Roles : NodeOf[v] = n => messageSeq'[v][q] < s + 1
        BY <1>0, <2>2, <2>3, <3>1, <3>3, <4>1 DEF IsNextSeq, Absent
      <4>5. IsNextSeq(n, s + 1)'
        BY <4>2, <4>3, <4>4 DEF IsNextSeq
      <4> QED BY <4>5
    <3> QED BY <3>2, <3>3
  <2>6. MessageBlocks'
    <3> SUFFICES ASSUME NEW v \in Turns, messageSeq'[v]["assistant"] # Absent
                 PROVE  /\ \A r \in Roles \ {"assistant"} :
                               messageSeq'[v][r] < messageSeq'[v]["assistant"]
                        /\ messageSeq'[v]["steer"] # Absent =>
                               messageSeq'[v]["user"] < messageSeq'[v]["steer"]
                        /\ \A u \in Turns \ {v} : NodeOf[u] = NodeOf[v] =>
                               Before(v, u)' \/ Before(u, v)'
      BY DEF MessageBlocks
    <3>1. messageSeq[v]["assistant"] # Absent
      BY <1>0, <2>4
    <3>2. /\ \A r \in Roles \ {"assistant"} : messageSeq[v][r] < messageSeq[v]["assistant"]
          /\ messageSeq[v]["steer"] # Absent =>
                 messageSeq[v]["user"] < messageSeq[v]["steer"]
          /\ \A u \in Turns \ {v} : NodeOf[u] = NodeOf[v] => Before(v, u) \/ Before(u, v)
      BY <3>1 DEF MessageBlocks
    <3>3. /\ \A r \in Roles \ {"assistant"} : messageSeq'[v][r] < messageSeq'[v]["assistant"]
          /\ messageSeq'[v]["steer"] # Absent =>
                 messageSeq'[v]["user"] < messageSeq'[v]["steer"]
      BY <1>0, <2>2, <2>3, <3>1, <3>2 DEF Absent, Roles
    <3>4. ASSUME NEW u \in Turns \ {v}, NodeOf[u] = NodeOf[v]
          PROVE  Before(v, u)' \/ Before(u, v)'
      <4>1. \A x, y \in Turns : x # y /\ NodeOf[x] = NodeOf[y] /\ Before(x, y) => Before(x, y)'
        BY <1>0, <2>2, <2>3 DEF Before, Absent
      <4> QED BY <3>2, <3>4, <4>1
    <3> QED BY <3>3, <3>4
  <2> QED BY <2>4, <2>5, <2>6
<1> QED BY <1>1, <1>2

\* The messages a begin writes are a new last block of their node.
LEMMA BeginKeepsBlocks ==
    ASSUME MessageInv, NEW t \in Turns, BeginTurn(t)
    PROVE  NextSeqExists' /\ MessageBlocks' /\ RowsWithReceipt'
<1> DEFINE n == NodeOf[t]
<1>0. TypeOK /\ RowsWithReceipt /\ NextSeqExists /\ MessageBlocks
  BY DEF MessageInv
<1>1. PICK s \in Nat : s = NextSeq(n) /\ IsNextSeq(n, s)
  BY <1>0, NextSeqIsNext, TurnAssumption DEF NextSeqExists
<1> DEFINE last == IF t \in HasUser THEN s + 1 ELSE s
<1>2. /\ \A u \in Turns \ {t}, r \in Roles : messageSeq'[u][r] = messageSeq[u][r]
      /\ messageSeq'[t]["assistant"] = last /\ messageSeq'[t]["steer"] = Absent
      /\ messageSeq'[t]["user"] = IF t \in HasUser THEN s ELSE Absent
  BY <1>0, <1>1 DEF BeginTurn, ProvisionalRows, TypeOK, Roles
<1>3. \A r \in Roles : messageSeq[t][r] = Absent
  BY <1>0 DEF BeginTurn, RowsWithReceipt
<1>4. \A u \in Turns, r \in Roles : /\ messageSeq[u][r] \in Nat \cup {Absent}
                                    /\ NodeOf[u] = n => messageSeq[u][r] < s
  BY <1>0, <1>1 DEF TypeOK, IsNextSeq
<1>5. NextSeqExists'
  <2> SUFFICES ASSUME NEW m \in Nodes PROVE \E x \in Nat : IsNextSeq(m, x)'
    BY DEF NextSeqExists
  <2>1. CASE m # n
    BY <1>0, <1>2, <2>1 DEF NextSeqExists, IsNextSeq
  <2>2. CASE m = n
    <3>1. \A u \in Turns, r \in Roles : NodeOf[u] = n => messageSeq'[u][r] < last + 1
      BY <1>1, <1>2, <1>4 DEF Roles, Absent
    <3>2. last + 1 \in Nat /\ messageSeq'[t]["assistant"] = (last + 1) - 1
      BY <1>1, <1>2
    <3>3. IsNextSeq(n, last + 1)'
      BY <3>1, <3>2 DEF IsNextSeq, Roles
    <3> QED BY <2>2, <3>2, <3>3
  <2> QED BY <2>1, <2>2
<1>6. MessageBlocks'
  <2>1. ASSUME NEW u \in Turns \ {t}, NodeOf[u] = n PROVE Before(u, t)'
    BY <1>1, <1>2, <1>4, <2>1 DEF Before, Roles, Absent
  <2>2. \A u, v \in Turns \ {t} : Before(u, v)' <=> Before(u, v)
    BY <1>2 DEF Before
  <2>3. /\ \A r \in Roles \ {"assistant"} : messageSeq'[t][r] < messageSeq'[t]["assistant"]
        /\ messageSeq'[t]["steer"] # Absent =>
               messageSeq'[t]["user"] < messageSeq'[t]["steer"]
    BY <1>1, <1>2 DEF Roles, Absent
  <2>4. ASSUME NEW v \in Turns \ {t}, messageSeq'[v]["assistant"] # Absent
        PROVE  /\ \A r \in Roles \ {"assistant"} :
                      messageSeq'[v][r] < messageSeq'[v]["assistant"]
               /\ messageSeq'[v]["steer"] # Absent =>
                      messageSeq'[v]["user"] < messageSeq'[v]["steer"]
               /\ \A u \in Turns \ {t, v} : NodeOf[u] = NodeOf[v] =>
                      Before(v, u)' \/ Before(u, v)'
    BY <1>0, <1>2, <2>2, <2>4 DEF MessageBlocks, Roles
  <2> QED BY <2>1, <2>3, <2>4 DEF MessageBlocks
<1>7. RowsWithReceipt'
  BY <1>0, <1>1, <1>2 DEF BeginTurn, RowsWithReceipt, TypeOK, Absent
<1> QED BY <1>5, <1>6, <1>7

\* Every transaction keeps the transcript in blocks.
LEMMA MessageStep ==
    ASSUME MessageInv, [Next]_storeVars
    PROVE  RowsWithReceipt' /\ NextSeqExists' /\ MessageBlocks'
<1>0. TypeOK /\ RowsWithReceipt /\ NextSeqExists /\ MessageBlocks
  BY DEF MessageInv
<1>1. ASSUME NEW t \in Turns, BeginTurn(t)
      PROVE  RowsWithReceipt' /\ NextSeqExists' /\ MessageBlocks'
  BY <1>1, BeginKeepsBlocks
<1>2. ASSUME NEW t \in Turns, NEW b \in BOOLEAN, turnStatus[t] = "active",
             WriteSteeredMessages(t, b),
             \A u \in Turns : turnStatus'[u] = "none" <=> turnStatus[u] = "none"
      PROVE  RowsWithReceipt' /\ NextSeqExists' /\ MessageBlocks'
  <2>1. messageSeq[t]["assistant"] # Absent
    BY <1>0, <1>2 DEF RowsWithReceipt
  <2>2. /\ NextSeqExists' /\ MessageBlocks'
        /\ \A u \in Turns, r \in Roles :
               /\ messageSeq[u][r] # Absent => messageSeq'[u][r] # Absent
               /\ u # t /\ messageSeq[u][r] = Absent => messageSeq'[u][r] = Absent
    BY <1>0, <1>2, <2>1, SteeringKeepsBlocks
  <2> QED BY <1>0, <1>2, <2>2 DEF RowsWithReceipt, Roles
<1>3. CASE /\ UNCHANGED messageSeq
           /\ \A u \in Turns : turnStatus'[u] = "none" <=> turnStatus[u] = "none"
  BY <1>0, <1>3 DEF RowsWithReceipt, NextSeqExists, IsNextSeq, MessageBlocks, Before
<1>4. ASSUME NEW t \in Turns, NEW q \in 0 .. MaxSeq, NEW b \in BOOLEAN,
             CheckpointTurn(t, q, b)
      PROVE  RowsWithReceipt' /\ NextSeqExists' /\ MessageBlocks'
  BY <1>2, <1>4 DEF CheckpointTurn, CheckpointApplies
<1>5. ASSUME NEW t \in Turns, NEW s \in Terminal, NEW q \in 0 .. MaxSeq,
             NEW b \in BOOLEAN, FinalizeTurn(t, s, q, b)
      PROVE  RowsWithReceipt' /\ NextSeqExists' /\ MessageBlocks'
  <2>1. \A u \in Turns : turnStatus'[u] = "none" <=> turnStatus[u] = "none"
    BY <1>0, <1>5 DEF FinalizeTurn, FinalizeApplies, TypeOK, Terminal
  <2> QED BY <1>2, <1>5, <2>1 DEF FinalizeTurn, FinalizeApplies
<1>6. ASSUME NEW preserve \in SUBSET Turns, RecoverInterruptedTurns(preserve)
      PROVE  RowsWithReceipt' /\ NextSeqExists' /\ MessageBlocks'
  <2>1. UNCHANGED messageSeq
    BY <1>6 DEF RecoverInterruptedTurns
  <2>2. \A u \in Turns : turnStatus'[u] = "none" <=> turnStatus[u] = "none"
    BY <1>6 DEF RecoverInterruptedTurns
  <2> QED BY <1>3, <2>1, <2>2
<1> QED
  BY <1>1, <1>3, <1>4, <1>5, <1>6 DEF Next, MoveTreeToWorkspace, storeVars

-----------------------------------------------------------------------------
(***************************************************************************)
(* Theorems of the specification                                           *)
(***************************************************************************)
StoreInv ==
    /\ TypeOK
    /\ NodesFollowTree
    /\ CompletionSeqUnique
    /\ StreamingNodeHasActiveTurn
    /\ RowsWithReceipt
    /\ NextSeqExists
    /\ MessageBlocks

\* The inductive invariant of the turn store: what begin, checkpoint,
\* finalize, the restart sweep and a tree move preserve together.
THEOREM StoreInvariant == Spec => []StoreInv
<1>1. Init => StoreInv
  <2> SUFFICES ASSUME Init PROVE StoreInv
    OBVIOUS
  <2>1. TypeOK
    <3>1. node \in [Nodes -> [status : {"idle", "streaming", "error"},
                              turn : Turns \cup {NoTurn}, seq : SeqNumbers]]
      BY BoundAssumption DEF Init, SeqNumbers
    <3>2. nodeWorkspace \in [Nodes -> Workspaces]
      BY TurnAssumption DEF Init
    <3>3. /\ lastSeq \in [Turns -> SeqNumbers]
          /\ completionSeq \in [Turns -> Nat]
          /\ completionCounter \in [Workspaces -> 0 .. MaxCounter]
      BY BoundAssumption DEF Init, SeqNumbers, Null
    <3> QED BY <3>1, <3>2, <3>3 DEF Init, TypeOK
  <2>2. NodesFollowTree /\ CompletionSeqUnique /\ StreamingNodeHasActiveTurn
    BY TurnAssumption
       DEF Init, NodesFollowTree, CompletionSeqUnique, StreamingNodeHasActiveTurn
  <2>3. \A t \in Turns, r \in Roles : messageSeq[t][r] = Absent
    BY DEF Init
  <2>4. RowsWithReceipt /\ MessageBlocks
    BY <2>3 DEF Init, RowsWithReceipt, MessageBlocks, Roles
  <2>5. NextSeqExists
    <3>1. \A n \in Nodes : IsNextSeq(n, 0)
      BY <2>3 DEF IsNextSeq, Absent
    <3> QED BY <3>1 DEF NextSeqExists
  <2> QED BY <2>1, <2>2, <2>4, <2>5 DEF StoreInv
<1>2. StoreInv /\ [Next]_storeVars => StoreInv'
  <2> SUFFICES ASSUME StoreInv, [Next]_storeVars PROVE StoreInv'
    OBVIOUS
  <2>1. TypeOK'
    BY TypeStep DEF StoreInv
  <2>2. NodesFollowTree' /\ CompletionSeqUnique'
    BY <2>1, CompletionStep DEF StoreInv, CompletionInv
  <2>3. StreamingNodeHasActiveTurn'
    BY StreamingStep DEF StoreInv
  <2>4. RowsWithReceipt' /\ NextSeqExists' /\ MessageBlocks'
    BY MessageStep DEF StoreInv, MessageInv
  <2> QED BY <2>1, <2>2, <2>3, <2>4 DEF StoreInv
<1> QED BY <1>1, <1>2, PTL DEF Spec

\* Every row stays well typed, whatever order the transactions come in.
THEOREM TypeCorrect == Spec => []TypeOK
BY StoreInvariant, PTL DEF StoreInv

\* For any number of turns, trees and workspaces, and any history of moves:
\* a completion number names at most one turn of a workspace and is covered
\* by its counter.
THEOREM CompletionNumbersUnique == Spec => []CompletionSeqUnique
BY StoreInvariant, PTL DEF StoreInv

\* No order of begins, late checkpoints, finalizations and sweeps leaves a
\* node streaming without a turn that can finish.
THEOREM NoOrphanSpinner == Spec => []StreamingNodeHasActiveTurn
BY StoreInvariant, PTL DEF StoreInv

\* The messages of a node stay in blocks, one per turn, in the order user,
\* steering, assistant.
THEOREM TranscriptInBlocks == Spec => []MessageBlocks
BY StoreInvariant, PTL DEF StoreInv

\* A newly given completion number is above everything a reader has seen.
THEOREM CompletionsAreAhead == Spec => CompletionBehindCounter
<1> DEFINE A == /\ \A w \in Workspaces : completionCounter'[w] >= completionCounter[w]
                /\ \A t \in Turns :
                       completionSeq'[t] \notin {completionSeq[t], Null}
                           => completionSeq'[t] > completionCounter[nodeWorkspace[NodeOf[t]]]
<1>1. TypeOK /\ [Next]_storeVars => [A]_storeVars
  BY CompletionBehindStep
<1> QED BY <1>1, TypeCorrect, PTL DEF Spec, CompletionBehindCounter

\* The outcome of a turn is final.
THEOREM OutcomesAreFinal == Spec => OutcomeIsFinal
<1> DEFINE A == \A t \in Turns : turnStatus[t] \in Terminal =>
                    turnStatus'[t] = turnStatus[t] /\ lastSeq'[t] = lastSeq[t]
<1>1. TypeOK /\ [Next]_storeVars => [A]_storeVars
  BY OutcomeStep
<1> QED BY <1>1, TypeCorrect, PTL DEF Spec, OutcomeIsFinal

-----------------------------------------------------------------------------
(***************************************************************************)
(* The store implements the feed of its readers.  A number belongs to a    *)
(* turn that is over: without this a sweep could end a turn that already   *)
(* has one.                                                                *)
(***************************************************************************)
UnfinishedUnnumbered ==
    \A t \in Turns : turnStatus[t] \notin Terminal => completionSeq[t] = Null

Placed == [t \in Turns |-> nodeWorkspace[NodeOf[t]]]
Numbered == [t \in Turns |-> IF turnStatus[t] \in Terminal THEN completionSeq[t] ELSE -1]

(***************************************************************************)
(* A turn gets its number with its outcome and at no other time.           *)
(***************************************************************************)
LEMMA UnfinishedStep ==
    ASSUME TypeOK, UnfinishedUnnumbered, [Next]_storeVars
    PROVE  UnfinishedUnnumbered'
<1>1. ASSUME NEW t \in Turns, BeginTurn(t) PROVE UnfinishedUnnumbered'
  BY <1>1 DEF BeginTurn, UnfinishedUnnumbered, TypeOK, Terminal
<1>2. ASSUME NEW t \in Turns, NEW q \in 0 .. MaxSeq, NEW b \in BOOLEAN, CheckpointTurn(t, q, b)
      PROVE UnfinishedUnnumbered'
  BY <1>2 DEF CheckpointTurn, UnfinishedUnnumbered
<1>3. ASSUME NEW t \in Turns, NEW s \in Terminal, NEW q \in 0 .. MaxSeq, NEW b \in BOOLEAN,
             FinalizeTurn(t, s, q, b)
      PROVE UnfinishedUnnumbered'
  <2>1. turnStatus' = [turnStatus EXCEPT ![t] = s] /\ TakeCompletionSeq(t, s)
    BY <1>3 DEF FinalizeTurn
  <2>2. \A u \in Turns \ {t} : completionSeq'[u] = completionSeq[u] /\ turnStatus'[u] = turnStatus[u]
    BY <2>1 DEF TakeCompletionSeq, TypeOK
  <2>3. turnStatus'[t] \in Terminal
    BY <2>1 DEF TypeOK
  <2> QED BY <2>2, <2>3 DEF UnfinishedUnnumbered
<1>4. ASSUME NEW preserve \in SUBSET Turns, RecoverInterruptedTurns(preserve)
      PROVE UnfinishedUnnumbered'
  BY <1>4 DEF RecoverInterruptedTurns, UnfinishedUnnumbered, TypeOK, Terminal
<1>5. ASSUME NEW tree \in Trees, NEW w \in Workspaces, MoveTreeToWorkspace(tree, w)
      PROVE UnfinishedUnnumbered'
  BY <1>5 DEF MoveTreeToWorkspace, CompletionsAfterMove, UnfinishedUnnumbered, TypeOK
<1>6. CASE UNCHANGED storeVars
  BY <1>6 DEF storeVars, UnfinishedUnnumbered
<1> QED BY <1>1, <1>2, <1>3, <1>4, <1>5, <1>6 DEF Next

(***************************************************************************)
(* A finalization completes a turn of the feed or ends it untold.          *)
(***************************************************************************)
LEMMA FinalizeIsFeedStep ==
    ASSUME TypeOK, NEW t \in Turns, NEW s \in Terminal, NEW q \in 0 .. MaxSeq, NEW b \in BOOLEAN,
           FinalizeTurn(t, s, q, b)
    PROVE  Feed!FeedNext
<1> DEFINE w == nodeWorkspace[NodeOf[t]]
<1>1. /\ turnStatus[t] = "active"
      /\ turnStatus' = [turnStatus EXCEPT ![t] = s]
      /\ TakeCompletionSeq(t, s)
      /\ nodeWorkspace' = nodeWorkspace
  BY DEF FinalizeTurn, FinalizeApplies
<1>2. Placed' = Placed
  BY <1>1 DEF Placed
<1>3. turnStatus[t] \notin Terminal /\ Numbered[t] = -1
  BY <1>1 DEF Numbered, Terminal
<1>4. CASE Counted(t, s)
  <2>1. /\ completionCounter[w] < MaxCounter
        /\ completionSeq' = [completionSeq EXCEPT ![t] = completionCounter[w] + 1]
        /\ completionCounter' = [completionCounter EXCEPT ![w] = completionCounter[w] + 1]
    BY <1>1, <1>4 DEF TakeCompletionSeq
  <2>2. Numbered' = [Numbered EXCEPT ![t] = completionCounter[w] + 1]
    BY <1>1, <2>1 DEF Numbered, TypeOK
  <2>3. Placed[t] = w
    BY DEF Placed
  <2>4. Feed!Complete(t)
    BY <1>2, <1>3, <2>1, <2>2, <2>3 DEF Feed!Complete, Feed!Unfinished, Placed, Numbered
  <2> QED BY <2>4 DEF Feed!FeedNext
<1>5. CASE ~Counted(t, s)
  <2>1. completionSeq' = [completionSeq EXCEPT ![t] = Null] /\ completionCounter' = completionCounter
    BY <1>1, <1>5 DEF TakeCompletionSeq
  <2>2. Numbered' = [u \in Turns |-> IF u \in {t} THEN 0 ELSE Numbered[u]]
    BY <1>1, <2>1 DEF Numbered, TypeOK, Null
  <2>3. Feed!EndUntold({t})
    BY <1>2, <1>3, <2>1, <2>2 DEF Feed!EndUntold, Feed!Unfinished, Feed!Unnumbered, Placed, Numbered
  <2> QED BY <2>3 DEF Feed!FeedNext
<1> QED BY <1>4, <1>5

(***************************************************************************)
(* Every transaction is a step of the feed or leaves it alone.             *)
(***************************************************************************)
LEMMA FeedStep ==
    ASSUME TypeOK, NodesFollowTree, UnfinishedUnnumbered, [Next]_storeVars
    PROVE  [Feed!FeedNext]_(Feed!feedVars)
<1> DEFINE Same == Placed' = Placed /\ Numbered' = Numbered /\ completionCounter' = completionCounter
<1>0. Same => UNCHANGED Feed!feedVars
  BY DEF Feed!feedVars, Placed, Numbered
<1>1. ASSUME NEW t \in Turns, BeginTurn(t) PROVE Same
  BY <1>1 DEF BeginTurn, Placed, Numbered, TypeOK, Terminal
<1>2. ASSUME NEW t \in Turns, NEW q \in 0 .. MaxSeq, NEW b \in BOOLEAN, CheckpointTurn(t, q, b)
      PROVE Same
  BY <1>2 DEF CheckpointTurn, Placed, Numbered
<1>3. ASSUME NEW t \in Turns, NEW s \in Terminal, NEW q \in 0 .. MaxSeq, NEW b \in BOOLEAN,
             FinalizeTurn(t, s, q, b)
      PROVE Feed!FeedNext
  BY <1>3, FinalizeIsFeedStep
<1>4. ASSUME NEW preserve \in SUBSET Turns, RecoverInterruptedTurns(preserve)
      PROVE Feed!FeedNext
  <2> PICK S \in SUBSET Turns : S = {t \in Turns : turnStatus[t] = "active"} \ preserve
    OBVIOUS
  <2>1. /\ turnStatus' = [t \in Turns |-> IF t \in S THEN "error" ELSE turnStatus[t]]
        /\ completionSeq' = completionSeq /\ nodeWorkspace' = nodeWorkspace
        /\ completionCounter' = completionCounter
    BY <1>4 DEF RecoverInterruptedTurns
  <2>2. \A t \in S : Numbered[t] = -1 /\ completionSeq[t] = 0
    BY DEF Numbered, UnfinishedUnnumbered, Terminal, Null
  <2>3. Numbered' = [t \in Turns |-> IF t \in S THEN 0 ELSE Numbered[t]]
    BY <2>1, <2>2 DEF Numbered, Terminal
  <2>4. Placed' = Placed
    BY <2>1 DEF Placed
  <2>5. Feed!EndUntold(S)
    BY <2>1, <2>2, <2>3, <2>4 DEF Feed!EndUntold, Feed!Unfinished, Feed!Unnumbered, Placed, Numbered
  <2> QED BY <2>5 DEF Feed!FeedNext
<1>5. ASSUME NEW tree \in Trees, NEW to \in Workspaces, MoveTreeToWorkspace(tree, to)
      PROVE Feed!FeedNext
  <2> DEFINE S == {t \in Turns : TreeOf[NodeOf[t]] = tree}
  <2>1. /\ nodeWorkspace' = [n \in Nodes |-> IF TreeOf[n] = tree THEN to ELSE nodeWorkspace[n]]
        /\ completionSeq' = CompletionsAfterMove(tree, to)
        /\ turnStatus' = turnStatus /\ completionCounter' = completionCounter
    BY <1>5 DEF MoveTreeToWorkspace
  <2>2. Placed' = [t \in Turns |-> IF t \in S THEN to ELSE Placed[t]]
    BY <2>1, TurnAssumption DEF Placed
  <2>3. \A t \in S : Placed[t] = treeWorkspace[tree]
    BY TurnAssumption DEF Placed, NodesFollowTree
  <2>4. \A t \in Turns : completionSeq'[t] =
            IF t \in S /\ treeWorkspace[tree] # to THEN 0 ELSE completionSeq[t]
    BY <2>1 DEF CompletionsAfterMove, Null
  <2>5. \A t \in Turns : Numbered[t] # -1 <=> turnStatus[t] \in Terminal
    BY DEF Numbered, TypeOK
  <2>6. Numbered' = [t \in Turns |-> IF t \in S /\ Placed[t] # to /\ Numbered[t] # -1
                                     THEN 0 ELSE Numbered[t]]
    BY <2>1, <2>3, <2>4, <2>5 DEF Numbered
  <2>7. Feed!Move(S, to)
    BY <2>1, <2>2, <2>6 DEF Feed!Move, Feed!Unfinished, Feed!Unnumbered, Placed, Numbered
  <2> QED BY <2>7 DEF Feed!FeedNext
<1>6. CASE UNCHANGED storeVars
  <2>1. Same
    BY <1>6 DEF storeVars, Placed, Numbered
  <2> QED BY <1>0, <2>1
<1>7. CASE Next
  <2>1. Same \/ Feed!FeedNext
    BY <1>1, <1>2, <1>3, <1>4, <1>5, <1>7 DEF Next
  <2> QED BY <1>0, <2>1
<1> QED BY <1>6, <1>7

\* The store is a completion feed for any number of turns, trees and
\* workspaces: what is shown of its readers on CompletionFeed holds on the rows.
THEOREM StoreIsFeed == Spec => StoreImplementsFeed
<1>1. Init => Feed!FeedInit /\ UnfinishedUnnumbered
  BY TurnAssumption DEF Init, Feed!FeedInit, Feed!Unfinished, UnfinishedUnnumbered, Terminal
<1>2. TypeOK /\ UnfinishedUnnumbered /\ [Next]_storeVars => UnfinishedUnnumbered'
  BY UnfinishedStep
<1>3. StoreInv => TypeOK /\ NodesFollowTree
  BY DEF StoreInv
<1>4. TypeOK /\ NodesFollowTree /\ UnfinishedUnnumbered /\ [Next]_storeVars
      => [Feed!FeedNext]_(Feed!feedVars)
  BY FeedStep
<1> QED BY <1>1, <1>2, <1>3, <1>4, StoreInvariant, PTL DEF Spec, StoreImplementsFeed, Feed!FeedSpec
=============================================================================
