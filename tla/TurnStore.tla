----------------------------- MODULE TurnStore -----------------------------
(***************************************************************************)
(* The durable half of a Michi chat turn: the SQLite rows written by       *)
(* turnPersistence.core.ts (begin / checkpoint / finalize), by the boot    *)
(* sweep recoverInterruptedTurns and by moveTreeToWorkspace.               *)
(*                                                                         *)
(* Every action is one transaction.  The snapshot a caller passes is       *)
(* arbitrary: writes may arrive late, twice or in any order, from the main *)
(* thread or from the database worker, so what is shown here holds for     *)
(* every caller.  A transaction that throws is rolled back and is a        *)
(* stuttering step.                                                        *)
(*                                                                         *)
(* Message texts, blocks, titles and follow-ups are left out; a message is *)
(* its id and its position (messages.seq).  A turn accepts at most one     *)
(* steering message.                                                       *)
(***************************************************************************)
EXTENDS Integers

CONSTANTS
    Turns,        \* turn ids
    Nodes,        \* chat nodes
    Trees,        \* trees of nodes; a tree moves between workspaces as a whole
    Workspaces,
    NodeOf,       \* the node a turn id belongs to
    TreeOf,       \* nodes.tree_id
    HasUser,      \* turns that begin with a user message
    Scheduled,    \* turns whose input was written by a scheduled job
    MaxSeq,       \* bound on the event numbers of one turn
    MaxCounter    \* Number.MAX_SAFE_INTEGER: where a completion counter stops

ASSUME TurnAssumption ==
    /\ NodeOf \in [Turns -> Nodes]
    /\ TreeOf \in [Nodes -> Trees]
    /\ HasUser \subseteq Turns
    /\ Scheduled \subseteq HasUser
ASSUME BoundAssumption == MaxSeq \in Nat /\ MaxCounter \in Nat

VARIABLES
    turnStatus,        \* turns.status, "none" before the row exists
    lastSeq,           \* turns.last_seq
    completionSeq,     \* turns.completion_seq, Null while not set
    node,              \* nodes.status, last_applied_turn_id, last_applied_seq
    nodeWorkspace,     \* nodes.workspace_id
    treeWorkspace,     \* trees.workspace_id
    completionCounter, \* meta['conversation_completion_seq:<workspace>']
    messageSeq         \* messages.seq of a turn's rows, Absent before they exist

storeVars == <<turnStatus, lastSeq, completionSeq, node, nodeWorkspace,
               treeWorkspace, completionCounter, messageSeq>>

Null == 0        \* completion sequence numbers start at 1
Absent == -1     \* message positions start at 0
NoTurn == "no turn"
Roles == {"user", "steer", "assistant"}
Terminal == {"completed", "cancelled", "error"}
SeqNumbers == -1 .. MaxSeq   \* -1 is createDurableTurn's lastAppliedSeq

TypeOK ==
    /\ turnStatus \in [Turns -> Terminal \cup {"none", "active"}]
    /\ lastSeq \in [Turns -> SeqNumbers]
    /\ completionSeq \in [Turns -> Nat]
    /\ node \in [Nodes -> [status : {"idle", "streaming", "error"},
                           turn : Turns \cup {NoTurn},
                           seq : SeqNumbers]]
    /\ nodeWorkspace \in [Nodes -> Workspaces]
    /\ treeWorkspace \in [Trees -> Workspaces]
    /\ completionCounter \in [Workspaces -> 0 .. MaxCounter]
    /\ messageSeq \in [Turns -> [Roles -> Nat \cup {Absent}]]

(***************************************************************************)
(* A node starts with no turn, in the workspace of its tree.               *)
(***************************************************************************)
Init ==
    /\ turnStatus = [t \in Turns |-> "none"]
    /\ lastSeq = [t \in Turns |-> -1]
    /\ completionSeq = [t \in Turns |-> Null]
    /\ node = [n \in Nodes |-> [status |-> "idle", turn |-> NoTurn, seq |-> -1]]
    /\ treeWorkspace \in [Trees -> Workspaces]
    /\ nodeWorkspace = [n \in Nodes |-> treeWorkspace[TreeOf[n]]]
    /\ completionCounter = [w \in Workspaces |-> 0]
    /\ messageSeq = [t \in Turns |-> [r \in Roles |-> Absent]]

-----------------------------------------------------------------------------
(***************************************************************************)
(* MAX(seq) + 1 over the messages of a node, 0 when it has none.           *)
(***************************************************************************)
IsNextSeq(n, s) ==
    /\ \A t \in Turns, r \in Roles : NodeOf[t] = n => messageSeq[t][r] < s
    /\ \/ s = 0
       \/ \E t \in Turns, r \in Roles : NodeOf[t] = n /\ messageSeq[t][r] = s - 1

NextSeq(n) ==
    CHOOSE s \in {0} \cup {messageSeq[t][r] + 1 : t \in Turns, r \in Roles} : IsNextSeq(n, s)

\* Mutant: only the turn's own assistant message makes room.
SteerWithoutShift(t, steered) ==
    LET place == messageSeq[t]["assistant"]
    IN  IF steered /\ messageSeq[t]["steer"] = Absent
        THEN messageSeq' = [messageSeq EXCEPT ![t]["steer"] = place, ![t]["assistant"] = place + 1]
        ELSE UNCHANGED messageSeq

(***************************************************************************)
(* writeSteeredMessages: an accepted steering message that is not stored   *)
(* yet takes the position of its turn's assistant message, which moves up  *)
(* by one together with everything behind it.                              *)
(***************************************************************************)
WriteSteeredMessages(t, steered) ==
    LET place == messageSeq[t]["assistant"]
        moved(u, r) == IF NodeOf[u] = NodeOf[t] /\ messageSeq[u][r] >= place
                       THEN messageSeq[u][r] + 1 ELSE messageSeq[u][r]
    IN  IF steered /\ messageSeq[t]["steer"] = Absent
        THEN messageSeq' = [u \in Turns |-> [r \in Roles |->
                 IF u = t /\ r = "steer" THEN place ELSE moved(u, r)]]
        ELSE UNCHANGED messageSeq

(***************************************************************************)
(* writeTurnNodeProjection: the node shows the turn and how far it is.     *)
(***************************************************************************)
WriteTurnNodeProjection(t, s, q) ==
    node' = [node EXCEPT ![NodeOf[t]] = [status |-> s, turn |-> t, seq |-> q]]

TerminalNodeStatus(s) == IF s = "error" THEN "error" ELSE "idle"

(***************************************************************************)
(* The provisional messages: the user's, if there is one, at s, then the   *)
(* empty reply.                                                            *)
(***************************************************************************)
ProvisionalRows(t, s) ==
    [r \in Roles |-> IF r = "steer" \/ (r = "user" /\ t \notin HasUser) THEN Absent
                     ELSE IF r = "assistant" /\ t \in HasUser THEN s + 1 ELSE s]

(***************************************************************************)
(* coreBeginTurn, first call: the provisional messages and the receipt.    *)
(* A second call for the same id finds the row and changes nothing here.   *)
(***************************************************************************)
BeginTurn(t) ==
    /\ turnStatus[t] = "none"
    /\ messageSeq' = [messageSeq EXCEPT ![t] = ProvisionalRows(t, NextSeq(NodeOf[t]))]
    /\ turnStatus' = [turnStatus EXCEPT ![t] = "active"]
    /\ lastSeq' = [lastSeq EXCEPT ![t] = -1]
    /\ WriteTurnNodeProjection(t, "streaming", -1)
    /\ UNCHANGED <<completionSeq, nodeWorkspace, treeWorkspace, completionCounter>>

\* Mutant: a late checkpoint reaches a terminal row.
AnyRowAhead(t, q) == turnStatus[t] # "none" /\ q >= lastSeq[t]

CheckpointApplies(t, q) == turnStatus[t] = "active" /\ q >= lastSeq[t]

(***************************************************************************)
(* coreCheckpointTurn: partial output, unless the row is terminal or       *)
(* already ahead of the snapshot.                                          *)
(***************************************************************************)
CheckpointTurn(t, q, steered) ==
    /\ CheckpointApplies(t, q)
    /\ WriteSteeredMessages(t, steered)
    /\ WriteTurnNodeProjection(t, "streaming", q)
    /\ lastSeq' = [lastSeq EXCEPT ![t] = q]
    /\ UNCHANGED <<turnStatus, completionSeq, nodeWorkspace, treeWorkspace, completionCounter>>

(***************************************************************************)
(* The finalized turn is one a conversation reader is told about.          *)
(***************************************************************************)
Counted(t, s) == s = "completed" /\ t \in HasUser /\ t \notin Scheduled

(***************************************************************************)
(* The number a counted turn takes from the counter of the workspace its   *)
(* node is in now, not of the one it began in.                             *)
(***************************************************************************)
TakeCompletionSeq(t, s) ==
    LET w == nodeWorkspace[NodeOf[t]]
    IN  IF Counted(t, s)
        THEN /\ completionCounter[w] < MaxCounter
             /\ completionSeq' = [completionSeq EXCEPT ![t] = completionCounter[w] + 1]
             /\ completionCounter' = [completionCounter EXCEPT ![w] = completionCounter[w] + 1]
        ELSE /\ completionSeq' = [completionSeq EXCEPT ![t] = Null]
             /\ UNCHANGED completionCounter

\* Mutant: a second finalization replaces the first.
FinalizeAnyRow(t) == turnStatus[t] # "none"

FinalizeApplies(t) == turnStatus[t] = "active"

(***************************************************************************)
(* coreFinalizeTurn on an active row.  On a terminal row it returns the    *)
(* row (same status) or throws, on a missing row it throws: no change.     *)
(***************************************************************************)
FinalizeTurn(t, s, q, steered) ==
    /\ FinalizeApplies(t)
    /\ WriteSteeredMessages(t, steered)
    /\ WriteTurnNodeProjection(t, TerminalNodeStatus(s), q)
    /\ TakeCompletionSeq(t, s)
    /\ turnStatus' = [turnStatus EXCEPT ![t] = s]
    /\ lastSeq' = [lastSeq EXCEPT ![t] = q]
    /\ UNCHANGED <<nodeWorkspace, treeWorkspace>>

(***************************************************************************)
(* recoverInterruptedTurns: every active turn that the caller does not     *)
(* preserve ends as an error; its node stops streaming.                    *)
(***************************************************************************)
RecoverInterruptedTurns(preserve) ==
    LET interrupted == {t \in Turns : turnStatus[t] = "active"} \ preserve
    IN  /\ interrupted # {}
        /\ turnStatus' = [t \in Turns |-> IF t \in interrupted THEN "error" ELSE turnStatus[t]]
        /\ node' = [n \in Nodes |->
               IF node[n].status = "streaming" /\ \E t \in interrupted : NodeOf[t] = n
               THEN [node[n] EXCEPT !.status = "error"] ELSE node[n]]
        /\ UNCHANGED <<lastSeq, completionSeq, nodeWorkspace, treeWorkspace,
                       completionCounter, messageSeq>>

\* Mutant: a moved turn keeps the number its old workspace gave it.
NumbersAfterMove(tree, to) == completionSeq

\* Mutant: a move to the workspace the tree is in erases the numbers too.
NumbersAlwaysErased(tree, to) ==
    [t \in Turns |-> IF TreeOf[NodeOf[t]] = tree THEN Null ELSE completionSeq[t]]

\* The completion numbers of a tree that changes workspace are erased.
CompletionsAfterMove(tree, to) ==
    IF treeWorkspace[tree] = to THEN completionSeq
    ELSE [t \in Turns |-> IF TreeOf[NodeOf[t]] = tree THEN Null ELSE completionSeq[t]]

(***************************************************************************)
(* moveTreeToWorkspace: the tree and all its nodes change workspace, and   *)
(* completion numbers given out by the old workspace are erased.           *)
(***************************************************************************)
MoveTreeToWorkspace(tree, to) ==
    /\ treeWorkspace' = [treeWorkspace EXCEPT ![tree] = to]
    /\ nodeWorkspace' = [n \in Nodes |-> IF TreeOf[n] = tree THEN to ELSE nodeWorkspace[n]]
    /\ completionSeq' = CompletionsAfterMove(tree, to)
    /\ UNCHANGED <<turnStatus, lastSeq, node, completionCounter, messageSeq>>

Next ==
    \/ \E t \in Turns : BeginTurn(t)
    \/ \E t \in Turns, q \in 0 .. MaxSeq, b \in BOOLEAN : CheckpointTurn(t, q, b)
    \/ \E t \in Turns, s \in Terminal, q \in 0 .. MaxSeq, b \in BOOLEAN :
           FinalizeTurn(t, s, q, b)
    \/ \E preserve \in SUBSET Turns : RecoverInterruptedTurns(preserve)
    \/ \E tree \in Trees, w \in Workspaces : MoveTreeToWorkspace(tree, w)

Spec == Init /\ [][Next]_storeVars

-----------------------------------------------------------------------------
(***************************************************************************)
(* Properties                                                              *)
(***************************************************************************)

\* A reader of conversation updates pages through a workspace by completion
\* number (conversationUpdates.ts): no two turns whose nodes are in the same
\* workspace carry the same number, and none is ahead of the counter the
\* reader takes as its upper bound, although trees move between workspaces
\* that count independently.
CompletionSeqUnique ==
    \A t, u \in Turns :
        LET w == nodeWorkspace[NodeOf[t]] IN
        completionSeq[t] # Null =>
            /\ completionSeq[t] <= completionCounter[w]
            /\ (u # t /\ nodeWorkspace[NodeOf[u]] = w) => completionSeq[u] # completionSeq[t]

\* A turn that finishes later is never behind a reader's cursor: a completion
\* number that appears is above the counter its workspace had before, and a
\* counter never goes back.
CompletionBehindCounter ==
    [][/\ \A w \in Workspaces : completionCounter'[w] >= completionCounter[w]
       /\ \A t \in Turns :
              completionSeq'[t] \notin {completionSeq[t], Null}
                  => completionSeq'[t] > completionCounter[nodeWorkspace[NodeOf[t]]]]_storeVars

\* Once a turn has its outcome no late checkpoint, second finalization or
\* restart sweep changes the outcome or the last applied event.
OutcomeIsFinal ==
    [][\A t \in Turns : turnStatus[t] \in Terminal =>
           turnStatus'[t] = turnStatus[t] /\ lastSeq'[t] = lastSeq[t]]_storeVars

\* A node shown as streaming has a turn that can still finish: no write order
\* and no sweep leaves a spinner behind whose turns are all over.
StreamingNodeHasActiveTurn ==
    \A n \in Nodes : node[n].status = "streaming" =>
        \E t \in Turns : NodeOf[t] = n /\ turnStatus[t] = "active"

Before(t, u) == \A r, q \in Roles :
    messageSeq[t][r] # Absent /\ messageSeq[u][q] # Absent => messageSeq[t][r] < messageSeq[u][q]

\* The rows of a turn are one block of the transcript in the order user,
\* steering, assistant, and the blocks of a node's turns do not overlap, even
\* when steering is written into a turn that is no longer the last one.
\* conversationUpdates.turnMessages reads a turn by the bounds of this block.
MessageBlocks ==
    \A t \in Turns : messageSeq[t]["assistant"] # Absent =>
        /\ \A r \in Roles \ {"assistant"} : messageSeq[t][r] < messageSeq[t]["assistant"]
        /\ messageSeq[t]["steer"] # Absent => messageSeq[t]["user"] < messageSeq[t]["steer"]
        /\ \A u \in Turns \ {t} : NodeOf[u] = NodeOf[t] => Before(t, u) \/ Before(u, t)

(***************************************************************************)
(* What readers of conversation updates see of the store.                  *)
(***************************************************************************)
Feed == INSTANCE CompletionFeed WITH
    place   <- [t \in Turns |-> nodeWorkspace[NodeOf[t]]],
    number  <- [t \in Turns |-> IF turnStatus[t] \in Terminal THEN completionSeq[t] ELSE -1],
    counter <- completionCounter

\* Whatever order begins, late writes, sweeps and moves come in, a reader sees
\* the feed of CompletionFeed: a turn is numbered at most once, when it ends, by
\* the workspace it is in then, and a move only ever takes a number away.
StoreImplementsFeed == Feed!FeedSpec
=============================================================================
