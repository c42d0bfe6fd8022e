---------------------------- MODULE MCTurnStore ----------------------------
(***************************************************************************)
(* TurnStore on two trees, one with two turns on its node, and two         *)
(* workspaces, so that completion counters meet after a move.              *)
(***************************************************************************)
EXTENDS TurnStore
CONSTANTS t1, t2, t3, n1, n2, w1, w2
MCTurns == {t1, t2, t3}
MCNodes == {n1, n2}
MCNodeOf == [t \in MCTurns |-> IF t = t3 THEN n2 ELSE n1]
MCTreeOf == [n \in MCNodes |-> n]
MCHasUser == {t1, t3}
MCScheduled == {}
=============================================================================
