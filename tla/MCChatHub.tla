----------------------------- MODULE MCChatHub -----------------------------
(***************************************************************************)
(* ChatHub on one node of one tree and workspace.                          *)
(***************************************************************************)
EXTENDS ChatHub
CONSTANTS node1, workspace1
MCNodeOf == [t \in Turns |-> node1]
MCTreeOf == [n \in {node1} |-> node1]
=============================================================================
