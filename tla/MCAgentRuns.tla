---------------------------- MODULE MCAgentRuns ----------------------------
(* Instances of AgentRunDelivery for TLC. *)
EXTENDS AgentRunDelivery, TLC

CONSTANTS p, q
=============================================================================
