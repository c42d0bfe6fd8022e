------------------------- MODULE MCMemoryExtraction -------------------------
(***************************************************************************)
(* Two executions over turns that finish before, during and after a switch *)
(* of the mode, in a workspace with a consumer and one without.            *)
(***************************************************************************)
EXTENDS MemoryExtraction, TLC
CONSTANTS t1, t2, first, second, here, there, like, use
Interchangeable == Permutations({t1, t2}) \cup Permutations({first, second})
=============================================================================
