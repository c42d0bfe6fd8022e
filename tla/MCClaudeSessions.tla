-------------------------- MODULE MCClaudeSessions --------------------------
(* Instances of ClaudeSessions for TLC. *)
EXTENDS ClaudeSessions, TLC

CONSTANTS A, B, x, y, new, old

\* Two ids that compete for the budget, and releases of the first by its owner
\* and by another.
OneOwner == {<<A, new>>, <<B, new>>}
Disputed == {<<A, new>>, <<A, old>>}
=============================================================================
