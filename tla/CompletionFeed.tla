--------------------------- MODULE CompletionFeed ---------------------------
(***************************************************************************)
(* What the turn store promises to the readers of conversation updates     *)
(* (services/conversationUpdates.ts): finished turns are numbered by their *)
(* workspace, one after the other, once; a turn that changes workspace     *)
(* loses its number and gets no other.  TurnStore implements this, and     *)
(* MemoryExtraction is built on it.                                        *)
(***************************************************************************)
EXTENDS Integers

CONSTANTS
    Turns,
    Workspaces,
    MaxCounter    \* Number.MAX_SAFE_INTEGER: where a completion counter stops

VARIABLES
    place,     \* the workspace a turn's node is in
    number,    \* completion_seq; Unfinished while the turn has no outcome
    counter    \* conversationCompletionCounter of every workspace

feedVars == <<place, number, counter>>

Unfinished == -1
Unnumbered == 0

FeedInit ==
    /\ place \in [Turns -> Workspaces]
    /\ number = [t \in Turns |-> Unfinished]
    /\ counter = [w \in Workspaces |-> 0]

\* A turn completes in the workspace it is in now.
Complete(t) ==
    LET w == place[t]
    IN  /\ number[t] = Unfinished /\ counter[w] < MaxCounter
        /\ number' = [number EXCEPT ![t] = counter[w] + 1]
        /\ counter' = [counter EXCEPT ![w] = @ + 1]
        /\ UNCHANGED place

\* Turns end in a way no reader is told of.
EndUntold(S) ==
    /\ \A t \in S : number[t] = Unfinished
    /\ number' = [t \in Turns |-> IF t \in S THEN Unnumbered ELSE number[t]]
    /\ UNCHANGED <<place, counter>>

\* Turns change workspace together.
Move(S, to) ==
    /\ place' = [t \in Turns |-> IF t \in S THEN to ELSE place[t]]
    /\ number' = [t \in Turns |-> IF t \in S /\ place[t] # to /\ number[t] # Unfinished
                                  THEN Unnumbered ELSE number[t]]
    /\ UNCHANGED counter

FeedNext ==
    \/ \E t \in Turns : Complete(t)
    \/ \E S \in SUBSET Turns : EndUntold(S)
    \/ \E S \in SUBSET Turns, to \in Workspaces : Move(S, to)

FeedSpec == FeedInit /\ [][FeedNext]_feedVars
=============================================================================
