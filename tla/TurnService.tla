----------------------------- MODULE TurnService -----------------------------
(***************************************************************************)
(* What a chat promises about its turns, without queues, workers, logs,    *)
(* timers and calls that are late, lost or refused:                        *)
(*                                                                         *)
(*   - turns run one at a time; only a turn without a row starts, or one   *)
(*     that is resumed after a crash;                                      *)
(*   - the runtime gets a turn's prompt once per process, not before the   *)
(*     turn is on disk and not after it was cancelled;                     *)
(*   - how a turn ends is judged once, while it runs: as cancelled only    *)
(*     when it was asked for or the runtime says so, otherwise only after  *)
(*     its prompt went out;                                                *)
(*   - that judgement, and nothing else, becomes the outcome on disk of a  *)
(*     turn the runtime was given, and it is told as it is on disk, or not *)
(*     at all;                                                             *)
(*   - turns nobody runs any more are ended as errors, except those that   *)
(*     will be resumed; a crash leaves no others behind.                   *)
(*                                                                         *)
(* ChatHub implements this.                                                *)
(***************************************************************************)
CONSTANTS
    Turns,
    Resumed     \* turns that are resumed after a crash

VARIABLES
    running,    \* turns that are between their start and their end
    row,        \* the outcome on disk; "none" without a row, "active" without an outcome
    asked,      \* turns somebody asked to cancel
    sent,       \* turns whose prompt went to the runtime in this process
    verdict,    \* how a running turn was judged to end, or "none"
    told        \* the outcome that was told, or "none"

serviceVars == <<running, row, asked, sent, verdict, told>>

Outcomes == {"completed", "cancelled", "error"}

Nothing == [t \in Turns |-> "none"]

ServiceInit ==
    /\ running = {} /\ asked = {} /\ sent = {}
    /\ row = Nothing /\ verdict = Nothing /\ told = Nothing

Open(t) ==
    /\ running = {} /\ t \notin sent
    /\ row[t] = "none" \/ (row[t] = "active" /\ t \in Resumed)
    /\ running' = {t}
    /\ UNCHANGED <<row, asked, sent, verdict, told>>

Begin(t) ==
    /\ t \in running \ sent /\ row[t] = "none"
    /\ row' = [row EXCEPT ![t] = "active"]
    /\ UNCHANGED <<running, asked, sent, verdict, told>>

Send(t) ==
    /\ t \in running \ sent /\ row[t] # "none" /\ verdict[t] = "none"
    /\ sent' = sent \cup {t}
    /\ UNCHANGED <<running, row, asked, verdict, told>>

Ask(t) ==
    /\ asked' = asked \cup {t}
    /\ UNCHANGED <<running, row, sent, verdict, told>>

Judge(t, s) ==
    /\ t \in running /\ verdict[t] = "none"
    /\ IF s = "cancelled" THEN t \in asked ELSE t \in sent
    /\ verdict' = [verdict EXCEPT ![t] = s]
    /\ UNCHANGED <<running, row, asked, sent, told>>

\* The runtime cancels the turn by itself.
Quit(t) ==
    /\ t \in running \cap sent /\ verdict[t] = "none"
    /\ asked' = asked \cup {t}
    /\ verdict' = [verdict EXCEPT ![t] = "cancelled"]
    /\ UNCHANGED <<running, row, sent, told>>

Record(t) ==
    /\ t \in running /\ row[t] = "active" /\ verdict[t] # "none"
    /\ row' = [row EXCEPT ![t] = verdict[t]]
    /\ UNCHANGED <<running, asked, sent, verdict, told>>

\* The end is told with the outcome on disk, or it is not told.
End(t) ==
    /\ t \in running
    /\ running' = running \ {t}
    /\ verdict' = [verdict EXCEPT ![t] = "none"]
    /\ \/ UNCHANGED told
       \/ row[t] = verdict[t] /\ told' = [told EXCEPT ![t] = row[t]]
    /\ UNCHANGED <<row, asked, sent>>

\* Never a turn that was sent or judged and still runs, nor one that is resumed.
Abandon(S) ==
    /\ \A t \in S : /\ row[t] = "active" /\ t \notin Resumed
                    /\ t \in running => t \notin sent /\ verdict[t] = "none"
    /\ row' = [t \in Turns |-> IF t \in S THEN "error" ELSE row[t]]
    /\ UNCHANGED <<running, asked, sent, verdict, told>>

Crash ==
    /\ running' = {} /\ sent' = {} /\ verdict' = Nothing
    /\ row' = [t \in Turns |-> IF row[t] = "active" /\ t \notin Resumed THEN "error" ELSE row[t]]
    /\ UNCHANGED <<asked, told>>

ServiceNext ==
    \/ \E t \in Turns : \/ Open(t) \/ Begin(t) \/ Send(t) \/ Ask(t) \/ Quit(t)
                        \/ Record(t) \/ End(t)
                        \/ \E s \in Outcomes : Judge(t, s)
    \/ \E S \in SUBSET Turns : Abandon(S)
    \/ Crash

ServiceSpec == ServiceInit /\ [][ServiceNext]_serviceVars
=============================================================================
