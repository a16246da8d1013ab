---------------------------- MODULE TeamEpisode -----------------------------
(***************************************************************************)
(* What a team episode promises, without alerts, tools or rewards: the     *)
(* triage, response and oversight phases follow each other, each takes at  *)
(* most its budget of counted turns, response and oversight happen only if *)
(* something was escalated in triage, and the episode is over once and for *)
(* all.                                                                    *)
(***************************************************************************)
EXTENDS Naturals

CONSTANT PhaseBudget

VARIABLES at,        \* "none", "triage", "response", "oversight" or "over"
          spent,     \* turns of the present phase
          escalated  \* something was escalated

vars == <<at, spent, escalated>>

WorkPhases == {"triage", "response", "oversight"}

Init == at = "none" /\ spent = 0 /\ escalated = FALSE

\* A reset: to a team episode, or to a solo one which has no phases.
Begin == /\ at' \in {"none", "triage"}
         /\ spent' = 0
         /\ escalated' = FALSE

\* A turn that stays in its phase.  Only triage escalates.
Work == /\ at \in WorkPhases
        /\ spent + 1 < PhaseBudget[at]
        /\ spent' = spent + 1
        /\ escalated => escalated'
        /\ at # "triage" => escalated' = escalated
        /\ escalated' \in BOOLEAN
        /\ UNCHANGED at

\* The turn that ends triage may itself have escalated.
EndTriage == /\ at = "triage"
             /\ escalated => escalated'
             /\ \/ escalated' = TRUE /\ at' = "response" /\ spent' = 0
                \/ escalated' = FALSE /\ at' = "over" /\ spent' \in {spent, spent + 1}

EndResponse == at = "response" /\ at' = "oversight" /\ spent' = 0 /\ UNCHANGED escalated

EndOversight == /\ at = "oversight" /\ at' = "over" /\ spent' \in {spent, spent + 1}
                /\ UNCHANGED escalated

\* Solo episodes escalate without phases.
SoloEscalation == at = "none" /\ escalated' = TRUE /\ UNCHANGED <<at, spent>>

Next == Begin \/ Work \/ EndTriage \/ EndResponse \/ EndOversight \/ SoloEscalation

Spec == Init /\ [][Next]_vars

=============================================================================
