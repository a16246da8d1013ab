--------------------------- MODULE MCSessionThemes ---------------------------
(***************************************************************************)
(* A small instance of SessionThemes for TLC, on a clock scaled down: the   *)
(* code's actors write every 12, 20 and 6 steps and its SLA budgets are     *)
(* 10, 20, 40 and 80 steps.  An episode of 10 steps is the shortest with    *)
(* drifts, in steps 3..7.                                                  *)
(***************************************************************************)
EXTENDS SessionThemes

MCCadence == [a \in Actors |->
  CASE a = "threat_intel" -> [from |-> 1, every |-> 4, offset |-> 0]
    [] a = "compliance"   -> [from |-> 2, every |-> 3, offset |-> 0]
    [] a = "end_user"     -> [from |-> 0, every |-> 4, offset |-> 2]]
MCRounds == {-1, 0}
MCSlaBudget == [p \in {"P1", "P3"} |-> IF p = "P1" THEN 2 ELSE 4]
MCHeuristic == [e \in {"detailed", "vague"} |-> IF e = "detailed" THEN 35 ELSE 10]
=============================================================================
