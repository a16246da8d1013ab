---------------------------- MODULE MCTrainingRun ----------------------------
(***************************************************************************)
(* The three stages of default_team_curriculum for TLC, with small samples *)
(* and, in the last stage, the generated task.                             *)
(***************************************************************************)
EXTENDS TrainingRun

Stage(tasks, threshold, samples, rounds) ==
  [tasks |-> tasks, promotion_threshold |-> threshold, min_samples |-> samples,
   max_rounds |-> rounds]

MCStages ==
  <<Stage({"team_phishing_escalation"}, 5, 2, 2),
    Stage({"team_phishing_escalation", "team_lateral_team"}, 8, 3, 2),
    Stage({"team_lateral_team", "red_team_generated"}, 10, 3, 2)>>
MCRewards == {-5, 10}
=============================================================================
