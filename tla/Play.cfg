SPECIFICATION PlaySpec
CONSTANTS
  Tasks <- MCTasks
  Contended <- MCContended
  Disturbances = 1
  Registry <- MCRegistry
  GeneratedScenarios <- MCNoScenario
  Modes = {"tier1_solo"}
  UsedActions <- MCActions
  AlertIds <- MCAlertIds
  NamedAlerts <- MCAlertIds
  Verdicts = {"true_positive", "false_positive", "benign_true_positive"}
  Indicators <- MCIndicators
  Hosts = {"host"}
  Users = {}
  LogSources <- MCLogSources
  Techniques <- MCTechniques
  ResponseActions <- MCResponses
  ParentOf <- MCParentOf
  GraderScores = {}
  JudgeRewards = {}
  PhaseBudget <- MCBudget
  StepBound = 0
  None = None
INVARIANT InactionEarnsTheFloor
INVARIANT LeaderboardHolds
INVARIANT EveryStepIsNewWork
INVARIANT SubmitsFinishedWork
INVARIANT PlaysFinishTheirWork
PROPERTY RightVerdictNeverCosts
