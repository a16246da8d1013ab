SPECIFICATION LiveSpec
CONSTANTS
  Registry <- MCTwoAlerts
  GeneratedScenarios <- MCNoScenario
  Modes = {"team", "tier1_solo"}
  AlertIds <- MCAlertIds
  Indicators = {"ioc"}
  Hosts = {"host"}
  Users = {"user"}
  LogSources = {"edr"}
  Techniques = {"T1566.001", "T1566.002", "T1486"}
  ResponseActions = {"isolate", "block_ip", "no_action"}
  ParentOf <- MCParentOf
  GraderScores = {600}
  JudgeRewards = {75}
  PhaseBudget <- MCTeamBudget
  StepBound = 3
  None = None
  UsedActions = {"escalate_to_tier2", "close_case", "override_classification", "submit_investigation", "phase_complete", "noop"}
  NamedAlerts = {"tp", "fp", "X", None}
  Verdicts = {"true_positive"}
INVARIANT Tier2ViewConsistent
INVARIANT TicketTrailFollowsPhases
PROPERTY ImplementsTeamEpisode
PROPERTY EpisodesEnd
PROPERTY EscalationsReachOversight
