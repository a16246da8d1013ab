SPECIFICATION Spec
CONSTANTS
  Registry <- MCShort
  GeneratedScenarios <- MCOneAlert
  Modes = {"team", "tier1_solo"}
  AlertIds <- MCAlertIds
  Indicators = {"ioc"}
  Hosts = {"host"}
  Users = {"user"}
  LogSources = {"edr"}
  Techniques = {"T1566.001", "T1566.002"}
  ResponseActions = {"isolate"}
  ParentOf <- MCParentOf
  GraderScores = {600}
  JudgeRewards = {75}
  PhaseBudget <- MCShortBudget
  StepBound = 1
  None = None
  UsedActions = {"enrich_indicator", "query_logs", "correlate_alerts", "check_asset", "check_user", "classify_alert", "map_technique", "recommend_action", "submit_investigation", "phase_complete", "escalate_to_tier2", "forensic_timeline", "memory_analysis", "isolate_host", "disable_user", "sandbox_detonate", "block_ioc", "explain_team_behavior", "review_decision", "flag_inconsistency", "override_classification", "escalate", "close_case"}
  NamedAlerts = {"tp", "fp"}
  Verdicts = {"true_positive", "false_positive"}
INVARIANT TypeOK
INVARIANT PhaseAndDoneAgree
INVARIANT CorrelationsSymmetric
INVARIANT DispatchedStepsWithinBudget
INVARIANT QueueDiffersOnlyByOverride
INVARIANT SharedMetricPaidOnce
INVARIANT LedgerBalances
PROPERTY EveryTurnIsBooked
