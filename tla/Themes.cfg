SPECIFICATION Spec
CONSTANTS
  Slots = {t1, t2}
  EpisodeLengths = {9, 10}
  DriftCount = 2
  DriftKinds = {"admin_escalate"}
  Cadence <- MCCadence
  Priorities = {"P1", "P3"}
  SlaBudget <- MCSlaBudget
  Alerts = {"alert"}
  Explanations = {"detailed", "vague"}
  LlmScores = {90}
  Heuristic <- MCHeuristic
  RotationSize = 3
  None = None
  EpisodeBound = 2
  ClockBound = 6
  TicketBound = 1
  TrajectoryBound = 0
  RoundIndexes <- MCRounds
CHECK_DEADLOCK FALSE
INVARIANT DriftFollowsPlan
INVARIANT AuditsMissNoEarlierDrift
INVARIANT OutboxMatchesClock
INVARIANT ClocksMeasureAge
INVARIANT RepeatedVerdictStands
PROPERTY BreachesEndByResolution
