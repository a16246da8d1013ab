SPECIFICATION Spec
CONSTANTS
  Slots = {t1, t2}
  EpisodeLengths = {9}
  DriftCount = 2
  DriftKinds = {"admin_escalate"}
  Cadence <- MCCadence
  Priorities = {"P1", "P3"}
  SlaBudget <- MCSlaBudget
  Alerts = {"alert"}
  Explanations = {"detailed", "vague"}
  LlmScores = {90}
  Heuristic <- MCHeuristic
  RotationSize = 3
  None = None
  EpisodeBound = 2
  ClockBound = 5
  TicketBound = 0
  TrajectoryBound = 1
  RoundIndexes <- MCRounds
CHECK_DEADLOCK FALSE
INVARIANT VerdictIsOfItsExplanation
