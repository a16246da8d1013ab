SPECIFICATION Spec
CONSTANTS
  Stages <- MCStages
  Window = 3
  Clients = {"grpo-worker-0", "grpo-worker-1"}
  GroupSize = 2
  Batches = 2
  RoleSteps = {0, 1}
  EpisodeLength = 3
  StepRewards <- MCRewards
  Qualities = {"strict"}
  Patience = 2
  None = None
CHECK_DEADLOCK FALSE
INVARIANT ScoredNoLaterThanSampled
