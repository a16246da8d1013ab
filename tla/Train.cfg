SPECIFICATION FairSpec
CONSTANTS
  Stages <- MCStages
  Window = 3
  Clients = {"default"}
  GroupSize = 2
  Batches = 2
  RoleSteps = {0, 1}
  EpisodeLength = 3
  StepRewards <- MCRewards
  Qualities = {"strict"}
  Patience = 2
  None = None
CHECK_DEADLOCK FALSE
INVARIANT ScoredNoLaterThanSampled
PROPERTY StagesAreEarned
PROPERTY TrainingEnds
