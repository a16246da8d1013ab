SPECIFICATION FairSpec
CONSTANTS
  MaxRetries = 1
  MaxSteps = 2
  StepCaps = {None, 3}
  IdleBound = 2
  None = None
CHECK_DEADLOCK FALSE
INVARIANT DuplicatesNeedTimeouts
INVARIANT TrajectoryAdvances
PROPERTY PlayEnds
