SPECIFICATION Spec
CONSTANTS
  Ids = {default, a, b}
  Default = default
  MaxSessions = 2
  Ttl = 1
  MaxEpisodes = 2
  Slots = {t1, t2}
  UsedOperations = {"reset_body", "step", "view", "baseline"}
  BaselineSteps = 1
  Links = {}
  RequestBound = 3
  ClockBound = 2
  None = None
SYMMETRY Alike
INVARIANT TypeOK
INVARIANT PoolWithinCap
INVARIANT SessionsAreIsolated
INVARIANT TracesAreComplete
PROPERTY DefaultStays
