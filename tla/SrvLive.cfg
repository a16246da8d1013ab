SPECIFICATION LiveSpec
CONSTANTS
  Ids = {default, a, b}
  Default = default
  MaxSessions = 2
  Ttl = 0
  MaxEpisodes = 1
  Slots = {t1, t2}
  UsedOperations = {"reset", "step", "read", "baseline"}
  BaselineSteps = 1
  Links = {link}
  RequestBound = 3
  ClockBound = 0
  None = None
PROPERTY LocksAreReleased
PROPERTY ImplementsAuditedSessions
