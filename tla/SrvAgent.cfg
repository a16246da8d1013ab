SPECIFICATION Spec
CONSTANTS
  Ids = {default, a}
  Default = default
  MaxSessions = 2
  Ttl = 1
  MaxEpisodes = 2
  Slots = {t1, t2}
  UsedOperations = {"baseline"}
  BaselineSteps = 1
  Links = {link}
  RequestBound = 3
  ClockBound = 2
  None = None
SYMMETRY Alike
INVARIANT AgentRemembersThisPlay
