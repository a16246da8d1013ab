SPECIFICATION LimiterSpec
CONSTANTS
  Keys = {k1, k2}
  Wrong = {k2}
  Limits = {0, 1, 2}
  Minute = 3
  MaxLag = 1
  ClockBound = 4
INVARIANT EveryWindowWithinRate
INVARIANT NoNeedlessRefusal
