CONSTANTS
  Workers = {w1}
  Keepers = {k}
  Pingers = {p}
  PoolSize = 1
  Ops = {"Select", "Execute"}
  Fragile = {0}
  JustCreated = TRUE
  Wraps = TRUE
  Nobody = Nobody
  w1 = w1
  k = k
  p = p
SPECIFICATION FairSpec
INVARIANT TypeOK
INVARIANT BusyExactUntilOverlap
INVARIANT OwnAnswerUntilOverlap
INVARIANT PingInCommandIdle
PROPERTY CallsReturn
PROPERTY BusyEnds
PROPERTY WaitFree
