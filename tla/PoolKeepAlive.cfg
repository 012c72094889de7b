CONSTANTS
  Workers = {w1}
  Keepers = {k}
  Pingers = {}
  PoolSize = 3
  Ops = {"Insert"}
  Fragile = {0, 1, 2}
  JustCreated = FALSE
  Wraps = FALSE
  Nobody = Nobody
  w1 = w1
  k = k
SPECIFICATION FairSpec
PROPERTY DroppedRestored
