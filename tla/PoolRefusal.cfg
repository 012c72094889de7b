CONSTANTS
  Workers = {w1}
  Keepers = {k}
  Pingers = {}
  PoolSize = 3
  Ops = {"Insert"}
  Fragile = {}
  JustCreated = FALSE
  Wraps = TRUE
  Nobody = Nobody
  w1 = w1
  k = k
SPECIFICATION Spec
INVARIANT NeverRefused
