CONSTANTS
  Workers = {w1, w2}
  Keepers = {}
  Pingers = {}
  PoolSize = 2
  Ops = {"Insert"}
  Fragile = {}
  JustCreated = FALSE
  Wraps = TRUE
  Nobody = Nobody
  w1 = w1
  w2 = w2
SPECIFICATION Spec
INVARIANT OwnAnswer
