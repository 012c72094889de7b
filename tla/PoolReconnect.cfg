CONSTANTS
  Workers = {}
  Keepers = {}
  Pingers = {p}
  PoolSize = 1
  Ops = {"Insert"}
  Fragile = {}
  JustCreated = TRUE
  Wraps = FALSE
  Nobody = Nobody
  p = p
SPECIFICATION FairSpec
PROPERTY ClosedReopened
