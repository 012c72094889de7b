CONSTANTS
  Workers = {w1, w2, w3}
  Keepers = {}
  Pingers = {}
  PoolSize = 3
  Ops = {"Insert"}
  Fragile = {}
  JustCreated = FALSE
  Wraps = FALSE
  Nobody = Nobody
  w1 = w1
  w2 = w2
  w3 = w3
SPECIFICATION Spec
INVARIANT BusyHasUser
INVARIANT BusyExactUntilOverlap
INVARIANT OwnAnswerUntilOverlap
INVARIANT Thinning
INVARIANT NeverRefused
SYMMETRY WorkerSymmetry
PROPERTY ImplementsService
