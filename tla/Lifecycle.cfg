CONSTANTS
  Workers = {w}
  Timers = {t, careless}
  Careful = {w, t}
  Pools = {p1, p2}
  Sizes = {0, 1, 2}
  Resizes = {3}
  MemoryOut = TRUE
  Null = Null
  w = w
  t = t
  careless = careless
  p1 = p1
  p2 = p2
SPECIFICATION Spec
SYMMETRY PoolSymmetry
INVARIANT TypeOK
INVARIANT CarefulNeverCrash
INVARIANT ReadyIsComplete
INVARIANT NoSessionLeft
INVARIANT OnePool
PROPERTY ServesCareful
