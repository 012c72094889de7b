CONSTANTS
  Workers = {w}
  Timers = {t}
  Careful = {w}
  Pools = {p1, p2}
  Sizes = {2}
  Resizes = {}
  MemoryOut = FALSE
  Null = Null
  w = w
  t = t
  p1 = p1
  p2 = p2
SPECIFICATION Spec
SYMMETRY PoolSymmetry
INVARIANT UsersNeverCrash
