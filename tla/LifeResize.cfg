CONSTANTS
  Workers = {w}
  Timers = {}
  Careful = {w}
  Pools = {p1, p2}
  Sizes = {1}
  Resizes = {2}
  MemoryOut = FALSE
  Null = Null
  w = w
  p1 = p1
  p2 = p2
SPECIFICATION Spec
SYMMETRY PoolSymmetry
INVARIANT WithinArray
