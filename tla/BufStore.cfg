SPECIFICATION Spec
CONSTANTS
  Procs = {p1, p2, p3}
  Bufs = {u1, u2, u3}
  Blocks = {k1, k2, k3, k4}
  Vals = {v0, v1}
  NoBlock = NoBlock
  Nobody = Nobody
  NoBuf = NoBuf
  MaxPins = 1
SYMMETRY Symmetry
INVARIANTS RefcntExact NoSleepOnFree
PROPERTIES ImplementsBlockStore
CHECK_DEADLOCK FALSE
