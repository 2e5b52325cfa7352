SPECIFICATION Spec
CONSTANTS
  Procs = {p1, p2, p3}
  Blocks = {b1, b2, b3}
  Vals = {v0}
  NotCached = NotCached
  MAXOPBLOCKS = 1
  LOGSIZE = 3
  NLOG = 4
INVARIANTS NoPanic
