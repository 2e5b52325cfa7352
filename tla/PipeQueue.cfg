SPECIFICATION Spec
CONSTANTS
  Procs = {p1, p2, p3}
  Bytes = {x, y}
  PIPESIZE = 2
  UINT = 4
  Sizes = {1, 3}
  Killable = {p1, p2, p3}
  Nobody = Nobody
SYMMETRY Symmetry
INVARIANTS TypeOK NoUseAfterFree NoStuckSleeper
PROPERTIES ImplementsQueue
CHECK_DEADLOCK FALSE
