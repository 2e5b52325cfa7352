SPECIFICATION FairSpec
CONSTANTS
  Procs = {p1, p2, p3}
  Bytes = {x}
  PIPESIZE = 1
  UINT = 2
  Sizes = {0, 1, 2}
  Killable = {p1}
  Nobody = Nobody
PROPERTIES ReadReturns
CHECK_DEADLOCK FALSE
