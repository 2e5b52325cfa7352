SPECIFICATION FairSpec
CONSTANTS
  Procs = {p1, p2}
  Blocks = {b1, b2}
  Vals = {v0, v1}
  NotCached = NotCached
  MAXOPBLOCKS = 2
  LOGSIZE = 4
  NLOG = 3
INVARIANTS TypeOK NoLostWakeup QuiescentDurable ReservationFits
PROPERTIES CrashAtomic SleepersWake
