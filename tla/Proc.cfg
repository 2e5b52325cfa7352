SPECIFICATION FairSpec
CONSTANTS
  Procs = {init, p1, p2}
  initproc = init
  NoProc = NoProc
  CPUs = {c1, c2}
  NoCPU = NoCPU
  KillArgs = {0, 2}
  MaxPid = 3
INVARIANTS TypeOK OneCPU FreedOffCPU NoLostExit SchedNeverPanics PidNamesOwner
PROPERTIES ImplementsProcTree OrphansReaped
