SPECIFICATION FairSpec
CONSTANTS
  p1 = p1
  p2 = p2
  Procs = {p1, p2}
  Intr = Intr
  Nobody = Nobody
  INPUT_BUF = 2
  UART_TX_BUF_SIZE = 2
  UINT = 4
  UINT64 = 4
  Typed = 3
  FIFO = 2
  RXFIFO = 1
  Loads <- MCLoads
INVARIANTS TypeOK NeverWedged NoOverrun NoStuckSleeper
PROPERTIES ImplementsTerminal OutputProgress
CHECK_DEADLOCK FALSE
