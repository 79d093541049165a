CONSTANTS
  Getter = {g, h}
  Putter = {p}
  Users = {{g}, {g, h}, {p}}
  NULL = NULL
  Byte = {0, 1}
  INTQ_BUFSIZE = 4
SPECIFICATION FairSpec
INVARIANTS OneUserNeverPanics SleepersAreWoken
PROPERTIES WaiterReturns ImplementsFifo
CHECK_DEADLOCK FALSE
