CONSTANTS
  NULL = NULL
  Thread = {m, i, a, b}
  Main = m
  Idle = i
  Semaphore = {sem}
  Lock = {lk}
  TIME_SLICE = 2
  MaxValue = 2
SYMMETRY Pages
SPECIFICATION Spec
INVARIANTS TypeOK QueuesExact MutualExclusion NoLostWakeup ReapSafe
PROPERTIES ImplementsSync
