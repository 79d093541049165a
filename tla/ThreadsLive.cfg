CONSTANTS
  NULL = NULL
  Thread = {m, i, a, b}
  Main = m
  Idle = i
  Semaphore = {}
  Lock = {lk}
  TIME_SLICE = 2
  MaxValue = 1
SPECIFICATION FairSpec
PROPERTIES ReadyRuns WaitReturns
