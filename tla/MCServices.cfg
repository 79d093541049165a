CONSTANTS
  d2 = d2
  d3 = d3
  NULL = NULL
  Base = Base
  Thread = {1, 2, 3}
  Caller = {1, 2}
  Irq = {0, 1, 4, 14}
  TickWord = 2
  MaxTicks = 4
  MaxSleep = 2
  Second = 3
  Minute = 3
  Hour = 2
  UserPage = {1, 2, 3, 4}
  Vpage = {1, 2}
  MaxNested = 2
  COL_CNT = 4
  ROW_CNT = 2
  TAB = 2
  Char = {"x"}
  MaxRows = 3
  MaxBeeps = 1
  Tcb = {1, 2, 3}
  ListHead = 0
  ListTail = 4
  SECTOR_SIZE = 2
  FileLength = 3
  MaxTransfer = 3
  PageCnt = 3
  BIG = BIG
  Desc <- MCDesc
  blocks_per_arena <- MCBlocksPerArena
SPECIFICATION MCSpec
INVARIANTS
  BlocksAreSound BlocksFit OutputIsNotMixed ListSurvives AddressSpacesAreOwn
  InterruptsAreServed ClocksAreRead TransfersAreExact
  LibraryIsRight InputsAreTaken
PROPERTY ImplementsMesa
CHECK_DEADLOCK FALSE
