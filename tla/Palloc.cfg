CONSTANTS
  Thread = {a, b, c}
  NULL = NULL
  PageCnt = 3
SPECIFICATION Spec
INVARIANTS NoSharing UsedIsOwned FreesUsedPages
PROPERTIES FailsOnlyWhenFull
