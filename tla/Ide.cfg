CONSTANTS
  Thread = {a, b}
  Sector = {s, u}
  Data = {0, 1}
  NULL = NULL
  MaxPending = 2
SPECIFICATION FairSpec
INVARIANTS CommandsAreMatched
PROPERTIES ImplementsBlockDevice CommandCompletes
