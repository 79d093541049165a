CONSTANTS
  Main = main
  NULL = NULL
  Process = {main, p, q, r}
  LoadOutcome = {TRUE}
  MaxTasks = 2
SPECIFICATION FairSpec
INVARIANTS LoadHandshake ChildListsExact
PROPERTY CallersReturn
CHECK_DEADLOCK FALSE
