CONSTANTS
  Main = main
  NULL = NULL
  Process = {main, p, q}
  LoadOutcome = {TRUE, FALSE}
  MaxTasks = 1
SPECIFICATION Spec
INVARIANTS NoPanic
CHECK_DEADLOCK FALSE
