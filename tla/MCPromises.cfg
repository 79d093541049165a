CONSTANT NULL = NULL
SPECIFICATION MCSpec
VIEW View
INVARIANT SomePromiseIsKept
CHECK_DEADLOCK FALSE
