CONSTANTS
  Getter = {g, h}
  Putter = {p}
  Users = {{g, h}}
  NULL = NULL
  Byte = {0, 1}
  INTQ_BUFSIZE = 4
SPECIFICATION Spec
INVARIANTS NoPanic
