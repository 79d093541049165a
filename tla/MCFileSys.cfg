CONSTANTS
  Sector = {4, 5, 6, 7}
  Name = {x, y}
  Bad = bad
  Process = {p, q}
  NULL = NULL
  DIR_ENTRIES = 2
  MAX_FILE_DESC_COUNT = 1
  MaxLength = 2
  MaxLost = 1
SYMMETRY Symmetry
SPECIFICATION MCSpec
INVARIANTS DiskIsSound OpenFilesAreSound FilesStaySound
PROPERTIES OnlyKnownLeaks
