SPECIFICATION MCSpec
CONSTANTS
  bufSize = 4
  Char = {"a", "nl", "hash", "sp"}
  NL = "nl"
  HASH = "hash"
  Blank = {"sp"}
  Text <- MCText
  Count <- MCCount
INVARIANT PrintsTheWhole
CHECK_DEADLOCK FALSE
