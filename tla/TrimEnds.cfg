SPECIFICATION Spec
CONSTANTS
  Chars <- MCChars
  Calls <- MCTexts
  MaxParts = 8
  npos = 255
INVARIANT TrimsEndOnly
CHECK_DEADLOCK FALSE
