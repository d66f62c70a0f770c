SPECIFICATION FairSpec
CONSTANTS
  Chars <- MCChars
  Calls <- MCCalls
  MaxParts = 8
  npos = 255
INVARIANTS
  NothingLost
  LeftmostCuts
  AgreesWithQueries
  RoomSuffices
  TrimTakesBlanks
  NumbersAreWhole
PROPERTY
  SplitReturns
CHECK_DEADLOCK FALSE
