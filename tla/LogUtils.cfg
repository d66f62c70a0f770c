SPECIFICATION FairSpec
CONSTANTS
  Threads = {t1, t2}
  MaxCalls = 2
  DayLength = 2
  MaxTime = 5
  MaxFailures = 2
  NoFile = NoFile
  Nobody = Nobody
INVARIANTS
  TypeOK
  LoggedOnce
  NoLaterThanOpened
PROPERTIES
  OldFilesStay
  CallsReturn
CHECK_DEADLOCK FALSE
