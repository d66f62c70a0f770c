SPECIFICATION FairSpec
CONSTANTS
  Threads = {t1, t2, t3}
  Nobody = Nobody
  StartId = 0
  MaxInt = 3
  Strays <- MCStrays
  MaxLost = 1
INVARIANTS
  TypeOK
  Unique
  Accounting
  AllocatedIsOwned
  OverflowOnlyWhenExhausted
PROPERTIES
  LowestIdFirst
  HandsOutUniqueIds
  MutexReleased
CHECK_DEADLOCK FALSE
