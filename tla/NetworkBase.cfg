SPECIFICATION BaseSpec
CONSTANTS
  Threads = {t1, t2}
  Nobody = Nobody
  StartId = 0
  MaxInt = 2
  Strays <- MCAllIds
  MaxLost = 1
INVARIANT AllocatorSound
CHECK_DEADLOCK FALSE
