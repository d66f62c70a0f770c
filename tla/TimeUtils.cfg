SPECIFICATION Spec
CONSTANTS
  Threads = {t1, t2}
  Fields <- MCFields
  Values <- MCValues
  Times <- MCTimes
  Lengths <- MCLengths
  BufSize = 64
INVARIANT NoStaleField
