SPECIFICATION Spec
CONSTANTS
  Precision = 4
  Point = 10
  nbins = 4
  Tiny = 1
  ReduceData <- MCReduceData
  Percentiles <- MCPercentiles
  StrechData <- MCStrechData
  Tolerances <- MCTolerances
INVARIANTS
  IndexInRange
  ClippedAtPercentile
  NoDivisionByZero
  BinsInRange
  LimitsInRange
  LimitsAreQuantiles
CHECK_DEADLOCK FALSE
