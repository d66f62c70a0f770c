SPECIFICATION Spec
CONSTANTS
  Radix = 2
  MTU = 24
  SOF = 2
  SenderOrder = "little"
  ReceiverOrder = "little"
  SizeMod = 256
  Payloads <- MCPayloads
  Streams <- MCPairs
  CutSizes <- MCHeaderCuts
  MaxOOM = 2
INVARIANTS
  TypeOK
  CompleteIsOriginal
  CompleteMeansNothingMissing
  FragmentsIntact
  NothingRefused
  WildCopyOnlyAfterFailedResize
PROPERTIES
  StoredFragmentsStay
  CompleteIsFinal
CHECK_DEADLOCK FALSE
