SPECIFICATION Spec
CONSTANTS
  Radix = 2
  MTU = 23
  SOF = 2
  SenderOrder = "big"
  ReceiverOrder = "big"
  SizeMod = 16
  Payloads <- MCLimitPayloads
  Streams <- MCLimitStreams
  CutSizes <- MCNoCuts
  MaxOOM = 0
INVARIANTS
  CompleteIsOriginal
  NothingRefused
