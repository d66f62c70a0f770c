SPECIFICATION Spec
CONSTANTS
  Radix = 2
  MTU = 24
  SOF = 2
  SenderOrder = "little"
  ReceiverOrder = "big"
  SizeMod = 256
  Payloads <- MCPayloads
  Streams <- MCSingles
  CutSizes <- MCNoCuts
  MaxOOM = 0
INVARIANT NothingRefused
