CONSTANTS
  Ids = {x}
  Capacity = 2
  MaxFrames = 4
  MaxHandles = 3
SPECIFICATION Spec
CHECK_DEADLOCK FALSE
INVARIANTS
  TypeOK
  NoFrameLost
  OnlyLateFramesCut
  HandlesTellTruth
PROPERTIES
  CloseReturns
  FramesDrain
  ImplementsStream
