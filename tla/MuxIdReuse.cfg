SPECIFICATION Spec
CONSTANTS
  NumCircuits = 3
  IdMod = 3
  MaxStreams = 2
  MaxGlobal = 2
  LinkCap = 1
  ChanCap = 1
  DownCap = 1
  HoldCap = 1
  EpochHold = FALSE
  TorErrors = FALSE
  BridgeErrors = FALSE
  WireErrors = FALSE
  FrameErrors = FALSE
  MaxCells <- OneEach
  MaxReplies = 1
INVARIANT NoCrossRouting
CHECK_DEADLOCK FALSE
