SPECIFICATION Spec
CONSTANTS
  NumCircuits = 2
  IdMod = 5
  MaxStreams = 2
  MaxGlobal = 2
  LinkCap = 1
  ChanCap = 1
  DownCap = 1
  HoldCap = 1
  EpochHold = TRUE
  TorErrors = FALSE
  BridgeErrors = FALSE
  WireErrors = FALSE
  FrameErrors = FALSE
  MaxCells <- TwoThenOne
  MaxReplies = 1
INVARIANTS
  NoCrossRouting
  OneBridgePerCircuit
CHECK_DEADLOCK FALSE
