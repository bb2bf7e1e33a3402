SPECIFICATION Spec
CONSTANTS
  NumCircuits = 1
  IdMod = 5
  MaxStreams = 2
  MaxGlobal = 1
  LinkCap = 2
  ChanCap = 1
  DownCap = 1
  HoldCap = 1
  EpochHold = TRUE
  TorErrors = TRUE
  BridgeErrors = TRUE
  WireErrors = TRUE
  FrameErrors = TRUE
  MaxCells <- ThreeEach
  MaxReplies = 1
INVARIANTS
  TypeOK
  UplinkAccounted
  StreamCountExact
CHECK_DEADLOCK FALSE
