SPECIFICATION FairSpec
CONSTANTS
  NumCircuits = 2
  IdMod = 3
  MaxStreams = 1
  MaxGlobal = 2
  LinkCap = 1
  ChanCap = 1
  DownCap = 1
  HoldCap = 1
  EpochHold = TRUE
  TorErrors = FALSE
  BridgeErrors = TRUE
  WireErrors = TRUE
  FrameErrors = TRUE
  MaxCells <- OneEach
  MaxReplies = 0
PROPERTIES
  CloseFreesId
  WireDownReleasesStreams
CHECK_DEADLOCK FALSE
