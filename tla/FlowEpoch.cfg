SPECIFICATION FairSpec
CONSTANTS
  Policy = "Epoch"
  Period = 3
  FixedFloor = 0
  TargetDuration <- MCDuration
  TargetCells <- MCCells
  VolumeQuantum = 2
  Iats = {1, 2}
  CatchupLag = 1
  Gated = TRUE
  ChannelCap = 1
  QueueCap = 2
  PendingCap = 4
  FrameLen = 2
  SocketCap = 4
  Grace = 2
  ThresholdDraws <- MCThresholds
  Sleeps = {1, 3}
  StartTimes = {1, 3}
  Reads <- MCReads
  PromptPeer = FALSE
  LossyNetwork = TRUE
  MaxCells = 3
  MaxTime = 8
INVARIANTS
  TypeOK
  InOrderDelivery
  PendingBounded
  ThroughputCap
  EntryGateHolds
  GraceBeforeForcedClose
  ExitOnBoundary
  OrderlyCloseIsComplete
PROPERTIES
  ImplementsPipe
  BackstopFires
CHECK_DEADLOCK FALSE
