SPECIFICATION Spec
CONSTANTS
  Policy = "Off"
  Period = 0
  FixedFloor = 0
  TargetDuration <- MCDuration
  TargetCells <- MCCells
  VolumeQuantum = 2
  Iats = {1, 2}
  CatchupLag = 1
  Gated = FALSE
  ChannelCap = 1
  QueueCap = 3
  PendingCap = 2
  FrameLen = 2
  SocketCap = 2
  Grace = 1
  ThresholdDraws <- MCThresholds
  Sleeps = {1, 2}
  StartTimes = {0}
  Reads <- MCReads
  PromptPeer = FALSE
  LossyNetwork = FALSE
  MaxCells = 2
  MaxTime = 16
INVARIANT RetirementBound
CHECK_DEADLOCK FALSE
