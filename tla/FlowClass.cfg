SPECIFICATION Spec
CONSTANTS
  Policy = "ByClass"
  Period = 0
  FixedFloor = 0
  TargetDuration <- MCDuration
  TargetCells <- MCCells
  VolumeQuantum = 2
  Iats = {1, 2}
  CatchupLag = 1
  Gated = FALSE
  ChannelCap = 1
  QueueCap = 4
  PendingCap = 4
  FrameLen = 2
  SocketCap = 5
  Grace = 1
  ThresholdDraws <- MCFuzz
  Sleeps = {1, 2}
  StartTimes = {0}
  Reads <- MCReads
  PromptPeer = TRUE
  LossyNetwork = FALSE
  MaxCells = 3
  MaxTime = 18
INVARIANTS
  ClassFloorHolds
  RetirementBound
CHECK_DEADLOCK FALSE
