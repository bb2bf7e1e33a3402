SPECIFICATION SessionSpec
CONSTANTS
  MinPackets = 2
  MaxPackets = 3
  MinTimeout = 2
  MaxTimeout = 2
  RegimeBytes = {3, 4}
  RegimePackets = {2}
  Buckets = 2
  RebuildEvery = 2
  Jumbo = 9
  Configs <- Setups
  DummyRange <- Ranges
  MaxDummy = 2
  SwitchBursts = {2}
  SwitchBytes = {4}
  SwitchPackets = {3}
  MaxIdleGap = 2
  SpectralFloor = 1
  KeepaliveMin = 1
  KeepaliveMax = 2
  PoolCap = 4
  Noise = {0, 3}
  Epsilon = 1
  Budget = 1
  ClassVolume = 6
  ClassDuration = 2
  Iats = {1, 2}
  CatchupLag = 0
  Random = {0, 1, 2, 3}
  AllZero = 0
  RotationInterval = 1
  MaxAge = 2
  Loggers = {t1, t2}
  MaxRows = 2
  FlushEvery = 2
  Callers = {"compose", "inject_burst", "inject_real", "seeds", "log"}
  Lens = {1, 2}
  QueueDepth = 2
  MaxGiven = 3
  MaxTime = 3
INVARIANTS
  DelaysBounded
  CoverBlends
  Accounted
  FifoThroughout
PROPERTIES
  ThresholdsObeyed
  LogComplete
  RotationAtomic
CHECK_DEADLOCK FALSE
