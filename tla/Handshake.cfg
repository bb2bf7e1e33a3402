SPECIFICATION FairSpec
CONSTANTS
  ServerKey = "B"
  Settings <- All
  HourLen = 3
  MaxPad = 1
  MaxLen = 6
  ReadMax = 4
  CounterMod = 4
  MaxTicks = 2
  MaxJunk = 6
  MaxFrames = 2
INVARIANTS
  KeyAgreement
  SilentUnlessReplayed
  SkewTolerated
  LockstepUnlessOverread
PROPERTY HandshakeCompletes
CHECK_DEADLOCK FALSE
