SPECIFICATION Spec
CONSTANTS
  ServerKey = "B"
  Settings <- Honest
  HourLen = 2
  MaxPad = 1
  MaxLen = 6
  ReadMax = 4
  CounterMod = 4
  MaxTicks = 1
  MaxJunk = 0
  MaxFrames = 2
INVARIANT Lockstep
CHECK_DEADLOCK FALSE
