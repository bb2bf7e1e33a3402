SPECIFICATION FairClientSpec
CONSTANTS
  Circuits = {c1, c2, c3}
  Servers = {"A", "B"}
  KeyAt <- Keys
  Modes = {"managed", "raw", "single"}
  Requests <- Asked
  Fallback = "ka"
  MaxWires = 2
INVARIANTS
  ServicedOnce
  OneWirePerBridge
  CircuitOnItsBridge
PROPERTIES
  EveryCircuitSettles
  DeadWireReleases
CHECK_DEADLOCK FALSE
