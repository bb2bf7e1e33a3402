SPECIFICATION FairServerSpec
CONSTANTS
  Wires = {c1, c2, c3}
  MaxGlobal = 1
  Instances = {"a", "b"}
  Setups <- Sharing
  Windows = TRUE
  DiskErrors = TRUE
  MaxStarts <- Restarted
  Self = "a"
  MaxHandshakes = 2
  MaxConnections = 2
  HandshakeTicks = 1
  BlackholeTicks = {1, 2}
INVARIANTS
  CertStable
  PermitsExact
  CapHolds
PROPERTY GateReopens
CHECK_DEADLOCK FALSE
