SPECIFICATION FairSpec
CONSTANTS
  c1 = c1
  c2 = c2
  Clients = {c1}
  Connectors <- OneConnector
  MaxGen = 2
  MaxCommands = 1
  MaxTelemetry = 1
PROPERTIES
  LockReleased
  SupersededReceiverEnds
  ClosedConnectionNoticed
  FaultReported
CHECK_DEADLOCK FALSE
