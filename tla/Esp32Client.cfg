SPECIFICATION Spec
CONSTANTS
  c1 = c1
  c2 = c2
  Clients = {c1, c2}
  Connectors <- OneConnector
  MaxGen = 2
  MaxCommands = 2
  MaxTelemetry = 0
PROPERTIES
  ImplementsLink
INVARIANTS
  OwnsOneSocket
  NoStrandedCommand
CHECK_DEADLOCK FALSE
