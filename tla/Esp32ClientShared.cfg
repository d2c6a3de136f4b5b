SPECIFICATION Spec
CONSTANTS
  c1 = c1
  c2 = c2
  Clients = {c1, c2}
  Connectors <- BothConnect
  MaxGen = 2
  MaxCommands = 2
  MaxTelemetry = 0
INVARIANTS
  TypeOK
  AckSound
  StopAndWait
  LossReportedOnce
PROPERTIES
  CompletedOnce
SYMMETRY SessionSymmetry
CHECK_DEADLOCK FALSE
