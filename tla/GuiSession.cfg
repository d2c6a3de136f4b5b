SPECIFICATION Spec
CONSTANTS
  Positions = {1}
  MaxSteps = 2
  MaxRequests = 3
  MaxConns = 2
  MaxFaults = 1
INVARIANTS
  GuiTypeOK
  WaitsForOneThing
  StepAfterAck
  AtMostOneStale
  NeverWaitsInVain
PROPERTIES
  CompleteMeansAll
  ErrorStopsOwnRun
CHECK_DEADLOCK FALSE
