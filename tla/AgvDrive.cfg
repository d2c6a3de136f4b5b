SPECIFICATION Spec
CONSTANTS
  PulseTicks = 1
  StopTicks = 1
  Wheels = {"left"}
  Speeds <- Backwards
  Estimates = {0, 90}
  Duties = {5}
  IrStates <- Samples
  RangeTicks = 1
  SharpTicks = 1
  MaxJoined = 2
  MaxCommands = 3
INVARIANTS
  NoPowerAtStop
  FlagCoversObstacle
  HardlyBackwards
  TurnsToLine
PROPERTIES
  StopHolds
  StopOnlyBrakes
CHECK_DEADLOCK FALSE
