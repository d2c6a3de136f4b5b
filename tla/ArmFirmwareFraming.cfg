SPECIFICATION Spec
CONSTANTS
  BufferSize = 2
  Commands <- ThreeLines
  Valid <- TwoCommands
  LineLength <- ThreeLengths
  MaxConns = 1
  MaxLines = 1
  MaxAgvLines = 1
INVARIANTS
  FramingPreserved
CHECK_DEADLOCK FALSE
