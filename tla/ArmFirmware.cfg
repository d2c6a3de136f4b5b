SPECIFICATION FairSpec
CONSTANTS
  BufferSize = 2
  Commands <- ThreeLines
  Valid <- TwoCommands
  LineLength <- ThreeLengths
  MaxConns = 2
  MaxLines = 2
  MaxAgvLines = 1
INVARIANTS
  FirmwareTypeOK
  AnswersInOrder
  MovesAsSent
PROPERTIES
  LinesAnswered
CHECK_DEADLOCK FALSE
