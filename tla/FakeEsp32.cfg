SPECIFICATION Spec
CONSTANTS
  CommandScripts <- TwoScripts
  Fallback <- LegacyOk
  ScriptAcks = 1
  Senders = {"test"}
  Unsolicited <- DestThenAck
  MaxClients = 2
  MaxCommands = 2
INVARIANTS
  FramesWhole
  AcksAnswerCommands
PROPERTIES
  StopEnds
CHECK_DEADLOCK FALSE
