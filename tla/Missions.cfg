SPECIFICATION Spec
CONSTANTS
  Sessions = {s1, s2}
  MaxMissions = 3
  MaxCommands = 2
  MaxEvents = 1
  MaxRestarts = 1
INVARIANTS
  MissionTypeOK
  OpenRowsExplained
  ReportedMatchesRow
PROPERTIES
  ImplementsLedger
CHECK_DEADLOCK FALSE
