SPECIFICATION FairSpec
CONSTANTS
  s1 = s1
  s2 = s2
  Sessions = {s1, s2}
  Batches <- TwoLines
  MaxRecvs = 2
  MaxLosses = 1
INVARIANTS
  ServesOnFullSchema
  LossReachesEverySession
  ReconnectedOnlyByBusy
PROPERTIES
  SessionsEnd
CHECK_DEADLOCK FALSE
