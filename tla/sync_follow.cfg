SPECIFICATION SyncFairSpec
CONSTANTS
  Devices = {1}
  ExtraIDs = {1}
  Bodies = {b1}
  TTLs = {}
  MaxChoices = {2}
  Retention = 0
  PageLimit = 1
  LegacyIDs = {}
  ClockMayStepBack = FALSE
  MaxSeq = 2
  MaxCursor = 3
  MaxTime = 1
  Self = 1
  Limit = 1
  BaselineFirst = TRUE
  ColdStart = FALSE
INVARIANTS
  SyncTypeOK
  NothingStale
  NothingMissed
PROPERTIES
  Converges
