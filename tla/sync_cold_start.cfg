SPECIFICATION SyncSpec
CONSTANTS
  Devices = {1}
  ExtraIDs = {}
  Bodies = {b1}
  TTLs = {1}
  MaxChoices = {2}
  Retention = 0
  PageLimit = 1
  LegacyIDs = {}
  ClockMayStepBack = FALSE
  MaxSeq = 3
  MaxCursor = 3
  MaxTime = 1
  Self = 1
  Limit = 1
  BaselineFirst = TRUE
  ColdStart = TRUE
INVARIANTS
  NothingStale
