SPECIFICATION Spec
CONSTANTS
  Devices = {1, 2}
  ExtraIDs = {1}
  Bodies = {b1}
  TTLs = {}
  MaxChoices = {2}
  Retention = 0
  PageLimit = 1
  LegacyIDs = {}
  ClockMayStepBack = TRUE
  MaxSeq = 2
  MaxCursor = 3
  MaxTime = 2
INVARIANTS
  LogIndexesAgree
  NoSilentRemoval
  GapIsReported
  PagesExact
