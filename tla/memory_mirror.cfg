SPECIFICATION MemSpec
CONSTANTS
  b1 = b1  b2 = b2
  Devices = {1, 2}
  ExtraIDs = {1}
  Bodies = {b1}
  TTLs = {1}
  MaxChoices = {1, 2}
  Retention = 0
  PageLimit = 1
  ClockMayStepBack = FALSE
  MaxSeq = 2
  MaxCursor = 2
  MaxTime = 1
  Keywords = {""}
INVARIANTS
  MemTypeOK
  ReadsSound
PROPERTIES
  MirrorsBbolt
