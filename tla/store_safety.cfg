SPECIFICATION FairSpec
CONSTANTS
  Devices = {1, 2}
  ExtraIDs = {1}
  Bodies = {b1}
  TTLs = {1}
  MaxChoices = {1, 2}
  Retention = 5
  PageLimit = 1
  LegacyIDs = {1, 2}
  ClockMayStepBack = FALSE
  MaxSeq = 3
  MaxCursor = 1
  MaxTime = 1
INVARIANTS
  TypeOK
  IndexesAgree
  CountExact
  NoResurrection
  EventsSpareTheLiving
  NoTwins
PROPERTIES
  OverdueGoes
