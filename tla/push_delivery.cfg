SPECIFICATION PushFairSpec
CONSTANTS
  k1 = k1  r1 = r1  r2 = r2
  Keys = {k1}
  Tokens = {1, 2}
  Requests = {r1, r2}
  Ids = {1}
  Kinds = {"plain", "passive"}
  Asked = {"any", "ios"}
  MaxRenewed = 1
  OldRecords = {"none", "bare"}
INVARIANTS PushTypeOK CheckAgrees ClearedWasDead WithdrawnStaysGone
PROPERTIES AnswersTruly ImplementsInterface EveryRequestEnds
CHECK_DEADLOCK FALSE
