SPECIFICATION PushFairSpec
CONSTANTS
  k1 = k1  r1 = r1  r2 = r2
  Keys = {k1}
  Tokens = {1, 2}
  Requests = {r1}
  Ids = {1}
  Kinds = {"plain"}
  Asked = {"any"}
  MaxRenewed = 1
  OldRecords = {"none"}
PROPERTIES ValidTokensStay
CHECK_DEADLOCK FALSE
