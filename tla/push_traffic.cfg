SPECIFICATION TrafficSpec
CONSTANTS
  MaxTime = 3
  IPs = {a}
  IPRate = 1
  Burst = 1
  MaxKeys = 1
  IdleTTL = 1
  Requests = {r1}
  Widest = 3
  Calls <- Items
  Life = 4
  Lead = 2
  Timeout = 1
  Ahead = 1
  MaxRotated = 2
  MaxBatch = 2
  LimitPush = TRUE
INVARIANTS
  TrafficTypeOK
  AdmittedInBudget
  ExpiredMeansRotated
  RepliesTruly
PROPERTIES
  EveryPushEnds
