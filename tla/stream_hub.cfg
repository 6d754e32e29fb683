SPECIFICATION HubFairSpec
CONSTANTS
  d1 = d1  d2 = d2  p1 = p1  p2 = p2  s1 = s1  s2 = s2
  Devices = {d1, d2}
  Publishers = {p1, p2}
  Streams = {s1}
  Buffer = 2
  MaxMessages = 3
INVARIANTS HubTypeOK SendsToOpenOnly NothingBetween InOrder
PROPERTIES DeadStreamsLeave
CHECK_DEADLOCK FALSE
