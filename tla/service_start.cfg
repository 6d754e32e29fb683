SPECIFICATION Spec
CONSTANTS
  Procs = {p, q}
  Operators = {op}
  NoToken = NoToken
  None = None
  MaxMade = 4
  MaxMessages = 2
  MaxStarts = 3
INVARIANTS
  StartTypeOK
  ReadOnce
PROPERTIES
  TokenLasts
  ComesUp
CHECK_DEADLOCK FALSE
