SPECIFICATION Spec
CONSTANTS
  Keys = {k1, k2}
  Tokens = {t1, t2}
  NoToken = NoToken
INVARIANTS CheckAgrees
