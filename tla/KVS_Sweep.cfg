SPECIFICATION Spec
CONSTANTS
  Threads = {t1}
  Keys = {k1, k2}
  Values = {v1}
  Nothing = Nothing
  Ops = {"get", "put"}
  Environment = {"write"}
  InDoubt = FALSE
  TTL = 0
  MaxCall = 0
  MaxTime = 3
SYMMETRY Symmetry
CHECK_DEADLOCK FALSE
INVARIANTS ClearsAllStale
