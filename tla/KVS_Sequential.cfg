SPECIFICATION Spec
CONSTANTS
  Threads = {t1}
  Keys = {k1, k2}
  Values = {v1, v2}
  Nothing = Nothing
  Ops = {"get", "get_many", "put", "remove", "exists", "truncate"}
  Environment = {"write", "expire"}
  InDoubt = TRUE
  TTL = 0
  MaxCall = 1
  MaxTime = 2
SYMMETRY Symmetry
CHECK_DEADLOCK FALSE
INVARIANT Coherent
