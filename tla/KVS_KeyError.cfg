SPECIFICATION Spec
CONSTANTS
  Threads = {t1, t2}
  Keys = {k1, k2}
  Values = {v1}
  Nothing = Nothing
  Ops = {"get_async", "get_many_async"}
  Environment = {"write"}
  InDoubt = TRUE
  TTL = 1
  MaxCall = 1
  MaxTime = 4
SYMMETRY Symmetry
CHECK_DEADLOCK FALSE
INVARIANTS NoKeyError
