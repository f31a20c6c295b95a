SPECIFICATION FairSpec
CONSTANTS
  Threads = {t1, t2}
  Keys = {k1, k2}
  Values = {v1}
  Nothing = Nothing
  Ops = {"get_async", "put"}
  Environment = {}
  InDoubt = FALSE
  TTL = 0
  MaxCall = 1
  MaxTime = 3
CHECK_DEADLOCK FALSE
INVARIANTS ReadsBounded
PROPERTIES OperationsEnd
