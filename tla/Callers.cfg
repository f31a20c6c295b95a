SPECIFICATION CallersSpec
CONSTANTS
  Threads = {t1, t2}
  Ops = {"write", "read", "transaction"}
  MaxRetry = 2
  Severs = TRUE
  Errors = TRUE
  MaxOps = 1
  MaxConns = 3
  Tasks = {c1, c2, c3}
  NoAnswer = NoAnswer
  None = None
  Locked = TRUE
  Failures = TRUE
  TTL = 2
  MaxCall = 1
  MaxTime = 5
CHECK_DEADLOCK FALSE
INVARIANTS TypeOK AckedIsDurable AppliedOnce TransactionAtomic NothingHalfDone NoneOnlyAfterFailure
PROPERTIES QueriesEnd Implements RateLimited CallsReturn
