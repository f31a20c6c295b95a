SPECIFICATION SimpleSpec
CONSTANTS
  Tasks = {t1, t2, t3}
  NoAnswer = NoAnswer
  None = None
  Locked = TRUE
  Failures = TRUE
  TTL = 1
  MaxCall = 1
  MaxTime = 3
CHECK_DEADLOCK FALSE
INVARIANTS ReturnsAResult
SYMMETRY Symmetry
