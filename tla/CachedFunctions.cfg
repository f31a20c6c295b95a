SPECIFICATION FunctionsSpec
CONSTANTS
  Tasks = {t1, t2, t3}
  Keys = {k1, k2}
  NoKey = NoKey
  NoAnswer = NoAnswer
  TTL = 1
  MaxCall = 1
  MaxTime = 4
  Callers = {c1, c2}
  TTLs = {0, 1}
  ServerTTL = 2
  LocalTTL = 1
  StoreCall = 1
  MaxFetch = 1
  MaxEarlier = 1
SYMMETRY Symmetry
CHECK_DEADLOCK FALSE
INVARIANTS BoundedStaleness AnswerBounded
PROPERTIES Implements
