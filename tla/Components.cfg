SPECIFICATION ComponentsSpec
CONSTANTS
  Workers = {w1, w2}
  Crashes = TRUE
  MaxUpdates = 3
  MaxBatch = 2
  MaxSessions = 2
  Tries = 3
  MaxParts = 2
  AllowChats = TRUE
  Receivers = {r1, r2}
  Messages = {1, 2, 3, 4}
  Empty = {3}
  MaxTroubles = 1
  MaxCalls = 4
  MaxConditions = 2
  Keys = {a, b}
  MaxValue = 1
  MaxWindow = 3
  Unit = 6
  TextLimit = 3
  TextBreaks <- MCBreaks
  MaxText = 7
  CrcModels <- MCCrcs
  CrcBytes <- MCBytes
  MaxBytes = 3
  Processes = {p1, p2}
  IntegerTTL = 1
  MaxTrip = 0
  MaxInteger = 2
CHECK_DEADLOCK FALSE
INVARIANTS
  NothingLost
  Accounted
  GoneIsHandled
  FailuresTraceable
  LayersGuard
  PlaceholdersMatch
  WindowExact
  SplitFaithful
  TableIsCRC
  GetIsRecent
PROPERTIES
  InOrderOnce
  KeepsUpdates
  EveryUpdateHandled
  Stops
  KeepsMessages
  MessagesHandled
