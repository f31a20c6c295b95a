SPECIFICATION Spec
CONSTANTS
  Tasks = {t1, t2}
  Names = {1, 2}
  Retries = 2
  PageSize = 3
  Kept <- TwoAndOne
  MaxOps = 1
  MaxExpiries = 1
SYMMETRY Symmetry
CHECK_DEADLOCK FALSE
INVARIANTS UploadTruthful DeleteTruthful GivesUpOnlyWhenTried
PROPERTIES OthersUntouched
