CONSTANTS
  ChipNum = 2
  PlaneNums = {1, 2}
  RetryCnt = 3
  Makers = {"micron", "intel", "toshiba", "a19", "hynix26", "hynix20"}
  HasRetry = TRUE
  Conditions <- SomeConditions
  MaxReads <- ThenSingle
  MaxBusy = 1
  Geometries <- TableGeometries
CHECK_DEADLOCK FALSE
SPECIFICATION ReadFairSpec
INVARIANTS
  PagesInPlace
  VerdictRight
  LevelRestored
  UserBytesBack
PROPERTY ReadReturns
