CONSTANTS
  Items = {"bbt", "nenv"}
  FullBlk = {"bbt"}
  Saved = {"bbt", "nenv"}
  Required = {"bbt"}
  arg_pages <- TwoPages
  StartBlk = 1
  ReservedCnt = 4
  FactoryBad = {2}
  pages_read = 4
  allow_meta = TRUE
  Faults = {}
  MaxSaves = 3
  MaxCrashes = 2
  MaxFaults = 0
  MaxTests = 3
  TsMod = 100
  Key = "none"
CHECK_DEADLOCK FALSE
SPECIFICATION StoreSpec
INVARIANT NeverLost
