CONSTANTS
  Items = {"bbt", "nenv"}
  FullBlk = {"bbt"}
  Saved = {"bbt", "nenv"}
  Required = {"bbt"}
  arg_pages <- TwoPages
  StartBlk = 1
  ReservedCnt = 5
  FactoryBad = {2}
  pages_read = 4
  allow_meta = TRUE
  Faults = {"program", "erase", "old", "rot"}
  MaxSaves = 2
  MaxCrashes = 2
  MaxFaults = 1
  MaxTests = 1
  TsMod = 100
  Key = "none"
CHECK_DEADLOCK FALSE
SPECIFICATION StoreSpec
INVARIANTS
  Durable
PROPERTIES
  ImplementsRegularStore
