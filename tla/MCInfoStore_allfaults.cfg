CONSTANTS
  Items = {"bbt", "nenv"}
  FullBlk = {"bbt"}
  Saved = {"bbt", "nenv"}
  Required = {"bbt"}
  arg_pages <- EnvOfTwo
  StartBlk = 1
  ReservedCnt = 3
  FactoryBad = {}
  pages_read = 4
  allow_meta = TRUE
  Faults = {"program", "erase", "old", "rot"}
  MaxSaves = 2
  MaxCrashes = 1
  MaxFaults = 2
  MaxTests = 1
  TsMod = 100
  Key = "none"
CHECK_DEADLOCK FALSE
SPECIFICATION StoreSpec
INVARIANTS
  CurrentIsReserved
  NoOverprogram
PROPERTIES
  OthersUntouched
