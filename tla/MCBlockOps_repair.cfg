CONSTANTS
  ChipNums = {1}
  PlaneNum = 2
  BlkNum = 32
  BootBlks = 4
  ReservedCnt = 4
  AdjustPart = 10
  AdjustNum = 1
  Wrap = 20
  Configs <- SomeConfigs
  Tables <- MarkedTables
  Guards <- DefaultGuards
  MetaBlocks = {7}
  RepairLimit = 1
  MaxTry = 1
  MaxFail = 1
  MaxOps = 1
  MaxBoots = 1
CHECK_DEADLOCK FALSE
SPECIFICATION BlockSpec
INVARIANT MetaKept
