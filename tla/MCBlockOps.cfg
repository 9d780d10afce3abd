CONSTANTS
  ChipNums = {1, 2}
  PlaneNum = 2
  BlkNum = 24
  BootBlks = 4
  ReservedCnt = 3
  AdjustPart = 10
  AdjustNum = 1
  Wrap = 20
  Configs <- SomeConfigs
  Tables <- SomeTables
  Guards <- OpenGuards
  MetaBlocks = {7, 8}
  RepairLimit = 1
  MaxTry = 1
  MaxFail = 1
  MaxOps = 2
  MaxBoots = 1
CHECK_DEADLOCK FALSE
SPECIFICATION BlockSpec
INVARIANTS
  AreasDisjoint
  LayoutStable
  DeviceHasRoom
  MarkIsSeen
