CONSTANTS
  BOOT_COPY_NUM = 4
  BOOT_PAGES_PER_COPY = 8
  NAND_PAGELIST_CNT = 2
  Chips <- MCChips
  Images = {2, 8, 9}
  BadBlocks <- MCBadBlocks
  ReadOnly = {TRUE, FALSE}
  Faults = {"program", "erase", "memory", "power"}
  MaxFails = 2
  MaxWrites = 2
  Geometries <- TableGeometries
SPECIFICATION BootSpec
INVARIANTS
  OtherCopiesWhole
  ControllerRestored
  StepsFit
CHECK_DEADLOCK FALSE
