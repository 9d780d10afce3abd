CONSTANTS
  Threads = {t1, t2, t3}
  Modes = {CHIP_READING, CHIP_WRITING}
  READY = CHIP_READY
  NoThread = NoThread
  Faults = {"pinctrl", "test_block", "no_memory"}
SPECIFICATION LockSpec
SYMMETRY ThreadSymmetry
CHECK_DEADLOCK FALSE
INVARIANT MutualExclusion
