CONSTANTS
  Threads = {t1, t2}
  Modes = {CHIP_READING}
  READY = CHIP_READY
  NoThread = NoThread
  Faults = {"test_block"}
SPECIFICATION LockSpec
CHECK_DEADLOCK FALSE
INVARIANT NoSelfWait
