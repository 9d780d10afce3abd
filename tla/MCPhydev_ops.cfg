CONSTANTS
  Devs = {d1}
  EnvUser = env
  Platform = platform
  Threads <- MCThreads
  Modes <- MCModes
  READY = CHIP_READY
  NoThread = NoThread
  Faults = {"test_block"}
  Ops <- Everything
  MaxPages = 2
SPECIFICATION PhyFairSpec
CHECK_DEADLOCK FALSE
INVARIANTS
  OpsParaPrivate
  LateOpBound
  MutualExclusion
  HolderHasPins
  NoLostWakeup
  NoMutexLeak
PROPERTIES
  HolderReturns
  SomeoneServed
