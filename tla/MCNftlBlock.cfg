CONSTANTS
  Disks = {d1}
  Users = {u1}
  ReqOps = {"write", "discard"}
  NoOne = NoOne
  MaxRequests = 2
  Thread = Thread
  Notifier = Notifier
  UseCache = TRUE
  MaxCalls = 1
SPECIFICATION NftlFairSpec
INVARIANTS
  OneInFtl
  EarlyWritesSurvive
  AckedIsKept
  InOrder
  NoStrandedRequest
PROPERTIES
  EveryRequestCompletes
  ImplementsQueue
  NotifierReturns
