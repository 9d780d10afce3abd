CONSTANTS
  Devs <- MCDevs
  Sector = 2
  Faults <- FaultKinds
  MaxProbes = 2
SPECIFICATION StartSpec
INVARIANTS
  NoOops
  RebootReachesAll
  DisksPlaced
PROPERTY RebootEnds
CHECK_DEADLOCK FALSE
