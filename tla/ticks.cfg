SPECIFICATION FairSpec
CONSTANTS
  Routers <- Ring
  Tables <- RingTables
  Delays <- RingDelays
  Workloads <- TwoOrThree
  Horizon = 7
INVARIANTS
  TypeOK
  EachAtOnePlace
  OverMeansReceived
  NeverTooFast
  OrderKept
  NeverIdle
PROPERTIES
  LoopEnds
CHECK_DEADLOCK FALSE
