SPECIFICATION Spec
CONSTANTS
  Nodes <- ThreeNodes
  Presets <- ChainThenDetour
  PacketGoal = 2
  SendInterval = 3
  RetransmissionTimeout = 6
  AckGap = 1
  ProcessingDelay = 1
  MaxRuntime = 16
  FrameTimes = {1, 2}
  Jitter = {0}
  Spikes = {3}
  InitialSettings <- UdpLossyOrNot
  Keys = {"SPACE", "M", "T", "S", "P", "C", "R", "D", "[", "]", "-", "="}
  MaxDuplicates = 1
CONSTRAINTS AdjustedBeforeRuns LongFramesInUdp
INVARIANTS
  TypeOK
  FirewallBlocks
  RunMatchesSettings
  RouteExists
  UdpSendsOnce
  PacketsConserved
  EarlyFinishIsClean
