SPECIFICATION FairSpec
CONSTANTS
  Nodes <- TwoNodes
  Presets <- OneLinkOnly
  PacketGoal = 3
  SendInterval = 2
  RetransmissionTimeout = 4
  AckGap = 1
  ProcessingDelay = 1
  MaxRuntime = 18
  FrameTimes = {1}
  Jitter = {0, 1}
  Spikes = {}
  InitialSettings <- TcpLossyOrNot
  Keys = {"SPACE"}
  MaxDuplicates = 1
INVARIANTS
  TypeOK
  StopAndWait
  CompletionMeansDelivered
  OneObligation
  RetransmissionsSpaced
  EarlyFinishIsClean
PROPERTIES
  NoDataAfterCompletion
  ImplementsReliableTransfer
  EveryRunEnds
  TransferCompletes
