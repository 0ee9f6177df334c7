SPECIFICATION FairSpec
CONSTANTS
  Msgs <- TwoChunks
  NumMsgs = 3
  WindowSize = 2
  NumChunks = 1
  RetransmitTimeout = 1
  Heartbeat = 2
  NoPacketDrops = FALSE
  NoDelay = FALSE
  Chaos = TRUE
  DelaySamples = {0}
  SpikeSamples = {1}
  SocketRoom = 2
  MaxLost = 2
  Urgent = FALSE
INVARIANTS
  TypeOK
  NeverAborts
  WindowRespected
PROPERTIES
  ImplementsOrderedDownload
  ServerFreed
