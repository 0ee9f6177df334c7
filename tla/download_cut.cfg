SPECIFICATION FairSpec
CONSTANTS
  Msgs <- TwoChunks
  NumMsgs = 2
  WindowSize = 2
  NumChunks = 3
  RetransmitTimeout = 7
  Heartbeat = 50
  NoPacketDrops = FALSE
  NoDelay = FALSE
  Chaos = FALSE
  DelaySamples = {0}
  SpikeSamples = {3}
  SocketRoom = 4
  MaxLost = 7
  Urgent = TRUE
PROPERTIES
  DownloadCompletes
