SPECIFICATION Spec
CONSTANTS
  Nodes <- PresetNodes
  Presets <- TopologyPresetList
  PacketGoal = 6
  SendInterval = 52
  RetransmissionTimeout = 190
  AckGap = 30
  ProcessingDelay = 9
  MaxRuntime = 5000
  FrameTimes = {3}
  Jitter = {16}
  Spikes = {}
  InitialSettings <- WithoutLosses
  Keys = {"SPACE", "M", "T", "D", "=", "-"}
  MaxDuplicates = 2
CONSTRAINT DuplicatesAtFirstDelay
INVARIANTS
  LosslessFinishesInTime
