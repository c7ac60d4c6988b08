SPECIFICATION LiveSpec
CONSTANTS
  a = a
  b = b
  Colon = Colon
  Pairs <- TwoAgents
  Window = 1
  Cooldown = 2
  MinSamples = 2
  ThresholdNum = 1
  ThresholdDen = 2
  MaxEvents = 2
INVARIANTS TypeOK OldestFirst DeniedPairFailed
PROPERTIES PairsKeepContract TrippedCloses
