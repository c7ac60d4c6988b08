SPECIFICATION Spec
CONSTANTS
  Window = 3
  Cooldown = 2
  MinSamples = 2
  ThresholdNum = 1
  ThresholdDen = 2
  MayCrash = FALSE
  MaxLag = 1
  MaxMembers = 3
  Clients = {c1}
PROPERTY EachTripHasOwnEvidence
