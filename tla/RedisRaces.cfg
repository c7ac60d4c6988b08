SPECIFICATION LiveSpec
CONSTANTS
  Window = 3
  Cooldown = 2
  MinSamples = 1
  ThresholdNum = 1
  ThresholdDen = 2
  MayCrash = TRUE
  MaxLag = 1
  MaxMembers = 2
  Clients = {c1, c2}
INVARIANT TypeOK
PROPERTIES TripHasFreshEvidence NotLockedOut
