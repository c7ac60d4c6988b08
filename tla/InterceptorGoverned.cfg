SPECIFICATION LiveSpec
CONSTANTS
  k = k
  Keys = {k}
  Calls = {c1, c2, c3}
  KeyOf <- OneKey
  HasBreaker = TRUE
  HasApprover = TRUE
  Requirements = {"human_approval", "dual_control"}
  Stubborn = {c3}
  Faults = {"cancel", "breaker", "disk"}
  Window = 1
  Cooldown = 1
  MinSamples = 1
  ThresholdNum = 1
  ThresholdDen = 2
INVARIANTS TypeOK FailClosed ReturnedIsAudited TrailTruthful
PROPERTIES OpenCircuitDrains CallsAreGoverned LeavesUnlessHeld
