SPECIFICATION Spec
CONSTANTS
  k = k
  Keys = {k}
  Calls = {c1, c2}
  KeyOf <- OneKey
  HasBreaker = TRUE
  HasApprover = TRUE
  Requirements = {"human_approval", "dual_control"}
  Stubborn = {}
  Faults = {"breaker"}
  Window = 1
  Cooldown = 1
  MinSamples = 2
  ThresholdNum = 1
  ThresholdDen = 2
INVARIANT AuditedOnExit
