SPECIFICATION Spec
CONSTANTS
  r1 = r1
  r2 = r2
  r3 = r3
  r4 = r4
  Requests = {r1, r2, r3, r4}
  ContextOf <- MCContextOf
  Prompts <- MCPrompts
  Replies <- MCReplies
  Proposals = {"lookup", "deploy"}
  Scripts <- MCScripts
  Gated = {"deploy"}
  Stubborn = {"lookup"}
  DefaultApproval = FALSE
  RateLimit = 1
  Outcomes = {"success"}
  MayLose = {"pending", "running"}
  MaxScript = 2
  IssuedAt = {0, 1}
  UsedAt = {2, 3}
  TicksPerSecond = 2
  TtlSeconds = 1
  INJECTION_INTENTS <- MCIntents
  ThresholdNum = 1
  ThresholdDen = 2
  BlockOnInjection = TRUE
INVARIANTS TypeOK TokensAdmitTheirOwners QuotaIsExact OnlyCleanPromptsAct
           OneCallAtATime ResultsAreInTheTrail
PROPERTY RequestsEnd
CHECK_DEADLOCK FALSE
