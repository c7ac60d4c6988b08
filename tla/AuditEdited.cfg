SPECIFICATION Spec
CONSTANTS
  Loggers = {l1, l2}
  Sinks = {s1}
  Bodies = {b1, b2, b3, b4}
  Edits = {e1}
  NoBody = NoBody
  SharedFile = FALSE
  Faults = {"edit"}
INVARIANTS VerdictExact SinksMatchLog
PROPERTY DamageIsPermanent
