SPECIFICATION Spec
CONSTANTS
  Loggers = {l1, l2}
  Sinks = {s1, s2}
  Bodies = {b1, b2, b3}
  Edits = {e1}
  NoBody = NoBody
  SharedFile = TRUE
  Faults = {"disk", "kill", "power"}
SYMMETRY Interchangeable
INVARIANTS TypeOK ValidKeepsAppended SinksMatchLog EverySinkIsTried
CHECK_DEADLOCK FALSE
