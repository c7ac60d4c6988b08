SPECIFICATION Spec
CONSTANTS
  Loggers = {l1, l2}
  Sinks = {}
  Bodies = {b1, b2}
  Edits = {e1}
  NoBody = NoBody
  SharedFile = FALSE
  Faults = {"power"}
INVARIANT OpenLogVerifies
CHECK_DEADLOCK FALSE
