SPECIFICATION Spec
CONSTANTS
  Containers = {d1}
  InProcess = {i1, i2}
  Stubborn = {i2}
  None = None
INVARIANTS TypeOK SuccessIsReal NothingRunsUnnoticed
PROPERTY NeverHangs
CHECK_DEADLOCK FALSE
