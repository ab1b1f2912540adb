CONSTANTS
  a = a
  b = b
  Names = {a, b}
  MaxLabels = 4
  MaxFunctions = 3
  MaxErrors = 3
SPECIFICATION Spec
CHECK_DEADLOCK FALSE
INVARIANTS
  PendingBelongToBody
