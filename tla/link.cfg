CONSTANTS
  NbModules = 3
  Names = {f}
  MaxErrors = 2
  f = f
SPECIFICATION Spec
CHECK_DEADLOCK FALSE
INVARIANTS
  PrototypesResolved
  ClashReported
