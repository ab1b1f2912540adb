CONSTANTS
  NbModules = 2
  Names = {f}
  MaxErrors = 2
  f = f
SPECIFICATION Spec
CHECK_DEADLOCK FALSE
INVARIANTS
  RedefinitionReported
