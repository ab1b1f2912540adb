CONSTANTS
  MaxFiles = 4
SPECIFICATION Spec
CHECK_DEADLOCK FALSE
INVARIANTS
  SamePipe
  SuccessIsWhole
  TempDirDeleted
PROPERTIES
  CompilationEnds
