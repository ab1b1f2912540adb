CONSTANTS
  NbModules = 2
  Names = {a}
  MaxErrors = 2
  MaxSymbols = 4
  a = a
SPECIFICATION Spec
CHECK_DEADLOCK FALSE
INVARIANTS
  TypeOK
  NewNamesDiffer
  UsesKeepTheirMeaning
  ExternsResolved
  CallsAgree
  ClashesAreTheErrors
PROPERTIES
  ImplementsStructure
