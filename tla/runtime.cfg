SPECIFICATION Spec
CONSTANTS
  CharHalf = 2
  ShortHalf = 8
  IntHalf = 128
  LongHalf = 32768
  NbElem = 2
  Operands <- MCOperands
  Garbage <- MCGarbage
CHECK_DEADLOCK FALSE
INVARIANTS
  ArithmeticIsExact
  DivisionsAreExact
  RotationsAreExact
  MasksSelect
  ElementsMatchWhole
