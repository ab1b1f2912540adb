CONSTANTS
  a = a
  any = any
  b = b
  p = p
  t = t
  Names = {a, b}
  Types = {t}
  Dims = {10}
  Storages = {"none"}
  Params = {any, p}
  AnyParams = any
  Kinds = {"enum", "function", "object"}
  Modes = {}
  MaxErrors = 2
  MaxSymbols = 3
  MaxPushes = 2
  MaxDepth = 3
SPECIFICATION Spec
CHECK_DEADLOCK FALSE
PROPERTIES
  ImplementsEnvironment
  ClosedScopesFrozen
