CONSTANTS
  any = any
  p = p
  q = q
  t = t
  u = u
  x = x
  Names = {x}
  Types = {t, u}
  Dims <- MCDims
  Storages = {"none", "static", "extern"}
  Params = {any, p, q}
  AnyParams = any
  Kinds = {"function", "object", "typedef"}
  Modes = {"mangling", "builtin"}
  MaxErrors = 2
  MaxSymbols = 3
  MaxPushes = 1
  MaxDepth = 2
SPECIFICATION Spec
SYMMETRY MCSymmetry
CHECK_DEADLOCK FALSE
INVARIANTS
  TypeOK
  FlushedStayAttached
  BrothersAreOneEntity
  NothingLost
  FunctionDefinitionKept
  OverloadsDiffer
PROPERTIES
  BuiltinsProtected
