CONSTANTS
  Server = Server
  a = a
  b = b
  Clients = {a, b}
  MaxRequests = 3
SPECIFICATION Spec
CHECK_DEADLOCK FALSE
INVARIANTS
  DirectoryPreserved
