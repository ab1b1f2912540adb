CONSTANTS
  Server = Server
  a = a
  b = b
  Clients = {a, b}
  MaxRequests = 2
SPECIFICATION Spec
CHECK_DEADLOCK FALSE
INVARIANTS
  OutputsNeverCross
