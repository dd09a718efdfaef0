CONSTANTS
  None = None
  client = client
  server = server
  b1 = b1
  b2 = b2
  a = a
  async = async
  i = i
  p = p
  c = c
  x = x
  y = y
  Owner <- MCOwner
  BuiltIn <- MCBuiltIn
  PortToNotify <- MCPortToNotify
  Reads <- MCReads
  Writes <- MCWrites
  Filters <- AnyMessage
  Task = {client, server}
  Port = {p, c}
  Message = {b1, b2, i}
  Type = {x}
  Interrupting = {i}
  SendTimeouts = {"kNoTimeout", "Finite"}
  ReadTimeouts = {"Finite"}
  Calls = {"delay"}
  MaxSends = 1
SPECIFICATION FairSpec
INVARIANTS
  PendingIffHeld
  DeferralsRemembered
PROPERTIES
  TimeoutsEnd
CHECK_DEADLOCK FALSE
