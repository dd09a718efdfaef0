CONSTANTS
  None = None
  client = client
  server = server
  b1 = b1
  b2 = b2
  a = a
  async = async
  i = i
  p = p
  c = c
  x = x
  y = y
  Owner <- MCOwner
  BuiltIn <- MCBuiltIn
  PortToNotify <- MCPortToNotify
  Reads <- MCReads
  Writes <- MCWrites
  Filters <- AnyMessage
  Task = {client, server}
  Port = {p, c}
  Message = {b1, b2, a, async}
  Type = {x}
  Interrupting = {}
  SendTimeouts = {"kNoTimeout", "kTimeOutImmediate"}
  ReadTimeouts = {"kNoTimeout"}
  Calls = {"abort", "blockTillDone", "reset", "destroyPort", "destroyMessage", "resetFilter", "isMsgAvailable"}
  MaxSends = 1
SPECIFICATION Spec
INVARIANTS
  LinksExact
  NoTaskForgotten
CHECK_DEADLOCK FALSE
