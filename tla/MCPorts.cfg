CONSTANTS
  None = None
  client = client
  server = server
  b1 = b1
  b2 = b2
  a = a
  async = async
  i = i
  p = p
  c = c
  x = x
  y = y
  Owner <- MCOwner
  BuiltIn <- MCBuiltIn
  PortToNotify <- MCPortToNotify
  Reads <- MCReads
  Writes <- MCWrites
  Filters <- MCFilters
  Task = {client, server}
  Port = {p, c}
  Message = {b1, b2, a}
  Type = {x, y}
  Interrupting = {}
  SendTimeouts = {"kNoTimeout"}
  ReadTimeouts = {"kNoTimeout"}
  Calls = {"getResult", "abort", "blockTillDone", "urgent", "take"}
  MaxSends = 2
SPECIFICATION Spec
INVARIANTS
  NoMatchWaiting
  TokenAnswersItsSend
PROPERTIES
  NoErrMeansReceived
CHECK_DEADLOCK FALSE
