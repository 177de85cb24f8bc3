SPECIFICATION Spec
CONSTANTS
  None = None
  c1 = c1
  k1 = k1
  Conns = {c1}
  WrongPath = {}
  StreamIds = {k1}
  Callers = {}
  BiConns = {}
  UniConns = {}
  DatagramConns = {c1}
  Depth = 2
  MaxSession = 1
  Role = "server"
PROPERTIES
  OldestIsDropped
CHECK_DEADLOCK FALSE
