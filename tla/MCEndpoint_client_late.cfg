SPECIFICATION Spec
CONSTANTS
  None = None
  c1 = c1
  k1 = k1
  t1 = t1
  Conns = {c1}
  WrongPath = {}
  StreamIds = {k1}
  Callers = {t1}
  BiConns = {}
  UniConns = {}
  DatagramConns = {}
  Depth = 2
  MaxSession = 1
  Role = "client"
INVARIANTS
  LateCallRefused
CHECK_DEADLOCK FALSE
