SPECIFICATION LiveSpec
CONSTANTS
  None = None
  c1 = c1
  k1 = k1
  t1 = t1
  t2 = t2
  Conns = {c1}
  WrongPath = {}
  StreamIds = {k1}
  Callers = {t1, t2}
  BiConns = {}
  UniConns = {}
  DatagramConns = {}
  Depth = 2
  MaxSession = 1
  Role = "client"
INVARIANTS
  AnnouncedIsTold
PROPERTIES
  KeepsLog
  ClosedOnce
  CallOnClosedReturns
CHECK_DEADLOCK FALSE
