SPECIFICATION Spec
CONSTANTS
  None = None
  c1 = c1
  k1 = k1
  t1 = t1
  t2 = t2
  Conns = {c1}
  WrongPath = {}
  StreamIds = {k1}
  Callers = {t1, t2}
  BiConns = {c1}
  UniConns = {}
  DatagramConns = {}
  Depth = 2
  MaxSession = 1
  Role = "server"
SYMMETRY CallerSymmetry
VIEW SafetyView
INVARIANTS
  TypeOK
  LateCallRefused
  AnnouncedStreamIsKept
PROPERTIES
  ClosedOnce
CHECK_DEADLOCK FALSE
