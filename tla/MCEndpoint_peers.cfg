SPECIFICATION Spec
CONSTANTS
  None = None
  c1 = c1
  c2 = c2
  c3 = c3
  k1 = k1
  t1 = t1
  Conns = {c1, c2, c3}
  WrongPath = {c3}
  StreamIds = {k1}
  Callers = {t1}
  BiConns = {}
  UniConns = {}
  DatagramConns = {c1, c2, c3}
  Depth = 2
  MaxSession = 2
  Role = "server"
VIEW SafetyView
INVARIANTS
  SessionEventOrder
  LateCallRefused
  AnswerReachesItsSession
CHECK_DEADLOCK FALSE
