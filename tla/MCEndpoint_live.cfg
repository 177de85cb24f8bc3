SPECIFICATION LiveSpec
CONSTANTS
  None = None
  c1 = c1
  k1 = k1
  Conns = {c1}
  WrongPath = {}
  StreamIds = {k1}
  Callers = {}
  BiConns = {c1}
  UniConns = {c1}
  DatagramConns = {}
  Depth = 2
  MaxSession = 1
  Role = "server"
INVARIANTS
  StreamEventOrder
  SessionEventOrder
  AnnouncedIsTold
PROPERTIES
  KeepsLog
  VanishedIsReported
  QuestionIsDelivered
CHECK_DEADLOCK FALSE
