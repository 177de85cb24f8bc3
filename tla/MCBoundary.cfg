SPECIFICATION Spec
CONSTANTS
  None = None
  e1 = e1
  e2 = e2
  t1 = t1
  t2 = t2
  Endpoints = {e1, e2}
  OsThreads = {t1, t2}
  Entries = {"serverStart", "clientConnect", "openStream", "sessionSend", "streamSend", "streamClose", "serverStop"}
  Events <- OneOfEach
  MaxCalls = 4
SYMMETRY BoundarySymmetry
INVARIANTS
  DetailIsOwn
  StringsAreReturned
  EventsArrive
CHECK_DEADLOCK FALSE
