SPECIFICATION LiveSpec
CONSTANTS
  None = None
  Threads = {t1, t2, t3}
  Ports = {p1}
  MaxHandle = 3
  t1 = t1
  t2 = t2
  t3 = t3
  p1 = p1
INVARIANTS
  TypeOK
  NoUseAfterDrop
  HandleIsFresh
PROPERTIES
  StaleHandleStaysDead
  StoppedIsFreed
CHECK_DEADLOCK FALSE
