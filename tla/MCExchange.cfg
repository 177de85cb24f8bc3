SPECIFICATION LiveSpec
CONSTANTS
  None = None
  c1 = c1
  k1 = k1
  t1 = t1
  t2 = t2
  Conns = {c1}
  StreamIds = {k1}
  ServerCallers = {t1}
  ClientCallers = {t2}
  Depth = 2
  MaxSession = 1
INVARIANTS
  AnswerHasQuestion
CHECK_DEADLOCK FALSE
PROPERTIES
  QuestionIsAnswered
  BothSidesOpen
  StopIsHeard
