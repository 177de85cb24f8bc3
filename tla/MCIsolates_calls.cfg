SPECIFICATION LiveSpec
CONSTANTS
  None = None
  StartCall = StartCall
  a1 = a1
  a2 = a2
  z1 = z1
  z2 = z2
  Sends = {a1, a2}
  Stops = {z1, z2}
  Setups <- EverySetup
  MaxIdle = 60000
  MaxEvents = 2
INVARIANTS
  TypeOK
  AnswerIsOwn
  
  HeardInOrder
PROPERTIES
  CallsInOrder
  NoOrphans
  NoCallAfterStop
  EveryCallAnswered
  PollerEnds
  EveryEventHeard
CHECK_DEADLOCK FALSE
