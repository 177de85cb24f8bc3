SPECIFICATION Spec
CONSTANTS
  None = None
  StartCall = StartCall
  a1 = a1
  z1 = z1
  Sends = {a1}
  Stops = {z1}
  Setups <- LinkedIn
  MaxIdle = 60000
  MaxEvents = 1
INVARIANTS
  UsableMeansSupported
CHECK_DEADLOCK FALSE
