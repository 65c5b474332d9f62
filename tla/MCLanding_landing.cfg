SPECIFICATION Spec
CONSTANTS
  a = a
  b = b
  Missions = {a, b}
  Outside = Outside
  Disturbances = {}
  MaxChange = 2
  MaxOutside = 1
  MaxFaults = 2
INVARIANTS TypeOK OneSquash DeliveredIsLanded ClosedIsFinished
PROPERTIES LandsGatedTree LandedIsClosed
CHECK_DEADLOCK FALSE
