SPECIFICATION Spec
CONSTANTS
  a = a
  b = b
  Missions = {a, b}
  Outside = Outside
  Disturbances = {}
  MaxChange = 2
  MaxOutside = 1
  MaxFaults = 2
INVARIANT LandedRunResumes
CHECK_DEADLOCK FALSE
