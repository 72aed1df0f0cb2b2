SPECIFICATION Spec
CONSTANTS
  r1 = r1
  r2 = r2
  a1 = a1
  Requests = {r1}
  Acks = {}
  Ops = {}
  Confs <- Toggles
  None = None
  MaxSteps = 2
  MaxTime = 1
  MaxRev = 2
  MaxNet = 1
  MaxCrashes = 0
PROPERTY MergeNeverRewinds
CHECK_DEADLOCK FALSE
