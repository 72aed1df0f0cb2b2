SPECIFICATION Spec
CONSTANTS
  r1 = r1
  r2 = r2
  a1 = a1
  Requests = {r1}
  Acks = {a1}
  Ops = {}
  Confs <- Toggles
  None = None
  MaxSteps = 2
  MaxTime = 2
  MaxRev = 2
  MaxNet = 1
  MaxCrashes = 0
PROPERTY AckReconciles
CHECK_DEADLOCK FALSE
