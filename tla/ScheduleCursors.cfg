SPECIFICATION Spec
CONSTANTS
  r1 = r1
  r2 = r2
  a1 = a1
  Requests = {r1}
  Acks = {a1}
  Ops = {"patch", "runNow", "delete"}
  Confs <- Policies
  None = None
  MaxSteps = 2
  MaxTime = 2
  MaxRev = 2
  MaxNet = 1
  MaxCrashes = 0
INVARIANT ForbidNeverOverlaps
PROPERTY CursorMovesByClaim
CHECK_DEADLOCK FALSE
