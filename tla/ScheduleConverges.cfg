SPECIFICATION MCSpec
CONSTANTS
  r1 = r1
  r2 = r2
  a1 = a1
  Requests = {r1, r2}
  Acks = {}
  Ops = {"patch"}
  Confs <- Mixed
  None = None
  MaxSteps = 2
  MaxTime = 2
  MaxRev = 2
  MaxNet = 2
  MaxCrashes = 1
INVARIANT SameRevisionSameConf
PROPERTIES Converges NothingStaysDue
CHECK_DEADLOCK FALSE
