SPECIFICATION Spec
CONSTANTS
  t1 = t1
  t2 = t2
  t3 = t3
  h1 = h1
  h2 = h2
  h3 = h3
  k1 = k1
  None = None
  Tasks = {t1, t2, t3}
  Handlers = {h1, h2}
  AgentTasks = {t2}
  RetryIds = {t3}
  KeyOf <- FirstKeyed
  MaxCrashes = 1
  MaxStops = 0
  MaxFaults = 1
CHECK_DEADLOCK FALSE
SYMMETRY HandlerSymmetry
INVARIANTS
  AtMostOnce
  SingleFlight
  ProcessHasRunningRow
  KillSeenAsCancel
  LogsNeverCollide
PROPERTY
  ImplementsLifecycle
