SPECIFICATION ProgressSpec
CONSTANTS
  t1 = t1
  t2 = t2
  t3 = t3
  h1 = h1
  h2 = h2
  h3 = h3
  k1 = k1
  None = None
  Tasks = {t1, t2}
  Handlers = {h1, h2}
  AgentTasks = {}
  RetryIds = {}
  KeyOf <- NoKeys
  MaxCrashes = 0
  MaxStops = 1
  MaxFaults = 0
CHECK_DEADLOCK FALSE
INVARIANT
  CleanShutdown
PROPERTIES
  CancelTakesEffect
  QueueDrains
  ShutdownCompletes
