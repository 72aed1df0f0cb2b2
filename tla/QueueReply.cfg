SPECIFICATION Spec
CONSTANTS
  t1 = t1
  t2 = t2
  t3 = t3
  h1 = h1
  h2 = h2
  h3 = h3
  k1 = k1
  None = None
  Tasks = {t1, t2}
  Handlers = {h1, h2}
  AgentTasks = {}
  RetryIds = {}
  KeyOf <- SharedKey
  MaxCrashes = 0
  MaxStops = 0
  MaxFaults = 0
CHECK_DEADLOCK FALSE
INVARIANT
  ReplyNamesStoredTask
