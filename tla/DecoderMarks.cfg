SPECIFICATION MCSpec
CONSTANTS
  Parts = {"decoder"}
  Urls = {u}
  Names = {1, 2}
  Values = {v}
  Walkers = {w}
  MaxPairs = 2
  MaxForEach = 1
  Handles = {h1, h2}
  Keys = {k1, k2}
  None = None
  MaxCalls = 4
  Limit = 3
  Chunk = 2
  DefaultMax = 2
  HardMax = 3
  MaxFileCalls = 4
  FileUses <- OnDisk
  Uses <- StoreUses
  Stoppers = {s1}
  MaxSignals = 2
  HostUses <- AgentUses
  SafeMax = 3
  IntMax = 7
  Columns <- Texts
  Scripts <- AllScripts
  Origins = {a, b}
  Global = Global
  MaxIdle = 1
  MaxRequests = 3
  ClientUses <- FetchUses
  a = a
  b = b
  h1 = h1
  h2 = h2
  k1 = k1
  k2 = k2
  s1 = s1
INVARIANT MarksSkipped
CHECK_DEADLOCK FALSE
