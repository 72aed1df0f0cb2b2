SPECIFICATION MCSpec
CONSTANTS
  Parts = {"server", "process", "terminal"}
  c1 = c1
  c2 = c2
  k1 = k1
  k2 = k2
  p1 = p1
  p2 = p2
  d1 = d1
  d2 = d2
  d3 = d3
  w1 = w1
  w2 = w2
  x1 = x1
  r1 = r1
  None = None
  Conns = {c1, c2}
  Closers = {k1, k2}
  Uses <- ServerUses
  Responses <- SomeResponses
  MaxResponse = 1
  ProcessUses <- SomeProcesses
  Procs = {p1, p2}
  Clients = {d1, d2, d3}
  Nobody = Nobody
  MaxRunning = 1
  MaxTotal = 2
  Cap = 2
  ReadMax = 1
  Payload = 2
  TerminalUses <- SomeTerminals
  Writers = {w1, w2}
  Waiters = {x1}
  TerminalClosers = {k1, k2}
  Reader = r1
  Buffer = 2
  MaxRead = 1
  MaxBytes = 4
INVARIANTS
  RepliesMatch
  WaitIsComplete
  ReaderIsExact
  WritesAreSerialized
  BudgetExact
  BufferExact
PROPERTIES
  JoinsBarrier
  TerminalImplementsBarrier
  EveryCallEnds
CHECK_DEADLOCK FALSE
