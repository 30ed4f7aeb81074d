\* Two threads of one client with aggressive clocks and a window of one batch.
SPECIFICATION Spec
CONSTANTS
  c1 = c1
  c2 = c2
  a1 = a1
  a2 = a2
  b1 = b1
  s1 = s1
  s2 = s2
  r1 = r1
  r2 = r2
  Clients = {c1, c2}
  Threads = {a1, a2, b1}
  Servers = {s1}
  Rows = {r1}
  ClientOf <- TwoThreads
  ServerOf <- OneServer
  Staleness = 1
  MaxPending = 1
  Aggressive = TRUE
  Writers = {}
  Readers = {}
  MaxClock = 2
  MaxIncs = 1
  MaxEvict = 0
INVARIANTS
  AllClocksArrive
CHECK_DEADLOCK FALSE
