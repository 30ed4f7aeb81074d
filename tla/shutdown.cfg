\* Two clients with one channel each, windows of one message; rows are pushed.
SPECIFICATION Spec
CONSTANTS
  c1 = c1
  c2 = c2
  a1 = a1
  a2 = a2
  b1 = b1
  h = h
  g = g
  t1 = t1
  t2 = t2
  Clients = {c1, c2}
  Channels = {h}
  HeadChannel = h
  NameNodeClient = c1
  Threads = {a1, b1}
  ClientOf <- OneEach
  InitThread <- FirstInits
  Tables = {t1, t2}
  PushRows = TRUE
  MaxPending = 1
  MaxClock = 2
INVARIANTS
  NothingUnread
  ClocksApplied
  HeldShutDownAwaitsAck
