\* Two clients with one thread each.
SPECIFICATION PushFairSpec
CONSTANTS
  c1 = c1
  c2 = c2
  a1 = a1
  a2 = a2
  b1 = b1
  s1 = s1
  s2 = s2
  r1 = r1
  r2 = r2
  Clients = {c1, c2}
  Threads = {a1, b1}
  Servers = {s1}
  Rows = {r1}
  ClientOf <- OneEach
  ServerOf <- OneServer
  Staleness = 0
  MaxPending = 1
  Aggressive = FALSE
  Writers = {a1, b1}
  Readers = {a1}
  MaxClock = 2
  MaxIncs = 1
  MaxEvict = 1
  Fill = {r1}
  MaxEvents = 2
  Uninitialised = {0}
INVARIANTS
  ReadMyWrites
  NoDoubleApply
  SystemClockCoversCache
  RequestsAnswerable
  RetainedForReplay
  HeldPushAwaitsAck
PROPERTIES
  StoreSpec
  CachesConverge
