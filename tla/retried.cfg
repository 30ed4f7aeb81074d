\* Two reading threads of one client, whose process storage evicts a row up to
\* three times.  A failed CHECK stops the system, hence no deadlock check.
SPECIFICATION Spec
CONSTANTS
  c1 = c1
  c2 = c2
  a1 = a1
  a2 = a2
  b1 = b1
  s1 = s1
  s2 = s2
  r1 = r1
  r2 = r2
  Clients = {c1}
  Threads = {a1, a2}
  Servers = {s1}
  Rows = {r1}
  ClientOf <- TwoLocal
  ServerOf <- OneServer
  Staleness = 1
  MaxPending = 1
  Aggressive = TRUE
  Writers = {}
  Readers = {a1, a2}
  MaxClock = 2
  MaxIncs = 1
  MaxEvict = 3
INVARIANTS
  OnlyOplogOrFetchFails
CHECK_DEADLOCK FALSE
