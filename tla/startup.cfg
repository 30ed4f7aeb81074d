\* Two clients with two channels each, two threads in one of them, start, create
\* a table and shut down.  The system then stops; Terminates excludes any earlier
\* stop.
SPECIFICATION FairSpec
CONSTANTS
  c1 = c1
  c2 = c2
  a1 = a1
  a2 = a2
  b1 = b1
  h = h
  g = g
  t1 = t1
  t2 = t2
  Clients = {c1, c2}
  Channels = {h, g}
  HeadChannel = h
  NameNodeClient = c1
  Threads = {a1, a2, b1}
  ClientOf <- TwoAndOne
  InitThread <- FirstInits
  Tables = {t1}
  PushRows = FALSE
  MaxPending = 1
  MaxClock = 0
INVARIANTS
  NoCheckFails
  TablesBeforeUse
PROPERTIES
  Terminates
CHECK_DEADLOCK FALSE
