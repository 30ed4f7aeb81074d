\* Two workers and two threads that read at every clock.
SPECIFICATION SysFairSpec
CONSTANTS
  w1 = w1
  w2 = w2
  t1 = t1
  t2 = t2
  Ids = {w1, w2}
  Threads = {t1, t2}
  Staleness = 1
  MaxValue = 4
  Uninitialised <- NoClockYet
  GetsEveryClock = TRUE
INVARIANTS
  MinIsExact
  AnswerTellsMove
  NeverAhead
  SleepersAreNotified
PROPERTIES
  WaitsEnd
