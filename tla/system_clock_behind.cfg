\* A thread that calls Clock() several times before it reads again, as
\* GlobalBarrier() makes it do.
SPECIFICATION SysFairSpec
CONSTANTS
  w1 = w1
  w2 = w2
  t1 = t1
  t2 = t2
  Ids = {w1, w2}
  Threads = {t1}
  Staleness = 1
  MaxValue = 3
  Uninitialised = {0}
  GetsEveryClock = FALSE
PROPERTIES
  ReadableOnceReached
