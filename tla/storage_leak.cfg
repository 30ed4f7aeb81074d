\* One channel, one application thread, a storage of one row, and a Get that
\* finds its row stale.
SPECIFICATION FairSpec
CONSTANTS
  w0 = w0
  w1 = w1
  w2 = w2
  t0 = t0
  t1 = t1
  Rows = {0, 1}
  Workers = {w0}
  Getters = {t0}
  WorkerOf <- OneChannel
  Capacity = 1
  MaxRounds = 2
  MaxGets = 3
PROPERTIES
  InsertsEndWithinAccessors
CHECK_DEADLOCK FALSE
