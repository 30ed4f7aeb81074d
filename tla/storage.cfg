\* Three channels insert into a storage of two rows.
SPECIFICATION FairSpec
CONSTANTS
  w0 = w0
  w1 = w1
  w2 = w2
  t0 = t0
  t1 = t1
  Rows = {0, 1, 2, 3}
  Workers = {w0, w1, w2}
  Getters = {t0, t1}
  WorkerOf <- ThreeChannels
  Capacity = 2
  MaxRounds = 2
  MaxGets = 2
INVARIANTS
  TypeOK
  ReferredStay
  SlotsAgree
  InsertsFit
  ReportNoBug
PROPERTIES
  InsertsEnd
CHECK_DEADLOCK FALSE
