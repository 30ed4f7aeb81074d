\* Versions of 2 bits, three batches under way, three servers; versions wrap twice.
SPECIFICATION Spec
CONSTANTS
  s1 = s1
  s2 = s2
  s3 = s3
  Servers = {s1, s2, s3}
  Width = 2
  MaxPending = 3
  MaxBatches = 9
  MaxReports = 2
INVARIANTS
  MinIsOldest
  ReplayExactInLap
PROPERTIES
  RetainedSpec
