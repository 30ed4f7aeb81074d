\* The instance of versions.cfg: a row may be on its way while a version wraps.
SPECIFICATION Spec
CONSTANTS
  s1 = s1
  s2 = s2
  s3 = s3
  Servers = {s1, s2, s3}
  Width = 2
  MaxPending = 3
  MaxBatches = 9
  MaxReports = 2
INVARIANTS
  ReplayExact
