CONSTANTS
  t1 = t1
  t2 = t2
  t3 = t3
  t4 = t4
  Tasks = {t1, t2, t3, t4}
  Batch <- MCBatch4
  MaxWorkers = 4
  Permits = 2
  Threshold = 2
  ResponseKeys = {"diff", "patch"}
SPECIFICATION FairSpec
INVARIANTS
  TypeOK
  OpenHasFailures
  ThresholdOpens
  RefusedForCause
PROPERTY
  BatchEnds
