SPECIFICATION LiveSpec
CONSTANTS
  Retention = 2
  Horizon = 1
  MaxSeq = 4
  Reserve = 1
  MaxRecords = 2
  QueueDepth = 1
  MaxBatch = 2
  PageSize = 1
  Skews = {0, 2}
  MaxStreams = 2
  Budgets <- McBudgets
INVARIANTS OneBucketPerSeq LossIsAccounted DeltaSkipsNothing
CHECK_DEADLOCK FALSE
PROPERTIES SettlesForGood BacklogDrains
