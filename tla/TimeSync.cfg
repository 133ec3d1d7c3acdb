CONSTANTS
  MaxAttempts = 2
  Interval = 10
  Skews <- Drift
  MaxSyncs = 2
  QueueBound = 2
SPECIFICATION FairSpec
CHECK_DEADLOCK FALSE
INVARIANTS TypeOK StoredReplyIsCurrent OkLeavesNothingBehind MaskedOnlyWithEdge
PROPERTY SyncEnds
