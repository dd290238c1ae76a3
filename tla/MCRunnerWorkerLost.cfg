CONSTANTS
  MaxAttempts = 1
  CheckpointCount <- MCNoCheckpoints
  MaxCrashes = 0
SPECIFICATION FairSpec
PROPERTY LeasedJobEnds
