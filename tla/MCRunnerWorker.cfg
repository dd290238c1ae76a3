CONSTANTS
  MaxAttempts = 2
  CheckpointCount <- MCCheckpointCount
  MaxCrashes = 1
SPECIFICATION FairSpec
INVARIANTS OneVerdict CheckpointBeforeTerminal
PROPERTIES Contract TakenJobEnds
