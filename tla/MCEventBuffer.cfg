CONSTANTS
  MaxEvents = 3
  MaxCrashes = 2
SPECIFICATION FairSpec
INVARIANTS SequenceFollowsEmission CompletedAfterEvents
PROPERTIES OnlyRewriteCrashErases EventuallyCompleted
CHECK_DEADLOCK FALSE
