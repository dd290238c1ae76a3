CONSTANTS
  MaxTurns = 2
  MaxToolCalls = 3
  MaxCalls = 2
  HiddenTests = 3
  Samples = 2
  Absent = Absent
  Malformed = Malformed
  Done = Done
SPECIFICATION FairSpec
INVARIANTS GradeUninfluenced EventMatchesVerdict
PROPERTIES NoRequestAfterInterrupt ExecutionEnds
CHECK_DEADLOCK FALSE
