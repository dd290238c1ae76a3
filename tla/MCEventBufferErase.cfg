CONSTANTS
  MaxEvents = 3
  MaxCrashes = 1
SPECIFICATION Spec
INVARIANT NoEventErased
CHECK_DEADLOCK FALSE
