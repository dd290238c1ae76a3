CONSTANTS
  Pairings = {p1, p2}
  Owners = {o1, o2}
  NoOwner = NoOwner
  MaxRunners = 3
  MaxTokens = 3
SPECIFICATION Spec
INVARIANTS TokenDeliveredOnce DeliveredTokenStands RunnerOfItsApprover
PROPERTIES RevocationSurvivesPairing
CHECK_DEADLOCK FALSE
