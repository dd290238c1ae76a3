CONSTANTS
  r1 = r1
  r2 = r2
  o1 = o1
  NoPlugin = NoPlugin
  NoCredential = NoCredential
  Refused = Refused
  Runners = {r1, r2}
  NoRunner = NoRunner
  Owners = {o1}
  OwnerOf <- mcOwnerOf
  Targets = {"hosted", "native"}
  Hosted <- mcHosted
  CanHost <- mcCanHost
  Matrices <- mcMatrices
  Inventories <- mcFullInventory
  Outcomes <- mcOneOutcome
  NoRow = NoRow
  NoOutcome = NoOutcome
  MaxJobs = 2
  MaxAttempts = 2
  EventCount = 0
  CheckpointCount = 0
  MaxRequests = 2
SYMMETRY mcSymmetry
SPECIFICATION Spec
INVARIANTS LeaseRespectsBinding OneActivePerRunner
PROPERTY MatrixOrder
CHECK_DEADLOCK FALSE
