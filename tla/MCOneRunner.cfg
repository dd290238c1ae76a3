CONSTANTS
  r1 = r1
  r2 = r2
  o1 = o1
  NoPlugin = NoPlugin
  NoCredential = NoCredential
  Refused = Refused
  Runners = {r1}
  NoRunner = NoRunner
  Owners = {o1}
  OwnerOf <- mcOwnerOf
  Targets = {"hosted", "native"}
  Hosted <- mcHosted
  CanHost <- mcCanHost
  Matrices <- mcMatrices
  Inventories <- mcInventories
  Outcomes <- mcOneOutcome
  NoRow = NoRow
  NoOutcome = NoOutcome
  MaxJobs = 3
  MaxAttempts = 2
  EventCount = 0
  CheckpointCount = 0
  MaxRequests = 1
SPECIFICATION Spec
INVARIANTS RevokedStaysDisabled OneOpenRetry
PROPERTIES NoLeaseAfterRevoke CancelNeverLost ImplementsLifecycle
CHECK_DEADLOCK FALSE
