CONSTANTS
  r1 = r1
  r2 = r2
  o1 = o1
  NoPlugin = NoPlugin
  NoCredential = NoCredential
  Refused = Refused
  Runners = {r1}
  NoRunner = NoRunner
  Owners = {o1}
  OwnerOf <- mcOwnerOf
  Targets = {"native"}
  Hosted <- mcHosted
  CanHost <- mcCanHost
  Matrices <- mcNativeMatrices
  Inventories <- mcOneInventory
  Outcomes <- mcOutcomes
  NoRow = NoRow
  NoOutcome = NoOutcome
  MaxJobs = 1
  MaxAttempts = 2
  EventCount = 2
  CheckpointCount = 2
  MaxRequests = 3
SPECIFICATION Spec
INVARIANTS JobFollowsAttempt ResultMatchesOutcome
PROPERTIES TerminalIsFinal CheckpointNeverRegresses
CHECK_DEADLOCK FALSE
