CONSTANTS
  Missing = Missing
  Jobs = {1, 2, 3}
  Outcomes <- mcOutcomes
  NoResult = NoResult
  Admins = {a1, a2}
  Matrix <- mcMatrix
  Benchmarks <- mcBenchmarks
  NoTarget = NoTarget
  NoJob = 0
  NoView = NoView
  NoAdmin = NoAdmin
  NoEvidence = NoEvidence
  MaxRequests = 2
SPECIFICATION PublicationSpec
INVARIANTS PublishedAsConfirmed SnapshotAgreesWithTables RanksAreFair HonestResultsPass
PROPERTY NeverRepublished
CHECK_DEADLOCK FALSE
