SPECIFICATION FairSpec
CONSTANTS
  Profiles = 2
  MaxCalls = 2
  Malformed = Malformed
  NoResult = NoResult
  Marker = Marker
  Version <- mcVersion
  Outputs <- mcOutputs
  Changeable <- mcChangeable
INVARIANTS NothingLeftBehind AnswersAreOwn CompletedRunsAreWhole
CHECK_DEADLOCK FALSE
PROPERTIES LeasedServersOnly ExtensionRunEnds
