CONSTANTS
  Terminals = {t1, t2}
  MaxCommands = 5
  MaxDaemons = 3
  MaxRunners = 2
SPECIFICATION FairSpec
INVARIANT StateFilesStand
PROPERTY StoppedDaemonEnds
CHECK_DEADLOCK FALSE
