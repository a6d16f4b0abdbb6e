SPECIFICATION FairSpec
CONSTANTS
  j1 = j1
  j2 = j2
  Jobs <- MCJobs
  Modes <- MCModes
  None = None
  MaxFaults = 2
  MaxOps = 4
INVARIANTS ProcessesAreAskedFor DrainedIsQuiet PolicyIsSaved
PROPERTIES PauseDrains QueuedActionsRun BackupIsStill CancelledIsFinal
CHECK_DEADLOCK FALSE
