SPECIFICATION FairSpec
CONSTANTS
  one = one
  two = two
  Jobs <- MCJobs
  LargeJobs <- MCBothLarge
  Ids <- MCIds
  None = None
  HardMaxSlots = 2
  DefaultSlots = 1
  MaxLarge = 1
  MaxFailures = 2
  MaxFiles = 1
  MaxFaults = 1
  MaxOps = 1
PROPERTIES SlotsRespected QueuedJobsAreDecided ShutdownCompletes
