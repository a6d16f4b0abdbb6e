SPECIFICATION FairSpec
CONSTANTS
  movie = movie
  extra = extra
  staging = staging
  moved = moved
  Files <- MCFiles
  Roots <- MCRoots
  None = None
  Versions <- MCVersions
  Engines <- MCEngines
  Detected <- MCDetected
  MaxFailures = 2
  MaxChanges = 3
  MaxFaults = 1
INVARIANTS NoMalwarePasses ProgressIsExact
PROPERTIES CheckpointsSurvive ScanDecides
CHECK_DEADLOCK FALSE
