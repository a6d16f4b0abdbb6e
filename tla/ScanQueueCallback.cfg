SPECIFICATION Spec
CONSTANTS
  one = one
  two = two
  Jobs <- MCJobs
  LargeJobs <- MCOneLarge
  Ids <- MCIds
  None = None
  HardMaxSlots = 2
  DefaultSlots = 1
  MaxLarge = 1
  MaxFailures = 2
  MaxFiles = 1
  MaxFaults = 0
  MaxOps = 1
PROPERTY CallbackKeepsScans
