SPECIFICATION Spec
CONSTANTS
  one = one
  two = two
  Jobs <- MCJobs
  LargeJobs <- MCNoneLarge
  Ids <- MCIds
  None = None
  HardMaxSlots = 2
  DefaultSlots = 1
  MaxLarge = 1
  MaxFailures = 2
  MaxFiles = 1
  MaxFaults = 1
  MaxOps = 2
INVARIANTS OneRunnerPerJob VerdictBacked ManagementMissesScans
PROPERTY FencedWrites
SYMMETRY MCSymmetry
