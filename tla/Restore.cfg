SPECIFICATION FairSpec
CONSTANTS
  None = None
  MaxRestores = 2
  MaxEdits = 2
  MaxFaults = 2
INVARIANTS AutomationWaits
PROPERTIES RestoreIsAtomic RestoreEnds
