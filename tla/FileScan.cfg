SPECIFICATION FairFileSpec
CONSTANTS
  f1 = f1
  Files <- MCFiles
  Scans <- MCFiles
  Workers <- MCWorkers
  Main = 0
  Slots = 1
  Window = 3
  Overlap = 1
  Minimum = 2
  Native = 4
  MaxEntries = 3
  MaxDepth = 2
  MaxExpanded = 3
  None = None
  Nil = None
  Inputs <- MCInputs
INVARIANTS WindowsMissNothing SlotsAccounted CancellationIsExplained NothingIsMissed NothingIsLeft WorkspacesAreKept
PROPERTIES ScansEnd
