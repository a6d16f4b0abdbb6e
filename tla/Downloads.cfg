SPECIFICATION FairSpec
CONSTANTS
  a = a
  b = b
  c = c
  Jobs <- MCJobs
  Torrents <- MCTorrents
  Size <- MCSize
  Capacity = 2
  Buffer = 1
  Setups <- MCSetups
  MaxFaults = 1
  MaxActs = 1
  None = None
INVARIANTS NasMeansNas
PROPERTIES QueuedIsComplete WaitingEnds OverloadEnds DuplicatesEnd CompletionIsSeen
CHECK_DEADLOCK FALSE
