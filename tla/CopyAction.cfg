SPECIFICATION FairSpec
CONSTANTS
  j1 = j1
  j2 = j2
  one = one
  two = two
  Jobs <- MCJobs
  Names <- MCNames
  Single = one
  Bytes <- MCBytes
  Runners <- MCRunners
  None = None
  MaxChanges = 1
  MaxFaults = 1
INVARIANTS SuccessIsEqual
PROPERTIES NothingIsReplaced CopiesEnd
