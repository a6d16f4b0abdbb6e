SPECIFICATION FairSpec
CONSTANTS
  Actions <- MCActions
  MaxFaults = 3
  MaxMeddles = 3
INVARIANTS InfectedIsConfined
PROPERTIES ActionsEnd EndStatesAreTrue
CHECK_DEADLOCK FALSE
