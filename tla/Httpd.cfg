CONSTANTS
  max_connections = 2
  MaxClients = 5
  MaxRequests = 2
SPECIFICATION FairSpec
INVARIANTS
  NeverFull
  UserDataOwned
  StoppedIsClean
PROPERTIES
  StopReturns
  WaitingIsAccepted
CHECK_DEADLOCK FALSE
