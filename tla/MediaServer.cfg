CONSTANTS
  Tries = 2
  MaxPort = 1
  MaxSettings = 3
  MaxPosted = 2
SPECIFICATION FairSpec
INVARIANTS
  StartsClean
  StartedServes
  AnnouncedPorts

  
  
CHECK_DEADLOCK FALSE
