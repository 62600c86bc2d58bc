CONSTANTS
  HttpThreads = {http, event}
  MirrorThread = mirror
  MaxRequests = 4
  MaxBroadcasts = 2
SPECIFICATION FairSpec
INVARIANTS
  StartedOnce
PROPERTIES
  OnlyNewestIsTaken
  NewestGoesOut
