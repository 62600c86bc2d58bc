CONSTANTS
  Conns = {c1, c2}
  Fields = {volume}
  MaxSessions = 2
  MaxPosts = 2
SPECIFICATION MCSpec
INVARIANTS
  ThreadHasSession
  NothingForgotten
  TakenIsNew
  OwnOutputAlone
  OutputsClosedAlone
PROPERTIES
  StopReturns
  SettingApplied
