SPECIFICATION FairSpec
CONSTANTS
  Conns = {p1, p2}
  MaxEntries = 2
  MaxCancels = 4
INVARIANTS
  TypeOK
  NothingOutlivesExit
PROPERTIES
  ExitReturns
  StopEndsSessions
  HandlersLive
