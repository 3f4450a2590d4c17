SPECIFICATION FairSpec
CONSTANTS
  w1 = w1
  w2 = w2
  Waiters <- MCWaiters
  MinPolls <- MCMinPolls
  WriteMax = 1
  MaxFrames = 2
  MaxCommands = 1
INVARIANTS
  TypeOK
  AcksHaveNoGap
  NoLostWakeup
  NothingOutlivesHandler
PROPERTIES
  ReadLoopNeverStalls
  MuteIsNotAlive
  SilenceEndsConnection
  ImplementsHandler
