SPECIFICATION FairSpec
CONSTANTS
  c1 = c1
  c2 = c2
  Callers <- MCCallers
  SeqSpace = 3
  QuietTime = 1
  MaxFragments = 2
  MaxCalls = 2
INVARIANTS
  TypeOK
  Serialized
  AwaitedIsPending
  NoAbandonedEntry
  OwnReply
  NoWaitAfterTeardown
PROPERTIES
  QuietOpenSend
  ClosedEndsCommands
  CommandsEnd
