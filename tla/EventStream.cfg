SPECIFICATION FairSpec
CONSTANTS
  c1 = c1
  c2 = c2
  Consumers <- MCConsumers
  Capacity = 2
  MaxEvents = 4
  MaxCancels = 2
INVARIANTS
  TypeOK
  NothingVanishes
  HandedOutOnce
PROPERTIES
  LossOnlyWhenFull
  EndsWhenDrained
  ClosedEndsStreams
  EventsAreHandedOut
