SPECIFICATION Spec
CONSTANTS
  Protocol = 69
  Version = 2
  Noises = {1, 128}
  Key = 90
  Characters <- MCCharacters
  Replies <- MCReplies
  MaxText = 2
  Fillers = {0, 13}
  MaxReply = 9
  MaxFragments = 3
CHECK_DEADLOCK FALSE
INVARIANTS
  TypeOK
  DamageIsNoticed
  EventsAreRead
  RepliesAreRead
