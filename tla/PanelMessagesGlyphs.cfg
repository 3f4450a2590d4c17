SPECIFICATION Spec
CONSTANTS
  Protocol = 69
  Version = 2
  Noises = {1, 128}
  Key = 90
  Characters <- MCSmallAe
  Replies <- MCReplies
  MaxText = 2
  Fillers = {0}
  MaxReply = 9
  MaxFragments = 3
CHECK_DEADLOCK FALSE
INVARIANT
  NoReplacementGlyphs
