SPECIFICATION Spec
CONSTANTS
  HeaderLen = 3
  ResyncLimit = 4
  MaxPlausible = 12
  MaxClaim = 13
  MaxRead = 3
CHECK_DEADLOCK FALSE
PROPERTY
  PlausibleFramesAreAwaited
