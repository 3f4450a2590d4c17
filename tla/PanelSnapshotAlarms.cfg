SPECIFICATION Spec
CONSTANTS
  a1 = a1
  a2 = a2
  z1 = z1
  Areas <- MCAreas
  Zones <- MCZones
  AreaOf <- MCAreaOf
  QueueMax = 1
  MaxChanges = 2
  MaxFaults = 1
INVARIANT
  AlarmsUntilDisarmed
