SPECIFICATION FairSpec
CONSTANTS
  a1 = a1
  a2 = a2
  z1 = z1
  Areas <- MCAreas
  Zones <- MCZones
  AreaOf <- MCAreaOf
  QueueMax = 1
  MaxChanges = 3
  MaxFaults = 1
INVARIANTS
  TypeOK
  AlarmsAreKept
PROPERTY
  SnapshotConverges
