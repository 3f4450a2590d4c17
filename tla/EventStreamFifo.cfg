SPECIFICATION Spec
CONSTANTS
  me = me
  Consumers <- MCConsumers
  Capacity = 2
  MaxEvents = 5
  MaxCancels = 3
PROPERTIES
  ImplementsFifo
