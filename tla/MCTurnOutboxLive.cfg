SPECIFICATION OrderedLiveSpec
CONSTANTS
  Exchanges = {e1, e2}
  Sessions = {s1}
  Capacity = 2
  Batch = 1
  MaxDeletions = 1
  e1 = e1
  e2 = e2
  s1 = s1
CHECK_DEADLOCK FALSE
PROPERTIES
  OutboxDrains
