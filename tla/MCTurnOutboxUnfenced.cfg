SPECIFICATION Spec
CONSTANTS
  Exchanges = {e1}
  Sessions = {s1}
  Capacity = 2
  Batch = 2
  MaxDeletions = 1
  e1 = e1
  s1 = s1
CHECK_DEADLOCK FALSE
INVARIANT
  NoWriteAfterDeletion
