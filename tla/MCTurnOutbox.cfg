SPECIFICATION Spec
CONSTANTS
  Exchanges = {e1, e2}
  Sessions = {s1, s2}
  Capacity = 2
  Batch = 2
  MaxDeletions = 1
  e1 = e1
  e2 = e2
  s1 = s1
  s2 = s2
SYMMETRY Symmetry
INVARIANTS
  TypeOK
  WrittenOnce
  ReplayRespectsDeletion
  ReplayKeepsOrder
  NothingLost
CHECK_DEADLOCK FALSE
