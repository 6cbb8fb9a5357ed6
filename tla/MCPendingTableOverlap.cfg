SPECIFICATION Spec
CONSTANTS
  Turns = {t1, t2}
  Pendings = {op1, op2, op3}
  Capacity = 2
  MaxFaults = 1
  NoPending = NoPending
  t1 = t1
  t2 = t2
  op1 = op1
  op2 = op2
  op3 = op3
SYMMETRY Symmetry
CHECK_DEADLOCK FALSE
INVARIANT
  ConfirmationConsumedOnce
