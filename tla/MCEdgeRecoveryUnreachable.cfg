SPECIFICATION OneSpec
CONSTANTS
  Ops = {o1}
  RequireConfirm = {}
  Subjects = {car}
  Vehicle = car
  Params = {p1}
  Nobody = Nobody
  StaleAfter = 1
  AwaitTtl = 2
  Retention = 9
  StepBudget = 1
  QueryTimeout = 1
  MaxDelay = 2
  Grace = 2
  Horizon = 3
  PendingTtl = 1
  MaxSends = 4
  MaxTime = 11
  o1 = o1
  car = car
  p1 = p1
CHECK_DEADLOCK FALSE
INVARIANT
  UnreachableNeverRan
