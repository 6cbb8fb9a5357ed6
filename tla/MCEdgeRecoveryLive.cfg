SPECIFICATION OneLiveSpec
CONSTANTS
  Ops = {o1, o2}
  RequireConfirm = {o1}
  Subjects = {car}
  Vehicle = car
  Params = {p1}
  Nobody = Nobody
  StaleAfter = 1
  AwaitTtl = 2
  Retention = 5
  StepBudget = 1
  QueryTimeout = 0
  MaxDelay = 1
  Grace = 1
  Horizon = 2
  PendingTtl = 1
  MaxSends = 4
  MaxTime = 7
  o1 = o1
  o2 = o2
  car = car
  p1 = p1
CHECK_DEADLOCK FALSE
PROPERTIES
  PromisesAreKept
  StepsSettle
