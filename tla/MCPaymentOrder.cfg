SPECIFICATION FairSpec
CONSTANTS
    Keys <- MCKeys
    HostedKeys <- MCHosted
    Crossing <- MCCrossing
    MaxOrders = 2
    MaxCalls = 2
    MaxFaults = 1
INVARIANTS TypeOK MoneyAgrees PaidOncePerKey Watched
PROPERTY Settles
CHECK_DEADLOCK FALSE
