SPECIFICATION FairSpec
CONSTANTS
    Msgs <- MCMsgs
    Durable <- MCDurable
    Critical <- MCCritical
    Timed <- MCTimed
    Conditional <- MCConditional
    KeyOf <- MCKeyOf
    MaxFaults = 2
INVARIANTS
    TypeOK
    ClosedForCause
    NotStranded
PROPERTY Reaches
