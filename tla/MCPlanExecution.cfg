SPECIFICATION Spec
CONSTANTS
    NumSteps = 6
    Deps <- MCDeps
    Acting <- MCActing
    Confirming <- MCConfirming
    Asking <- MCAsking
    PrintOf <- MCPrintOf
    EndpointOf <- MCEndpointOf
    Threshold = 2
    MaxResumes = 5
INVARIANTS TypeOK RanOnce AskedBeforeActed NothingSilent
CHECK_DEADLOCK FALSE
