SPECIFICATION Spec
CONSTANTS
    ip1 = ip1
    v6 = v6
    NIL = NIL
    BLANK = BLANK
    IPv4 <- MCIPv4
    Inputs <- MCInputs
CHECK_DEADLOCK FALSE
INVARIANTS GivenTakesEffect  EndpointsAsWritten
