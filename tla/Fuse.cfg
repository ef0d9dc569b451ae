SPECIFICATION FairSpec
CONSTANTS
    a = a
    b = b
    k1 = k1
    k2 = k2
    Instances = {a, b}
    Callers = {k1, k2}
    MaxMounts = 2
CHECK_DEADLOCK FALSE
INVARIANTS TypeOK Registered CloseMissesNoSocket
PROPERTIES LookupAnswered CloseReturns
