SPECIFICATION Spec
CONSTANTS
    c1 = c1
    Conns = {c1}
    NumMounts = 2
    MaxConnections = 1
    WaitOnClose = FALSE
    RunConnectionTest = FALSE
    Word = 8
CHECK_DEADLOCK FALSE
INVARIANT FailedSendMeansReturned
