SPECIFICATION FairSpec
CONSTANTS
    c2 = c2
    c1 = c1
    Conns = {c1, c2}
    NumMounts = 2
    MaxConnections = 1
    WaitOnClose = FALSE
    RunConnectionTest = TRUE
    Word = 8
CHECK_DEADLOCK FALSE
PROPERTIES CloseReturns AcceptLoopsEnd
