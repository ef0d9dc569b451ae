SPECIFICATION HCSpec
CONSTANTS
    c2 = c2
    c1 = c1
    Conns = {c1, c2}
    NumMounts = 2
    MaxConnections = 1
    WaitOnClose = TRUE
    RunConnectionTest = FALSE
    Word = 8
SYMMETRY ConnSymmetry
CHECK_DEADLOCK FALSE
PROPERTY ReadyBelowMaximum
