SPECIFICATION FairSpec
CONSTANTS
    MaxBytes = 3
    BufSize = 2
CHECK_DEADLOCK FALSE
INVARIANTS TypeOK ReturnsAfterClose LosslessEOF ReportsTheCause
PROPERTIES ImplementsRelay BothEnd
