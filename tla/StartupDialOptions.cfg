SPECIFICATION Spec
CONSTANTS
    Inputs <- DialInputs
    ArgLists <- GivenArgs
    Names <- OneName
    ExistingDirs <- Existing
CHECK_DEADLOCK FALSE
INVARIANT InstanceDialOptionsWin
