SPECIFICATION Spec
CONSTANTS
    Inputs <- StartupInputs
    ArgLists <- StartupArgs
    Names <- ThreeNames
    ExistingDirs <- Existing
CHECK_DEADLOCK FALSE
INVARIANTS NothingLeftListening EveryInstanceMounted NoSelfConflict CredentialsAsAsked IAMLoginWhereAsked
