SPECIFICATION Spec
CONSTANTS
    MaxSignals = 1
    Configs <- StepConfigs
CHECK_DEADLOCK FALSE
INVARIANT DroppedQuitMeansExiting
