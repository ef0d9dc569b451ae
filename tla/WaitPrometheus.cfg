SPECIFICATION ServiceSpec
CONSTANTS
    MaxSignals = 1
    Configs <- Config
    Scenarios <- PrometheusScenarios
CHECK_DEADLOCK FALSE
INVARIANT WaitNeedsHealthCheckOrPrometheus
