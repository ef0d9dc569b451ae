SPECIFICATION FairServiceSpec
CONSTANTS
    MaxSignals = 2
    Configs <- Config
    Scenarios <- OpScenarios
CHECK_DEADLOCK FALSE
INVARIANTS TypeOK OneStartupOutcome ClientClosedAtExit ExitStatusEarned WaitTruthful
PROPERTIES ShutdownCompletes ShutdownHonoured WaitEnds ServiceStops
