SPECIFICATION Spec
CONSTANTS
    Registered <- MCRegistered
    Deps <- MCDeps
    Threaded <- MCThreaded
    Databases = {"main", "other"}
    Requests = {r1}
    MaxSignals = 2
    MaxFailures = 1
INVARIANTS TypeOK Coherent StopReaches FaultsHaveACause
PROPERTIES SwitchNeedsPermit ShutdownEnds
CHECK_DEADLOCK FALSE
