SPECIFICATION Spec
CONSTANTS
    Dwell = 2
    PolicyPeriod = 3
    TimeSteps <- SafetySteps
    Ahead = 1
    Behind = 1
    MaxFaults = 2
INVARIANT InferenceRunsExactlyInRL
INVARIANT GainsMatchState
INVARIANT PolicyCommandIsFresh
INVARIANT FailSafeStops
INVARIANT ReleasedIsSafe
INVARIANT RunsOnlyOnRequest
PROPERTY DwellRespected
PROPERTY NodeSpec
PROPERTY SessionSpec
CHECK_DEADLOCK FALSE
