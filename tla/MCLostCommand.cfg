SPECIFICATION Spec
CONSTANTS
    Dwell = 2
    PolicyPeriod = 3
    TimeSteps <- SafetySteps
    Ahead = 0
    Behind = 0
    MaxFaults = 0
PROPERTY DefaultReplacesOnlyInit
CHECK_DEADLOCK FALSE
