SPECIFICATION FairSpec
CONSTANTS
    Dwell = 2
    PolicyPeriod = 3
    TimeSteps <- LivenessSteps
    Ahead = 1
    Behind = 1
    MaxFaults = 1
PROPERTY InitIsLeft
PROPERTY SettlesInTarget
PROPERTY StopLeavesRL
PROPERTY AutoEnterHappens
CHECK_DEADLOCK FALSE
