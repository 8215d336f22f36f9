SPECIFICATION Spec
CONSTANTS
    NumJoints = 2
    PolicyPeriod = 2
    MaxCycles = 10
    Delays <- AnyDelays
    Windows <- AnyWindows
INVARIANT ObservationIsDelayed
INVARIANT JointsInStep
CHECK_DEADLOCK FALSE
PROPERTY SessionSpec
