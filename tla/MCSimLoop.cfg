SPECIFICATION Spec
CONSTANTS
    StepTime = 2
    ControlPeriod = 4
    FrameSteps = 2
    RunDuration = 22
    MaxDelay = 2
INVARIANT EffortsOfThisRun
INVARIANT CyclesOnTime
INVARIANT MissesShortRunsOnly
INVARIANT RequestsAreServed
CHECK_DEADLOCK FALSE
