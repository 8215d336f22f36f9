SPECIFICATION FairSpec
CONSTANTS
    AxisMax = 2
    StickDeadzone = 2
    LinearSign <- Reversed
    YawSign <- Reversed
    MaxLinear = 1
    MaxYaw = 1
    TriggerMax = 1
    TriggerDeadzone = 0
    UpRate = 1
    DownRate = 1
    MinHeight = 0
    MaxHeight = 3
    DefaultHeight = 1
    MaxStep = 1
    Steps <- Times
    StickRaws <- Sticks
    TriggerRaws <- Triggers
    Nothing = Nothing
INVARIANT StaleMotionIsOvertaken
PROPERTY HeightNeverJumps
PROPERTY UnplugStops
CHECK_DEADLOCK FALSE
