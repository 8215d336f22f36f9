SPECIFICATION FairSpec
CONSTANTS
    LinearStep = 1
    YawStep = 1
    HeightStep = 1
    LinearRate = 1
    YawRate = 1
    MaxLinear = 2
    MaxYaw = 1
    MinHeight = 0
    MaxHeight = 1
    DefaultHeight = 0
    KeyTimeout = 1
    LongestStep = 4
    StateKeys = {3}
    Nothing = Nothing
PROPERTY SpaceStops
PROPERTY ReleaseStops
