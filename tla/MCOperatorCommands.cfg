SPECIFICATION FairSpec
CONSTANTS
    Timeout = 2
    LinearMin <- BackwardLimit
    LinearMax = 2
    YawMin = 0
    YawMax = 2
    HeightMin = 2
    HeightMax = 5
    DefaultHeight = 2
    Linears <- TopicLinears
    Yaws <- TopicYaws
    Heights <- TopicHeights
    Dt7Linears <- ReceiverLinears
    Dt7Heights <- ReceiverHeights
    NonFinite = NonFinite
INVARIANT WithinLimits
INVARIANT Dt7IsExclusive
PROPERTY MotionFollowsOperator
PROPERTY HeightFollowsOperator
PROPERTY HeightHeldWhileActive
PROPERTY NodeSpec
PROPERTY MotionStops
