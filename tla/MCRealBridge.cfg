SPECIFICATION FairSpec
CONSTANTS
    StateTimeout = 2
    ReconnectInterval = 2
    BufferPackets = 1
    DriverPackets = 2
    HangupReads = {"empty", "error"}
    MaxFaults = 2
INVARIANT TrustedOnThisConnection
PROPERTY GateSpec
PROPERTY DriveIsOwn
PROPERTY ReadEndsFresh
PROPERTY ReconnectIsPaced
PROPERTY LinkRecoversUnlessHungUp
