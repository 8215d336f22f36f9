SPECIFICATION FairSpec
CONSTANTS
    StateTimeout = 2
    ReconnectInterval = 2
    BufferPackets = 1
    DriverPackets = 2
    HangupReads = {"empty"}
    MaxFaults = 0
PROPERTY LinkRecovers
