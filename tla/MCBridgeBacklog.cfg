SPECIFICATION Spec
CONSTANTS
    StateTimeout = 2
    ReconnectInterval = 2
    BufferPackets = 1
    DriverPackets = 2
    HangupReads = {"empty", "error"}
    MaxFaults = 0
PROPERTY ReadTrustsRecentState
