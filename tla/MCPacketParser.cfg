SPECIFICATION Spec
CONSTANTS
    Header1 = Header1
    Header2 = Header2
    End = End
    Bad = Bad
    PacketSize = 5
    BufferSize = 7
    StreamLength = 8
INVARIANT IntactPacketsAccepted
INVARIANT BufferIsRemainder
