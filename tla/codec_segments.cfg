SPECIFICATION WireSpec
CONSTANTS
    MaxFrames = 3
    Off <- MCOff
    Known = {1, 3}
    Lengths = {0, 60}
    Base = 16
    Frames <- MCFrames
    Requests <- MCRequests
    MaxRequests = 1
    Misread <- MCMisread
    Target <- Plc
    Source <- Us
INVARIANTS
    TypeOK
    WholeInOrder
    LockstepLosesNothing
    PacketsAsSent
    PlcFindsPackets
    RequestsAnswered
PROPERTIES
    StreamSpec
    LoneFrameArrives
CHECK_DEADLOCK FALSE
