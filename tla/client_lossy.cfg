SPECIFICATION FairSpec
CONSTANTS
    Reads = {r1, r2}
    Writes = {}
    PlcReads = {}
    MaxPlcWrites = 4
    InvIds = {i1, i2}
    Buffer = 1
    MaxBatch = 2
    Collisions = TRUE
    Disconnects = TRUE
INVARIANTS
    TypeOK
    ForwardedInOrder
    WaitingIsHeld
    MismatchNeedsCollision
PROPERTIES
    ReadSettlesOrIsLost
CHECK_DEADLOCK FALSE
