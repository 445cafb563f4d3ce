SPECIFICATION Spec
CONSTANTS
    Reads = {r1}
    Writes = {}
    PlcReads = {}
    MaxPlcWrites = 1
    InvIds = {i1}
    Buffer = 1
    MaxBatch = 1
    Collisions = FALSE
    Disconnects = TRUE
INVARIANTS
    NoCanceledReply
CHECK_DEADLOCK FALSE
