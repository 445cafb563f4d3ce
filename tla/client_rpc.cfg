SPECIFICATION Spec
CONSTANTS
    Reads = {r1, r2}
    Writes = {w1}
    PlcReads = {p1}
    MaxPlcWrites = 1
    InvIds = {i1, i2}
    Buffer = 1
    MaxBatch = 2
    Collisions = FALSE
    Disconnects = TRUE
INVARIANTS
    ResponseHasRequest
    PlcSeesIssueOrder
PROPERTIES
    RpcSpec
    PipeSpec
CHECK_DEADLOCK FALSE
