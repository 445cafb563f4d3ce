SPECIFICATION Spec
CONSTANTS
    Clients = {c1}
    Size = 3
    Ctr = 2
    MaxValue = 2
    Limit <- MCLimit
    Schemas <- ThreeSchemas
    Mutations <- NoMutations
    Resolves <- NoResolves
    PlcRows <- MCPlcRows
    PlcPushes <- NoPushes
    Buffer = 1
    MaxCount = 1
    MaxPipe = 2
    PlcRefuses = FALSE
    AnswersLost = FALSE
    Disconnects = FALSE
INVARIANTS
    SchemasMerge
CHECK_DEADLOCK FALSE
