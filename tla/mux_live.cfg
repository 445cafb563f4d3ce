SPECIFICATION FairSpec
CONSTANTS
    Clients = {c1}
    Size = 3
    Ctr = 2
    MaxValue = 2
    Limit <- MCLimit
    Schemas <- NoSchemas
    Mutations <- NoMutations
    Resolves <- BothResolves
    PlcRows <- MCPlcRows
    PlcPushes <- NoPushes
    Buffer = 1
    MaxCount = 1
    MaxPipe = 2
    PlcRefuses = TRUE
    AnswersLost = TRUE
    Disconnects = TRUE
PROPERTIES
    ResolveSettles
CHECK_DEADLOCK FALSE
