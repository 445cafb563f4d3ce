SPECIFICATION Spec
CONSTANTS
    Clients = {c1}
    Size = 2
    Ctr = 2
    MaxValue = 1
    Limit <- NoLimit
    Schemas <- ObjSchemas
    Mutations <- NotifyMutations
    Resolves <- NoResolves
    PlcRows <- MCPlcRows
    PlcPushes <- ShortPushes
    Buffer = 1
    MaxCount = 1
    MaxPipe = 2
    PlcRefuses = FALSE
    AnswersLost = FALSE
    Disconnects = FALSE
INVARIANTS
    ViewCurrent
PROPERTIES
    ChangeIsTold
CHECK_DEADLOCK FALSE
