SPECIFICATION Spec
CONSTANTS
    Clients = {c1}
    Size = 3
    Ctr = 2
    MaxValue = 2
    Limit <- MCLimit
    Schemas <- NoSchemas
    Mutations <- MirrorMutations
    Resolves <- PairResolve
    PlcRows <- MCPlcRows
    PlcPushes <- NoPushes
    Buffer = 1
    MaxCount = 1
    MaxPipe = 2
    PlcRefuses = TRUE
    AnswersLost = FALSE
    Disconnects = FALSE
INVARIANTS
    TypeOK
    JsonMatchesBytes
    MirrorCurrent
PROPERTIES
    MutationKeepsOthers
CHECK_DEADLOCK FALSE
