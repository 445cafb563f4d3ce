SPECIFICATION FairSpec
CONSTANTS
    s1 = s1
    Base = 256
    Sessions = {s1, s2}
    WorkerOf <- MCWorkerOf
    Octets <- MCOctets
    Plcs <- MCPlcs
    Visits <- MCVisits
    MaxTexts = 3
    Capacity = 1
    Disconnects <- MCDisconnects
    PlcRefuses = TRUE
INVARIANTS
    TypeOK
    Routed
    ReadYourWrites
    RegistryExact
    ShownIsCurrent
    DeathHasReason
PROPERTIES
    ResolveEnds
CHECK_DEADLOCK FALSE
