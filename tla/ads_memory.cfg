SPECIFICATION Spec
CONSTANTS
    Base = 4
    Lead = {2}
    Continuation = {3}
    F32 = 16
    F64 = 1024
    LexicalOrder <- MCLexicalOrder
    SymbolNames <- MCSymbolNames
    Tpys <- MCTpys
    Orders <- MCOrders
    PlcData <- MCPlcData
    Mutations <- MCMutations
    Asked <- MCAsked
    CtrAt = 0
    CtrWidth = 1
    MaxCount = 2
INVARIANTS
    TypeOK
    RewriteIsFaithful
    UnreadableOnlyByMutation
    ResolveAnswers
    MutationEndsIfUnfit
PROPERTIES
    StartsWhenComplete
    NoticesTell
    OnlyNamedAreSet
CHECK_DEADLOCK FALSE
