SPECIFICATION Spec
CHECK_DEADLOCK FALSE
CONSTANTS
    NULL = NULL
    Blank <- MCBlank
    Kinds <- MCKinds
    IdsOf <- MCIdsOf
    ValuesOf <- MCValuesOf
    SeedsOf <- MCSeedsOf
    PresentedAs <- MCPresentedAs
    NameRank <- MCNameRank
    MemberTable <- MCMemberTable
    Narrow <- MCNarrow
    LastTime = 2
    MaxChanges = 3
INVARIANT
    PopulationKept
