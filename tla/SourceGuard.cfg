SPECIFICATION SourceSpec
CHECK_DEADLOCK FALSE
CONSTANTS
    NULL = NULL
    Digits = {"1"}
    Blank <- MCBlank
    Kinds <- MCKinds
    IdsOf <- MCIdsOf
    ValuesOf <- MCValuesOf
    SeedsOf <- MCSeedsOf
    PresentedAs <- MCPresentedAs
    NameRank <- MCNameRank
    MemberTable <- MCMemberTable
    Narrow <- MCNarrow
    RenderAs <- MCRenderAs
    Configs <- MCConfigs
    Corruptible = {"site"}
    LastTime = 2
    MaxChanges = 2
INVARIANT IdentityIsKey
