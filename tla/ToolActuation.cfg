SPECIFICATION Spec
CONSTANTS
    Files <- MCFiles
    PathOf <- MCPathOf
    NoFile = NoFile
    Rules = {}
    NoRule = NoRule
    PageSize = 2
    Conversations <- MCConversations
    Configs <- MCConfigs
    Matrices <- MCMatrices
    MaxRuns = 2
    Enabled = {"copilot", "coderabbit", "gitguardian"}
INVARIANTS
    ResolvedIsRepaired
    AnsweredOnce
    StrategiesMostSpecific
PROPERTIES
    ResolvesHonestly
CHECK_DEADLOCK FALSE
