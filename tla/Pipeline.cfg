SPECIFICATION Spec
CONSTANTS
    Files <- MCFiles
    PathOf <- MCPathOf
    NoFile = NoFile
    Rules = {"r1", "r2"}
    NoRule = NoRule
    Payloads <- MCPayloads
    Configs <- MCConfigs
    MaxFindings = 3
INVARIANTS
    TypeOK
    AutofixWithinBounds
    LLMWithinBounds
    PromotesOnlyVerified
    FindingsNeverOpenGate
CHECK_DEADLOCK FALSE
