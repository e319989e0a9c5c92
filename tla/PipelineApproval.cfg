SPECIFICATION SmoothSpec
CONSTANTS
    Files <- MCFiles
    PathOf <- MCPathOf
    NoFile = NoFile
    Rules = {"r1", "r2"}
    NoRule = NoRule
    Payloads <- RepairPayloads
    Configs <- PushingConfigs
    MaxFindings = 2
INVARIANTS
    ApprovalStopsMutation
CHECK_DEADLOCK FALSE
