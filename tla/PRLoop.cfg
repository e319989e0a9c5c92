SPECIFICATION PSpec
CONSTANTS
    Handlers = {h1}
    Failures = {f1, f2, g1}
    Gated = {g1}
    NoFailure = NoFailure
    CIStatuses = {"pending", "success", "failure"}
    ReviewStatuses = {"approved"}
    MaxAttempts = 2
    AllowPush = TRUE
    Serial = TRUE
    InOrder = TRUE
    MaxHead = 2
    MaxCrashes = 1
INVARIANTS
    TypeOK
    SettlesInTime
    AttemptsAccountForRuns
PROPERTIES
    BudgetPromise
    NoFutileRetry
    RecordOnlyAdvances
