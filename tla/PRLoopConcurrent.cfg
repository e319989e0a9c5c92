SPECIFICATION Spec
CONSTANTS
    Handlers = {h1, h2}
    Failures = {f1, g1}
    Gated = {g1}
    NoFailure = NoFailure
    CIStatuses = {"pending", "failure"}
    ReviewStatuses = {"approved"}
    MaxAttempts = 1
    AllowPush = FALSE
    Serial = FALSE
    InOrder = FALSE
    MaxHead = 1
    MaxCrashes = 0
INVARIANTS
    GuardedRuns
SYMMETRY HandlerSymmetry
