SPECIFICATION FairSpec
CONSTANTS
    Handlers = {h1}
    Failures = {f1, g1}
    Gated = {g1}
    NoFailure = NoFailure
    CIStatuses = {"pending", "success", "failure"}
    ReviewStatuses = {"approved", "changes_requested"}
    MaxAttempts = 2
    AllowPush = TRUE
    Serial = TRUE
    InOrder = TRUE
    MaxHead = 2
    MaxCrashes = 1
PROPERTIES
    Settles
