SPECIFICATION Spec
CONSTANTS
    Edits = {e1, e2, x}
    ProposalEdits = {e1, e2}
    AllowPush = TRUE
    MaxRetries = 1
    MaxRuns = 2
    MaxRemote = 2
INVARIANTS
    TypeOK
    CommitsOnlyLastAttempt
PROPERTIES
    EndsInTime
    LaneContract
    RollbackRestores
CHECK_DEADLOCK FALSE
