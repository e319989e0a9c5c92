SPECIFICATION Spec
CONSTANTS
    Edits = {e1, e2, x}
    PlanEdits = {e1, e2}
    AllowPush = TRUE
    MaxRuns = 2
    MaxRemote = 3
INVARIANTS
    TypeOK
    CommitsOnlyThePlan
PROPERTIES
    EndsInTime
    LaneContract
    NothingLeftBehind
CHECK_DEADLOCK FALSE
