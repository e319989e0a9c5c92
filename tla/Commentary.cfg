SPECIFICATION Spec
CONSTANTS
    Runs = {r1, r2, r3}
    NoRun = NoRun
    PageSize = 4
    MaxComments = 5
INVARIANTS
    Converges
PROPERTIES
    OthersUntouched
    OldestSurvives
CHECK_DEADLOCK FALSE
