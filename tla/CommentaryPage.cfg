SPECIFICATION Spec
CONSTANTS
    Runs = {r1, r2}
    NoRun = NoRun
    PageSize = 2
    MaxComments = 4
INVARIANTS
    OneComment
CHECK_DEADLOCK FALSE
