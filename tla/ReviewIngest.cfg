SPECIFICATION Spec
CONSTANTS
    Files <- MCFiles
    PathOf <- MCPathOf
    NoFile = NoFile
    Rules = {}
    NoRule = NoRule
    PageSize = 2
    Reviews <- MCReviews
    Enabled = {"copilot"}
    MaxReviews = 3
    MaxPushes = 1
INVARIANTS
    TypeOK
    BotReadsOwnPayload
    SkipsOnlyAbsentSources
    LastReviewIsRead
    LinesFitUnlessPushed
CHECK_DEADLOCK FALSE
