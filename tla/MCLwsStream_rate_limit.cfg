\* A rate limit and nothing that fails.
SPECIFICATION FairSpec
CONSTANTS
    MaxPieces = 3
    MaxHeaders = 0
    PipeSize = 3
    PageSize = 1
    ReadsMax <- FewReads
    RateLimits = {TRUE}
    Failures = {}
PROPERTIES
    CompletionComes
CHECK_DEADLOCK FALSE
