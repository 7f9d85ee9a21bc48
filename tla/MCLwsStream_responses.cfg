\* Any failure, with and without a rate limit, a pipe smaller than the body.
SPECIFICATION FairSpec
CONSTANTS
    MaxPieces = 5
    MaxHeaders = 1
    PipeSize = 3
    PageSize = 2
    ReadsMax <- FewReads
    RateLimits = {TRUE, FALSE}
    Failures <- AnyFailure
INVARIANTS
    FinalizedOnce
    SingleMode
    HeaderFrozen
    StreamInOrder
    CompleteIsAll
    NoLostEvent
    EndFollowsHeader
PROPERTIES
    WriterIsReleased
    UnlimitedCompletes
CHECK_DEADLOCK FALSE
