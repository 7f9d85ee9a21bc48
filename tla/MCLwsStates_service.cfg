\* Four requests, one of them redirected at most once; one state, a queue of two; fair.
SPECIFICATION FairSpec
CONSTANTS
    r1 = r1
    r2 = r2
    r3 = r3
    r4 = r4
    s1 = s1
    s2 = s2
    s3 = s3
    s4 = s4
    Requests = {r1, r2, r3, r4}
    States = {s1, s2}
    NoState = NoState
    Threads = 1
    StatesMax = 1
    RequestsMax = 2
    StateRequestsMax = 2
    HasTimeMax = TRUE
    HasTimeout = TRUE
    MaxHops <- OneHopOfOne
    Failures <- NoInitFailure
    WORD <- Word
INVARIANTS
    StatesCounted
    NoLostWakeup
    QueueHasWaker
PROPERTIES
    ImplementsService
    QueuedIsServed
    ActiveIsAnswered
