\* Initialization of a Lua state may fail: the queue.
SPECIFICATION FairSpec
CONSTANTS
    r1 = r1
    r2 = r2
    r3 = r3
    r4 = r4
    s1 = s1
    s2 = s2
    s3 = s3
    s4 = s4
    Requests = {r1, r2, r3}
    States = {s1, s2}
    NoState = NoState
    Threads = 1
    StatesMax = 2
    RequestsMax = 0
    StateRequestsMax = 2
    HasTimeMax = TRUE
    HasTimeout = TRUE
    MaxHops <- NoHops
    Failures = {"init"}
    WORD <- Word
PROPERTIES
    QueuedIsServed
