\* Lua errors only: total times after one was caught.
SPECIFICATION Spec
CONSTANTS
    main = main
    callee = callee
    Pcall = pcall
    Stopper = stopper
    Functions <- LuaFunctions
    None = None
    NanoMax = 2
    Errors = TRUE
    Failures = {}
    MaxDepth = 3
    MaxCalls = 3
    MaxTime = 4
    MaxRuns = 2
SYMMETRY LuaSymmetry
INVARIANT
    TotalIsTime
CHECK_DEADLOCK FALSE
