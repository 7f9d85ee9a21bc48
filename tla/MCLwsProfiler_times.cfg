\* Lua errors and failing allocations; two runs.
SPECIFICATION Spec
CONSTANTS
    main = main
    callee = callee
    Pcall = pcall
    Stopper = stopper
    Functions <- LuaFunctions
    None = None
    NanoMax = 2
    Errors = TRUE
    Failures = {"memory"}
    MaxDepth = 3
    MaxCalls = 3
    MaxTime = 4
    MaxRuns = 2
SYMMETRY LuaSymmetry
INVARIANTS
    DepthsMatch
    TimesTrue
    MonitorAddsUp
CHECK_DEADLOCK FALSE
