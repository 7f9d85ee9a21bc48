\* Two workers: memory limited or collected, a crash; or POST requests.
SPECIFICATION Spec
CONSTANTS
    w1 = w1
    w2 = w2
    b1 = b1
    b2 = b2
    None = None
    Workers = {w1, w2}
    Word = 8
    Blocks = {b1, b2}
    Tags = {2}
    Setups <- AnySetup
SYMMETRY MonitorSymmetry
INVARIANTS
    CountersAddUp
    MemoryAccounted
    HookCleared
PROPERTY SwitchHonest
CHECK_DEADLOCK FALSE
