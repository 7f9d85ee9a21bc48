\* Two requests through all four chunks, or through a cache of file states.
SPECIFICATION Spec
CONSTANTS
    r1 = r1
    r2 = r2
    i = i
    p = p
    m = m
    q = q
    None = None
    Requests = {r1, r2}
    Setups <- AnySetup
SYMMETRY RequestSymmetry
INVARIANTS
    NothingLeft
    ChunkOrder
PROPERTIES
    AnswerFits
    StatFresh
