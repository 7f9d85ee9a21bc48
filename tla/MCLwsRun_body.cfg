\* A request that a pre or main chunk redirects internally, and its body.
SPECIFICATION Spec
CONSTANTS
    r1 = r1
    r2 = r2
    i = i
    p = p
    m = m
    q = q
    None = None
    Requests = {r1, r2}
    Setups <- RedirectSetups
INVARIANT BodyIsWhole
