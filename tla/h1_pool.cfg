SPECIFICATION Spec
CONSTANTS
    Requests = {r1, r2}
    r1 = r1
    r2 = r2
    Conns = {c1, c2, c3}
    c1 = c1
    c2 = c2
    c3 = c3
    Permits = {p1, p2}
    p1 = p1
    p2 = p2
    None = None
    Framings = {"empty", "length", "chunk", "invalid", "until_close"}
    Faults = {}
    Redirects = TRUE
    WireBound = 3
SYMMETRY Symmetry
INVARIANT TypeOK
INVARIANT PermitsConserved
INVARIANT IdleIsClean
PROPERTY LeaseSpec
PROPERTY StrayOnlyIfShut
