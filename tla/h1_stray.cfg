SPECIFICATION Spec
CONSTANTS
    Requests = {r1, r2}
    r1 = r1
    r2 = r2
    Conns = {c1, c2}
    c1 = c1
    c2 = c2
    Permits = {p1, p2}
    p1 = p1
    p2 = p2
    None = None
    Framings = {"length"}
    Faults = {}
    Redirects = FALSE
    WireBound = 2
SYMMETRY Symmetry
INVARIANT RightResponse
