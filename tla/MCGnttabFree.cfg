CONSTANTS
    p1 = p1
    p2 = p2
    t1 = t1
    t2 = t2
    t3 = t3
    sys = sys
    r1 = r1
    c1 = c1
    c2 = c2
    NoCtx = NoCtx
    Procs = {p1, p2}
    System = sys
    Threads = {t1, t2, t3}
    Owner <- MCOwner
    RequestIds = {r1}
    Ctx = {c1, c2}
    MaxPages = 2
    AssertEvaluates = FALSE

SYMMETRY MCSymmetry

SPECIFICATION Spec

INVARIANT
    NoLeak
