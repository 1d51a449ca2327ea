CONSTANTS
    t1 = t1
    t2 = t2
    f1 = f1
    f2 = f2
    c1 = c1
    c2 = c2
    w1 = w1
    w2 = w2
    p1 = p1
    p2 = p2
    q1 = q1
    q2 = q2
    None = None
    Threads = {t1}
    FOs = {f1}
    Chans = {c1, c2}
    Watches = {}
    Cpus = {p1}
    Ports = {q1, q2}

SPECIFICATION Spec

\* Once every handle is closed and every context freed the driver has
\* nothing left to do.
CHECK_DEADLOCK FALSE

PROPERTIES
    EventNotLost
