SPECIFICATION Spec
CONSTANTS
    s1 = s1
    s2 = s2
    c1 = c1
    c2 = c2
    Conns = {c1, c2}
    Sessions = {s1, s2}
    Owner <- MCOwner
    Frames = {f1, f2}
    Requests = {r1, r2}
    MaxSheets = 1
    None = None
SYMMETRY Symmetric
INVARIANTS
    TypeOK
    WorkIsCounted
    DecisionIsObeyed
\* The bridge rests when no page asks.
CHECK_DEADLOCK FALSE
