SPECIFICATION Spec
CONSTANTS
    Procs = {p1, p2}
    Grants = {1, 2}
    Actions = {"login", "mfa"}
    Covers <- MCCovers
    MaxUses = 2
    MaxAsks = 3
    MaxFaults = 1
    None = None
SYMMETRY Symmetric
INVARIANTS
    TypeOK
    CountsAreTrue
PROPERTIES
    ImplementsLedger
\* The callers stop when the bounds are used up.
CHECK_DEADLOCK FALSE
