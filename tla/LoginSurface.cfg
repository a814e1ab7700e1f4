SPECIFICATION Spec
CONSTANTS
    Logins = {l1, l2}
    Contexts = {x1, x2}
    Calls = {j1, j2}
    None = None
SYMMETRY Symmetric
INVARIANTS
    TypeOK
    LockoutHolds
    OpenWindowCompletes
    GateAndTokensHold
\* The surface rests when nobody calls.
CHECK_DEADLOCK FALSE
