SPECIFICATION Spec
CONSTANTS
    Agents = {a1}
    Viewers = {v1}
    Origins = {"site", "denied", "other"}
    Allowed = {"site", "denied"}
    Denied = {"denied"}
    Cards = {c1, c2}
    Calls = {j1, j2}
    MaxDoc = 2
    MaxUses = 1
    None = None
SYMMETRY Symmetric
INVARIANTS
    TypeOK
    CardsResolveOnce
    FillsWhereValidated
\* The broker rests when nobody calls.
CHECK_DEADLOCK FALSE
