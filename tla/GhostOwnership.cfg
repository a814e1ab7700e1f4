SPECIFICATION FairSpec
CONSTANTS
    HandoffIds = {h1, h2}
    MaxTab = 2
    MaxGen = 1
    None = None
INVARIANTS
    TypeOK
    ControlIsExclusive
    NothingStaleIsUsed
PROPERTIES
    ImplementsOwnership
    PauseSettles
\* The child process ends when its session closes.
CHECK_DEADLOCK FALSE
