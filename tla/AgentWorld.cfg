SPECIFICATION FairSpec
CONSTANTS
    MaxSteps = 2
    GrantUses = 1
    MaxCmds = 2
    MaxDialogs = 2
INVARIANTS
    TypeOK
PROPERTIES
    ActsAreTrue
    TaskEnds
\* A process that has ended rests.
CHECK_DEADLOCK FALSE
