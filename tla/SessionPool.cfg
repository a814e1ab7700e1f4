SPECIFICATION PoolSpec
CONSTANTS
    Sessions = {s1, s2, s3, s4}
    Openers = {o1, o2}
    MaxSessions = 2
SYMMETRY Symmetric
INVARIANTS
    PoolTypeOK
    BoundedOvershoot
    BooksAreExact
\* A closed browser whose sessions are all used up rests.
CHECK_DEADLOCK FALSE
