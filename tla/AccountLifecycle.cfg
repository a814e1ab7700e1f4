SPECIFICATION FairSpec
CONSTANTS
    Calls = {1, 2, 3}
    Procs = {"serve", "cli"}
    Home <- TwoProcesses
    Verbs = {"begin", "complete", "abort", "import", "verify", "logout", "update", "agent"}
    MaxCrashes = 1
    None = None
INVARIANTS
    TypeOK
    DiskIsConsistent
PROPERTIES
    ImplementsAccount
    NothingIsWedged
\* The system rests when every call has been made.
CHECK_DEADLOCK FALSE
