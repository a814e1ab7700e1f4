SPECIFICATION FairSpec
CONSTANTS
    Sessions = {s1, s2}
    Conns = {c1, c2}
    Tasks = {t1, t2}
    Openers <- Callers
    MaxSessions = 2
    MaxConns = 1
    Verbs = {"run", "read", "create", "close", "detach", "attach", "ping"}
    None = None
INVARIANTS
    TypeOK
    NoFallback
    RegistryMatchesSessions
PROPERTIES
    EndedConnectionsClose
\* The server rests when the clients send nothing more.
CHECK_DEADLOCK FALSE
