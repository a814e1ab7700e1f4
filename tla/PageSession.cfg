SPECIFICATION SessionSpec
CONSTANTS
    Urls = {a, b, data}
    Local = {data}
    MaxDocs = 3
    MaxWrites = 1
    MaxAsks = 1
    MaxTimers = 1
    None = None
SYMMETRY Symmetric
INVARIANTS
    SessionTypeOK
    AgreesOnThePage
    JournalIsOfTheLiveDocument
    StorageIsKept
\* The session rests when no command comes.
CHECK_DEADLOCK FALSE
