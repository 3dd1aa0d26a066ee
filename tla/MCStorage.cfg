\* One part at a time: two processes and an older rustmail over the files, or a
\* server over the tables.
SPECIFICATION StorageSpec
CONSTANTS
    Procs = {p1, p2}
    Nobody = Nobody
    Seed = {1, 2}
    MaxMail = 3
    MaxBatch = 1
    MaxKept = 1
    MaxPending = 2
    StartRaces = FALSE
    OlderRaces = FALSE
    p1 = p1
    p2 = p2
    \* the tables: batches of two, two messages kept by retention
    Words = {"red", "blue"}
    Cids = {c1}
    Tags = {t1}
    MaxTagCount = 1
    MaxInserts = 2
    MaxMessages = 2
    Retention = 1
    WriteAttempts = 2
    Queries = {"no query", "red"}
    PageLimit = 1
    MaxIds = 4
    MaxClock = 2
SYMMETRY Symmetry
INVARIANTS
    RunsAreAlone
    NoMailLost
    BackupIsOriginal
    AlwaysAWayForward
    TablesAgree
    WalkIsExact
PROPERTIES
    CopyIsWhole
    TrimKeepsNewest
