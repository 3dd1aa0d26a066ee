SPECIFICATION Spec
CONSTANTS
    Procs = {p1}
    Nobody = Nobody
    Seed = {1}
    MaxMail = 2
    MaxBatch = 1
    MaxKept = 1
    MaxPending = 2
    StartRaces = FALSE
    OlderRaces = TRUE
    p1 = p1
PROPERTY
    CopyIsWhole
