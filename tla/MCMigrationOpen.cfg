SPECIFICATION Spec
CONSTANTS
    Procs = {p1, p2}
    Nobody = Nobody
    Seed = {1}
    MaxMail = 2
    MaxBatch = 1
    MaxKept = 1
    MaxPending = 2
    StartRaces = TRUE
    OlderRaces = FALSE
    p1 = p1
    p2 = p2
PROPERTY
    RestoreRefusesOpenFile
