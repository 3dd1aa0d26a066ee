\* Three deletions, one of them the reader's, against the three attempts of a read.
CONSTANTS
    Races = {}
    PageSize = 3
    MaxLiveRows = 3
    QueueCap = 3
    Attempts = 3
    Before = 3
    MaxIds = 3
    MaxDeletes = 1
    MaxOthers = 2
    MaxClears = 0
    MaxDrops = 1
    MaxFails = 0
SPECIFICATION Spec
INVARIANT
    DeletedStaysGone
CHECK_DEADLOCK FALSE
