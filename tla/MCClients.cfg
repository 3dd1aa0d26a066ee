\* One part at a time; every part stops once its bounds are used up.
CONSTANTS
    \* two messages on a page of two; two changes and two requests, or one and three
    Listed = {a, b}
    ListSize = 2
    MaxChanges = 2
    MaxRequests = 3
    MaxSteps = 4
    \* every overlap, a queue of one event, two messages and a clear by the user
    Overlaps = {"announce", "abandon", "two reads", "late answer", "overtake",
                "held over", "first", "upgrade", "fetch fails"}
    Writes = {}
    OwnWrites = {"clear"}
    Found = {1}
    BatchSize = 2
    Page = 1
    EventCap = 1
    DeltaCap = 2
    RingSize = 2
    MaxIds = 2
    MaxWrites = 1
    MaxBreaks = 0
    MaxFetches = 2
    MaxUser = 0
SPECIFICATION Spec
INVARIANTS
    TerminalListIsRight
    PanesAreRight
    MissedIsRepaid
    InboxIsRight
PROPERTY
    CursorStays
CHECK_DEADLOCK FALSE
