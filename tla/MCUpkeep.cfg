\* One part at a time; the reclaim takes steps of two pages on a file of three,
\* for a delete-all and a sweep at once.
SPECIFICATION UpkeepSpec
CONSTANTS
    StepPages = 2
    MinFree = 1
    MinPercent = 25
    MaxPages = 3
    Clears = {"clear"}
INVARIANT
    StepsBounded
PROPERTIES
    RunEnds
    SweepsSettle
