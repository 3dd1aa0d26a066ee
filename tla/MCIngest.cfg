SPECIFICATION FairSpec
CONSTANTS
    Sessions = {s1, s2}
    QueueCapacity = 2
    MaxBatchMessages = 3
    MaxBatchBytes = 3
    Sizes = {1, 2}
    MaxDeliveries = 3
    s1 = s1
    s2 = s2
INVARIANTS
    StoredBeforeOk
    StoredOnceInOrder
    RetryIsHonest
    DrainDropsNothing
    IInv
PROPERTIES
    ImplementsPromise
    AbandonedIsNotStored
    NobodyWaitsForEver
