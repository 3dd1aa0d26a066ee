SPECIFICATION StalledStoreSpec
CONSTANTS
    Sessions = {s1, s2}
    QueueCapacity = 1
    MaxBatchMessages = 1
    MaxBatchBytes = 1
    Sizes = {1}
    MaxDeliveries = 3
    s1 = s1
    s2 = s2
PROPERTY
    SessionNeverHangs
