SPECIFICATION FairSpec
CONSTANTS
    worker1 = worker1
    worker2 = worker2
    Kind <- MCKinds
    RequestId <- MCIds
    Worker <- MCWorkers
    MaxRequests = 3
    MaxTriggers = 1
    Repeats = FALSE
INVARIANTS
    NewestIsActive
    StatusFollowsJob
PROPERTIES
    CancellationIsAnnounced
    JobsAreSeenThrough
CHECK_DEADLOCK FALSE
