SPECIFICATION MeterSpec
CONSTANTS
    alice = alice
    task1 = task1
    task2 = task2
    NoTag = NoTag
    NumConnectors = 2
    IdTag <- MCTags
    ReservationId <- MCNone
    ChargingProfile <- MCNone
    Task <- MCTasks
    FirstTransaction = 1
    MaxTransactions = 1
    MeterStart = 0
    MeterStep = 1
    MaxMeter = 1
SYMMETRY TaskSymmetry
INVARIANTS
    StopsFollowStart
    SamplesBelongToTransaction
