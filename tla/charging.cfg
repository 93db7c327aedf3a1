SPECIFICATION ChargingSpec
CONSTANTS
    alice = alice
    task1 = task1
    task2 = task2
    NoTag = NoTag
    NumConnectors = 1
    IdTag <- MCTags
    ReservationId <- MCNone
    ChargingProfile <- MCProfiles
    Task <- MCTasks
    FirstTransaction = 1
    MaxTransactions = 2
    LastMoment = 2
INVARIANTS
    CompositeIsHighest
    
