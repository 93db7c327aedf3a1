SPECIFICATION Spec
CONSTANTS
    alice = alice
    bob = bob
    task1 = task1
    task2 = task2
    NoTag = NoTag
    NumConnectors = 1
    IdTag <- MCOneTag
    ReservationId <- MCOneId
    ChargingProfile <- MCNone
    Task <- MCTwoTasks
    FirstTransaction = 1
    MaxTransactions = 2
PROPERTIES
    ChargingFollowsPreparing
