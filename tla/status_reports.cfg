SPECIFICATION FairReportSpec
CONSTANTS
    alice = alice
    task1 = task1
    NoTag = NoTag
    Unknown = Unknown
    NumConnectors = 1
    IdTag <- MCTags
    ReservationId <- MCIds
    ChargingProfile <- MCNone
    Task <- MCTasks
    FirstTransaction = 1
    MaxTransactions = 1
    courier1 = courier1
    Courier <- MCOneCourier
    Loop = Loop
INVARIANTS
    LatestTellsStatus
PROPERTIES
    
    PreparingIsLeft
    LapsedIsSwept
