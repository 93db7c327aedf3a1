SPECIFICATION Spec
CONSTANTS
    alice = alice
    bob = bob
    task1 = task1
    task2 = task2
    NoTag = NoTag
    NumConnectors = 2
    IdTag <- MCTags
    ReservationId <- MCTwoIds
    ChargingProfile <- MCNone
    Task <- MCOneTask
    FirstTransaction = 1
    MaxTransactions = 1
SYMMETRY TagSymmetry
INVARIANTS
    TypeOK
    AccessIsExact
    OneReservationPerConnector
    InoperativeHoldsNoReservation
    AvailableIsUnpromised
PROPERTIES
    StartHonoursReservations
