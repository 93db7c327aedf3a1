SPECIFICATION FairSpec
CHECK_DEADLOCK FALSE
CONSTANTS
    ErrorText <- MCAllTexts
INVARIANTS
    SuccessIsHonest
    RejectionIsRendered
    TransactionIsConfirmed
    ConnectionIsReleased
    CallErrorIsTold
PROPERTIES
    EndIsReached
