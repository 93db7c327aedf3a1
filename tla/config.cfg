SPECIFICATION ConfigSpec
INVARIANTS
    PresentedIsMostSpecific
    CAFlagDecides
CHECK_DEADLOCK FALSE
