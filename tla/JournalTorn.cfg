SPECIFICATION HeaderSpec
CONSTANTS
    Positions = {17, 50, 83}
    First = 17
    Torn = torn
    Tearing = TRUE
    TearsUnderCheck = FALSE
    MaxStops = 3
INVARIANT HeaderTypeOK
PROPERTY UpdateIsAtomic
