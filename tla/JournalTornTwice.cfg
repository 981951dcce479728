SPECIFICATION HeaderSpec
CONSTANTS
    Positions = {17, 50, 83}
    First = 17
    Torn = torn
    Tearing = TRUE
    TearsUnderCheck = TRUE
    MaxStops = 2
INVARIANT CheckByteMeansFirstWritten
