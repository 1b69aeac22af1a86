SPECIFICATION StopSpec
CONSTANTS
    Commands <- MCShortCommands
    SideBias <- MCSideBias
    MinSpeed = 1
    Accel = 1
    MaxDt = 1
    SettleTicks = 1
    MaxTravel = 2
    Skew = 1
    MaxCalls = 2
    Delivers = TRUE
CHECK_DEADLOCK FALSE
PROPERTIES
    StopEndsDriving
    MoveEnds
