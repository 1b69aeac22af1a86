SPECIFICATION Spec
CONSTANTS
    Commands <- MCCommands
    SideBias <- MCSideBias
    MinSpeed = 1
    Accel = 1
    MaxDt = 2
    SettleTicks = 1
    MaxTravel = 2
    Skew = 1
    MaxCalls = 2
    Delivers = FALSE
CHECK_DEADLOCK FALSE
INVARIANTS
    TypeOK
    NoStaleTargetDrive
    CrawlPastDistance
    WheelsAgree
    ArrivedOrStopped
PROPERTIES
    OverspeedCorrected
    KeepsContract
