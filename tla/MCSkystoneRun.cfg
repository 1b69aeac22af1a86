SPECIFICATION RunSpec
CONSTANTS
    \* on, just below and just above the thresholds
    Averages = {100, 320, 325, 330, 391, 400, 600, 1000, 1100}
    Delivers = TRUE
    MaxSeen = 2
CHECK_DEADLOCK FALSE
INVARIANTS
    StonesDelivered
    RunsClean
PROPERTY
    ImplementsAuto
