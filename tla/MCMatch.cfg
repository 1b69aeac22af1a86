SPECIFICATION MatchSpec
CONSTANTS
  StickEnd = 2
  TargetY = 4
  TargetA = 0
  TargetX = 5
  TargetB = 8
  SlowLow = 1
  SlowHigh = 7
  MaxPressed = 2
  MaxTravel = 1
  Second = 2
  Pause = 1
  ParkAt = 4
  Period = 6
  MaxNow = 14
INVARIANTS AutonomousOnTime DrivesAsAsked
PROPERTY ArmSettles
CHECK_DEADLOCK FALSE
