CONSTANTS
  Retries = 1
  MaxCalls = 4
  Scripts <- AllScripts
  HasHardware = TRUE
  SeesCable = TRUE
  Cpu = {c1, c2}
  MpDecision = TRUE
  Flag = {f1, f2}
  Full = 4
  Target = 3
  Floor = 1
  MaxChargeError = 2
  MaxTries = 3
  Day = 4
  Temps = {1, 2, 3}
  MaxEdits = 1
  MaxSends = 3
  ShellMax = 1
  Key = {"k"}
  Val = {1, 2}
  SystemMax = 2
  MaxPids = 3
  MaxKeys = 2
  MaxFrames = 4
  Frames = 2
  Pkg = {"app", "lib"}
  Uids = {1, 2}
  MaxStarts = 2
  Many = 2
  MaxGroups = 4
SPECIFICATION Spec
INVARIANTS
  SettingsAreKept
  ShellIsClean
  CommitSticks
  ReplacementIsUndone
  FlashIsSafe
  ProviderIsGivenBack
  RecordsAreTrue
  AppIsAsAsked
  AllTogether
CHECK_DEADLOCK FALSE
