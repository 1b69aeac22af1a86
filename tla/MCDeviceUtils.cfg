CONSTANTS
  Retries = 1
  MaxCalls = 2
  MaxSessions = 2
  Prop = {"p", "l"}
  Val = {"v", "w"}
  Late = {"l"}
  Scripts = {{"GetProp", "GetPropCached", "SetProp", "NeedsSU", "EnableRoot", "Reboot"},
             {"Install", "Uninstall", "DumpCacheData", "LoadCacheData"},
             {"PushChangedFiles", "WriteFile", "RemovePath", "DumpCacheData", "LoadCacheData"}}
  Lone = {1}
  Paired = {1, 2}
  SplitVer = 1
  File = {"f"}
  Ver = {1, 2}
  None = 0
  UseFilesCache = TRUE
SPECIFICATION Spec
INVARIANTS
  CachesAreRight
  CallsDoAsAsked
CHECK_DEADLOCK FALSE
