SPECIFICATION PathSpec
CONSTANTS
  s1 = s1
  s2 = s2
  dev = dev
  Systems = {s1, s2}
  Specialisations = {dev}
  Modules <- MCModules
  NoFile = NoFile
  Nothing = Nothing
  MaxGen = 2
  MaxFails = 1
  Configs <- MCConfigs
  Attempts = 1
  MaxFaults = 1
  MaxCuts = 2
INVARIANTS LauncherWhole MenuRight HandOverReady FailsForAReason
PROPERTIES BootEnds
CHECK_DEADLOCK FALSE
