SPECIFICATION Spec
CONSTANTS
  Filesystems <- MCFilesystems
  Specials <- MCSpecials
  Configs <- MCConfigs
  FsckCodes = {0, 1, 2, 3, 4, 5, 6, 8, 12, 130}
  Signal = 130
  MaxPid = 4
  MaxFaults = 1
INVARIANTS StepsInOrder InitReady ProcessesSorted
PROPERTIES BootEnds
CHECK_DEADLOCK FALSE
