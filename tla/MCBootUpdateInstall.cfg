SPECIFICATION Spec
CONSTANTS
  BootLimit = 3
  Packages = {"good"}
  Mounts = {"other"}
  EnvFails = FALSE
  RootParts = {"a"}
  MaxSaveFails = 0
  MaxResets = 4
  MaxJobs = 2
  MaxHarms = 0
INVARIANTS InstallReachesSlot
CHECK_DEADLOCK FALSE
