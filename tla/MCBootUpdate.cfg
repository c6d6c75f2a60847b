SPECIFICATION FairSpec
CONSTANTS
  BootLimit = 3
  Packages = {"good", "bad", "noBoot"}
  Mounts = {"running", "other"}
  EnvFails = TRUE
  RootParts = {"a"}
  MaxSaveFails = 1
  MaxResets = 3
  MaxJobs = 2
  MaxHarms = 2
INVARIANTS EnvNamesRunningSlot OneHarmLeavesASlot
PROPERTIES TriedBeforeAbandoned ComesUp
CHECK_DEADLOCK FALSE
