SPECIFICATION FairSpec
CONSTANTS
  NFrames = 2
  XrunLimit = 1
  SentinelRetries = 2
  ReadResults = {"ok", "xrun", "fail"}
  WriteResults = {"ok", "xrun", "fail"}
  CodecFails = TRUE
  SpawnFails = TRUE
  MaxPeriods = 3
  MaxSessions = 2
CHECK_DEADLOCK FALSE
INVARIANTS EachPeriodInOnePlace StopLeaksNoFrame StopLeavesAtMostOne DeathIsFlagged
PROPERTIES StopReturns CommittedIsTaken
