SPECIFICATION Spec
CONSTANTS
  NFrames = 4
  XrunLimit = 10
  SentinelRetries = 2
  ReadResults = {"ok"}
  WriteResults = {"ok"}
  CodecFails = FALSE
  SpawnFails = FALSE
  MaxPeriods = 12
  MaxSessions = 1
CHECK_DEADLOCK FALSE
INVARIANTS PassthroughLatency
