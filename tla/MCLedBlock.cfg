SPECIFICATION FairSpec
CONSTANTS
  Short <- Commands
  Long <- TooLong
  Cap = 3
  MaxSent = 3
  Counts = {0, 1}
  CreateFails = TRUE
  MaxThreads = 2
CHECK_DEADLOCK FALSE
INVARIANTS CommandsInOrder ExitsDark OneLateWrite
PROPERTIES BlinkEnds EveryCommandHandled
