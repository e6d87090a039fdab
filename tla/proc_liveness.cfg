SPECIFICATION FairSpec
CONSTANTS
  NR_TASKS = 4
  NUM_SEM = 0
  DEFAULT_QUANTUM = 2
  SemValues <- MCNone
  SemIds <- MCNone
  ForkResults <- MCAnyFork
  MaxPID = 1002
  MaxTID = 1001
  MaxCount = 1
PROPERTIES
  ReadyEventuallyRuns
CHECK_DEADLOCK FALSE
