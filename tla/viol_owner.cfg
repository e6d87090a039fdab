SPECIFICATION Spec
CONSTANTS
  NR_TASKS = 4
  NUM_SEM = 2
  DEFAULT_QUANTUM = 2
  SemValues <- MCNatValues
  SemIds <- MCIds
  ForkResults <- MCAnyFork
  MaxPID = 1001
  MaxTID = 1001
  MaxCount = 1
PROPERTIES
  OwnerOnly
CHECK_DEADLOCK FALSE
