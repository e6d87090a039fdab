SPECIFICATION MemSpec
CONSTANTS
  NR_TASKS = 4
  NUM_SEM = 1
  DEFAULT_QUANTUM = 1
  SemValues <- MCValues
  SemIds <- MCIds
  ForkResults <- MCForkResults
  MaxPID = 1001
  MaxTID = 1001
  MaxCount = 1
  TOTAL_PAGES = 12
  NUM_PAG_KERNEL = 2
  NUM_PAG_CODE = 1
  NUM_PAG_DATA = 2
  SbrkPages <- MCSizes
INVARIANTS
  MemTypeOK
  FrameOwnership
PROPERTIES
  NoFrameChangeOnFailure
CHECK_DEADLOCK FALSE
