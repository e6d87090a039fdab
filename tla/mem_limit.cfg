SPECIFICATION MemSpec
CONSTANTS
  NR_TASKS = 4
  NUM_SEM = 0
  DEFAULT_QUANTUM = 1
  SemValues <- MCValues
  SemIds <- MCIds
  ForkResults <- MCForkResults
  MaxPID = 1001
  MaxTID = 1003
  MaxCount = 1
  TOTAL_PAGES = 7
  NUM_PAG_KERNEL = 2
  NUM_PAG_CODE = 1
  NUM_PAG_DATA = 1
  SbrkPages <- MCSizes
INVARIANTS
  BreakInRange
CHECK_DEADLOCK FALSE
