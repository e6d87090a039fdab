SPECIFICATION FairMemSpec
CONSTANTS
  NR_TASKS = 4
  QUANTUM = 2
  Pids <- MCPids
  MaxPID = 6
  MaxPending = 1
  TOTAL_PAGES = 15
  NUM_PAG_KERNEL = 2
  NUM_PAG_CODE = 1
  NUM_PAG_DATA = 2
INVARIANTS
  QueuesIntact
  OnlyParentsStop
  FramesSuffice
  DataNotShared
PROPERTIES
  StarvesOnlyBelowZero
CHECK_DEADLOCK FALSE
