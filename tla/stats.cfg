SPECIFICATION StatSpec
CONSTANTS
  NR_TASKS = 3
  NUM_SEM = 1
  DEFAULT_QUANTUM = 1
  SemValues <- MCValues
  SemIds <- MCIds
  ForkResults <- MCForks
  MaxPID = 1001
  MaxTID = 1001
  MaxCount = 1
  TICK_RANGE = 2
  StatPids <- MCStatPids
INVARIANTS
  StatTypeOK
  AccountsComplete
  ReportsTaskInUse
CHECK_DEADLOCK FALSE
