SPECIFICATION ProgSpec
CONSTANTS
  NR_TASKS = 5
  NUM_SEM = 1
  DEFAULT_QUANTUM = 2
  SemValues <- MCValues
  SemIds <- MCIds
  ForkResults <- MCNone
  MaxPID = 1000
  MaxTID = 1003
  MaxCount = 1
  NUM_THREADS = 3
INVARIANTS
  CountsWhileSemaphore
  KernelGoesOn
PROPERTIES
  AllThreadsEnd
