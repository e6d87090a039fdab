SPECIFICATION ProgSpec
CONSTANTS
  NR_TASKS = 4
  QUANTUM = 4
  Pids <- MCPids
  MaxPID = 4
  MaxPending = 2
INVARIANTS
  GrandchildFound
PROPERTIES
  GrandchildEnds
