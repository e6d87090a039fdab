SPECIFICATION Spec
CONSTANTS
  NR_TASKS = 4
  NUM_SEM = 2
  DEFAULT_QUANTUM = 2
  SemValues <- MCAllValues
  SemIds <- MCAllIds
  ForkResults <- MCAnyFork
  MaxPID = 1001
  MaxTID = 1001
  MaxCount = 1
INVARIANTS
  TypeOK
  ListDiscipline
  StateMatchesQueue
  IdleOnlyWhenNothingReady
  UniqueIds
  ContextMatchesState
  SlotsAccountedFor
  SemCountMatchesBlocked
  SignalFindsThread
PROPERTIES
  WokenByOwnProcess
  NoTaskLost
  IdleIsFinal
  NoOvertaking
CHECK_DEADLOCK FALSE
