SPECIFICATION Spec
CONSTANTS
  CBUFFER_SIZE = 4
  COUNTER_RANGE = 12
  Scancodes <- MCScancodes
  char_map <- MCchar_map
INVARIANTS
  TypeOK
  IndicesAgree
PROPERTIES
  ImplementsQueue
