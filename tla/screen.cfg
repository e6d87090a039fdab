SPECIFICATION Spec
CONSTANTS
  PAGE_SIZE = 8
  ADDRESS_RANGE = 64
  USER_FIRST_PAGE = 2
  NUM_PAG_CODE = 1
  NUM_PAG_DATA = 1
  WORD = 2
  NUM_ROWS = 2
  NUM_COLUMNS = 3
  FIRST_ROW = 1
  BootText <- MCBootText
  TAM_BUFFER = 3
  Newlines <- MCNewlines
  Addrs <- MCAddrs
  Sizes <- MCSizes
  SpriteAddrs <- MCSpriteAddrs
  Positions <- MCPositions
  Colors <- MCColors
  Sprites <- MCSprites
  Numbers <- MCNumbers
INVARIANTS
  ScreenTypeOK
  WritesWhatWasAsked
  AccessChecked
  PrintsUserBytes
  DrawnInPlace
  NumberReadsBack
CHECK_DEADLOCK FALSE
