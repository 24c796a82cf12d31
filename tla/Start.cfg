SPECIFICATION StartSpec
CONSTANTS
  Chars <- MCChars
  Sep <- Newline
  Blanks <- Trim
  CONFIGLINE_MAX = 5
  CS_MAX_PREALLOC = 6
  FirstSlots = 2
  MaxFile = 99
  Files <- MCFiles
  Null = Null
  Libraries <- MCLibraries
INVARIANTS
  TypeOK
  RoomKept
  SlotFree
  LinesKept
  ConfExact
  WalkExact
  Linked
PROPERTIES
  Starts
CHECK_DEADLOCK FALSE
