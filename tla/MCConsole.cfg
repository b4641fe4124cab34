SPECIFICATION ConsoleSpec
CONSTANTS
  Columns = 3
  Rows = 2
  Mapped = 12
  Formats <- SmallFormats
  MaxCalls = 4
INVARIANTS
  ConsoleTypeOK
  ScreenShowsText
  PlainTextIsKept
  CursorStaysNearScreen
CHECK_DEADLOCK FALSE
