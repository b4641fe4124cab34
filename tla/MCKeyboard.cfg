SPECIFICATION FairSpec
CONSTANTS
  Readers = {p1, p2}
  Chars = {a, b}
  NUL = nul
  ENTER = enter
  UNMAPPED = unmapped
  BufSize = 3
  FlagLoads = {"every_iteration", "once"}
  MaxKeys = 5
INVARIANTS
  TypeOK
  NoLineBeforeEnter
  LineIsWhatWasTyped
PROPERTIES
  OnlyEnterOverruns
  EveryLineIsDelivered
CHECK_DEADLOCK FALSE
