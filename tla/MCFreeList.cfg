SPECIFICATION Spec
CONSTANTS
  PAGESIZE = 4
  DescSize = 3
  Physfree = 6
  Smaps <- SeparateMaps
INVARIANTS
  TypeOK
  HandedOutPagesTouchMemory
  NoPageHandedOutTwice
  KernelAndListAreNeverHandedOut
