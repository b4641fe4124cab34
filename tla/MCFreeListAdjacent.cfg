SPECIFICATION Spec
CONSTANTS
  PAGESIZE = 4
  DescSize = 1
  Physfree = 6
  Smaps <- AdjacentMaps
INVARIANT NoPageHandedOutTwice
