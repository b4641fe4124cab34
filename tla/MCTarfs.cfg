SPECIFICATION TarfsSpec
CONSTANTS
  Parts <- AllParts
  Archives <- SmallArchives
  Sought <- SoughtNames
  WordSize = 8
  Rest <- RestOf
INVARIANTS
  TarfsTypeOK
  OffsetFollowsP
  EveryMemberIsListed
  ParentHoldsChild
  GetElfFindsUnlessSpeltBefore
