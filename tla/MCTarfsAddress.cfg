SPECIFICATION TarfsSpec
CONSTANTS
  Parts <- AllParts
  Archives <- SmallArchives
  Sought <- SoughtNames
  WordSize = 8
  Rest <- RestOf
INVARIANT
  AddressIsStartOfContents
