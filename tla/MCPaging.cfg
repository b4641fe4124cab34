SPECIFICATION PagingSpec
CONSTANTS
  PAGESIZE = 32
  DescSize = 1
  Physfree = 128
  Smaps <- Machines
  Fanout = 4
  KernBase = 192
  Physbase = 3
  VideoPage = 1
  MapSlack = 4
  TopSlack = 9
  StackPage = 100
  SmallPages = 1
  PcbPages = 1
  WordBytes = 8
  Readable = 400
  NoFile = nofile
  Binaries <- AllBinaries
  MaxExecs = 1
INVARIANTS
  PagingTypeOK
  TopIsFresh
  NoPageServesTwice
  ProcessesHaveTheirMemory
  FirstSegmentsArrive
  OnlyABadFileHalts
  OnlyARefusalLosesAPage
PROPERTY MappingsStay
