SPECIFICATION FairSpec
CONSTANTS
  Users = {sbush, ls1, ls2}
  Idle = idle
  NULL = null
  TicksPerSlice = 3
  Quantum = 3
INVARIANTS
  TypeOK
  EachProcessInOnePlace
  ReadyListNeverRunsDry
  CurrentOwnsTheCPU
  SuspendedFrameIsOnTop
PROPERTIES
  SuspendedStacksAreUntouched
  EveryDecisionShortensTheWait
  EveryProcessKeepsRunning
  ImplementsFairDispatcher
CHECK_DEADLOCK FALSE
