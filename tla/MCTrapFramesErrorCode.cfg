SPECIFICATION Spec
CONSTANTS
  Users = {p1}
  Idle = idle
  Boot = boot
  Exceptions = {14}
  Irqs = {33}
  SyscallNumbers = {1, 2}
  TicksPerSlice = 2
  TimerPushes = 1
  CallWords = 3
INVARIANT ProcessorPartIsPushedByProcessor
CHECK_DEADLOCK FALSE
