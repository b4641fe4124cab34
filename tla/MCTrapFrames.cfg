SPECIFICATION Spec
CONSTANTS
  Users = {p1, p2}
  Idle = idle
  Boot = boot
  Exceptions = {6, 8, 13, 14}
  Irqs = {33, 44}
  SyscallNumbers = {1, 2}
  TicksPerSlice = 2
  TimerPushes = 1
  CallWords = 3
SYMMETRY Symmetry
INVARIANTS
  TrapTypeOK
  ReturnsToWhatWasInterrupted
  HandlersReadTheFrame
  ExceptionsAreFinal
  InterruptsAreAcknowledged
CHECK_DEADLOCK FALSE
