SPECIFICATION Spec
CONSTANTS
  main = main
  a = a
  b = b
  idle = idle
  None = None
  Thread <- MCThread
  Idle = idle
  Main = main
  Static = {}
  MaxPrio = 2
  MaxNest = 2
  Queue <- MCQueue
  InitPrio <- MCInitPrio
  Calls <- DeleteSleepingCalls
INVARIANT ClosedUnlinked
