SPECIFICATION Spec
CONSTANTS
  t1 = t1
  t2 = t2
  t3 = t3
  idle = idle
  m1 = m1
  m2 = m2
  NoMsg = NoMsg
  Null = Null
  Thread <- MCThread
  Idle = idle
  MaxPrio = 2
  Queue <- MCQueue
  InitPrio <- MCInitPrio
  Flag = "FIFO"
  Message = {m1, m2}
  Size = 2
  Waits = {"timed", "now"}
  Calls <- MCCalls
  IsrSends = TRUE
INVARIANT BlocksSound
INVARIANT NoLostWakeUp
PROPERTY IsBoundedQueue
