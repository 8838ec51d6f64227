SPECIFICATION Spec
CONSTANTS
  t1 = t1
  t2 = t2
  t3 = t3
  idle = idle
  m1 = m1
  NoMsg = NoMsg
  Thread <- MCThread
  Idle = idle
  MaxPrio = 2
  Queue <- MCQueue
  InitPrio <- MCInitPrio
  Flag = "PRIO"
  Message = {m1}
  Size = 2
  Waits = {"forever", "timed", "now"}
  Calls <- AllCalls
INVARIANT RingInv
INVARIANT WaitersSound
PROPERTY IsBoundedQueue
