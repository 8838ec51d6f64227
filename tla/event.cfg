SPECIFICATION Spec
CONSTANTS
  t1 = t1
  t2 = t2
  t3 = t3
  idle = idle
  f1 = f1
  f2 = f2
  Thread <- MCThread
  Idle = idle
  MaxPrio = 2
  Queue <- MCQueue
  InitPrio <- MCInitPrio
  Flag = "PRIO"
  Flags = {f1, f2}
  Sends <- MCSends
  Requests <- MCRequests
  Calls <- MCCalls
INVARIANT WaitersSound
INVARIANT UrgentReceiverRuns
PROPERTY SendServes
PROPERTY OutcomeKept
