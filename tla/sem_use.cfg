SPECIFICATION FairSpec
CONSTANTS
  t1 = t1
  t2 = t2
  t3 = t3
  idle = idle
  Thread <- MCThread
  Idle = idle
  MaxPrio = 2
  Queue <- MCQueue
  InitPrio <- MCInitPrio
  Flag = "PRIO"
  MaxValue = 2
  InitValue = 1
  Calls <- AllCalls
INVARIANT WaitersSound
INVARIANT TokensConserved
INVARIANT ResumesOnlyThreads
PROPERTY TimedTakeReturns
