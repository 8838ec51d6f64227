SPECIFICATION Spec
CONSTANTS
  high = high
  mid = mid
  low = low
  idle = idle
  m1 = m1
  m2 = m2
  NoThread = NoThread
  NoPrio = 255
  Thread <- MCThread
  Idle = idle
  MaxPrio = 3
  InitPrio <- MCInitPrio
  Flag = "PRIO"
  MaxHold = 2
  Mutexes <- TwoMutexes
  Queue <- TwoMutexes
  Calls <- MCCalls
INVARIANT OwnershipSound
INVARIANT WaitersSound
INVARIANT InheritanceHolds
INVARIANT PriorityRestored
SYMMETRY MutexSymmetry
VIEW MCView
