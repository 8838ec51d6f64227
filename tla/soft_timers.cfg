SPECIFICATION FairSpec
CONSTANTS
  a = a
  p = p
  NoTick = NoTick
  Timer = {a, p}
  Periodic = {p}
  TickMax = 9
  InitTick <- MCInitTick
  MaxLag = 1
  MaxAge = 3
  IsrTimer = {a}
INVARIANT SleepSound
INVARIANT WakesInTime
PROPERTY SoftTimersFire
