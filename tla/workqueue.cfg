SPECIFICATION FairSpec
CONSTANTS
  w1 = w1
  w2 = w2
  c1 = c1
  c2 = c2
  None = None
  Work = {w1, w2}
  Client = {c1, c2}
  IsrCalls = {"dowork", "invalid"}
  Rules = {"one_way", "serial"}
INVARIANT ItemsSound
INVARIANT NoWorkForgotten
PROPERTY FuncKeepsWaiting
PROPERTY SyncReturns
