SPECIFICATION WakeSpec
CONSTANTS
  c1 = c1  c2 = c2  t1 = t1  t2 = t2  w1 = w1  w2 = w2
  Idle = Idle  Stop = Stop  NoTask = NoTask
  CPU = {c1, c2}
  Task = {t1, t2, w1, w2}
  Boot = {t1, t2, w1, w2}
  Worker = {w1, w2}
  Mortal = {}
  Sleeps <- SleepU
  Masks <- NoMasks
  LLC <- SplitLLC
  Width = 4
  Home <- HomeFirst
INVARIANTS TypeOK StackExclusive NoLostWakeup WakeListNoticed LoadBalanced
SYMMETRY Alike
