SPECIFICATION Spec
CONSTANTS
  c1 = c1  c2 = c2  t1 = t1  t2 = t2
  Idle = Idle  Stop = Stop  NoTask = NoTask
  CPU = {c1, c2}
  Task = {t1, t2}
  Boot = {t2}
  Worker = {t2}
  Mortal = {t1}
  Sleeps <- SleepFirst
  Masks <- PinFirst
  LLC <- SplitLLC
  Width = 2
  Home <- HomeFirst
INVARIANTS QueueConsistent  DeadOnce
PROPERTIES NoBlockedMove
