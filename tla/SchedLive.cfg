SPECIFICATION LiveSpec
CONSTANTS
  c1 = c1  c2 = c2  t1 = t1  t2 = t2
  Idle = Idle  Stop = Stop  NoTask = NoTask
  CPU = {c1, c2}
  Task = {t1}
  Boot = {t1}
  Worker = {}
  Mortal = {}
  Sleeps <- SleepI
  Masks <- PinAway
  LLC <- SplitLLC
  Width = 1
  Home <- HomeFirst
PROPERTIES WakeupCompletes MigrationCompletes IdleLeavesForWork
CHECK_DEADLOCK FALSE
