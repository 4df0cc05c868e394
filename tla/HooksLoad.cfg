SPECIFICATION Spec
CONSTANTS
    p1 = p1  p2 = p2  p3 = p3  c1 = c1  c2 = c2  i1 = i1  i2 = i2
    Task = {p1, p2, p3}
    CPU = {c1, c2}
    Swapper <- Swappers
    Fresh = {p3}
    Home <- Homes
    Pid = p1
    MaxSwitch = 2
    MaxMigration = 2
    MaxLoad = 2
INVARIANTS  PerPidExact
CHECK_DEADLOCK FALSE
