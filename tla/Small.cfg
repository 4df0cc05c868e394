SPECIFICATION SmallSpec
CONSTANTS
    t1 = t1  t2 = t2
    Task = {t1, t2}
    CPU = {m1, m2}
    None = NoCpu
    Callers = {t1}
    Setters = {t2}
    Watched = t2
    MaxSwitch <- Switches
    MaxCall = 2
    MaxDown = 1
    Page = {0, 1, 2, 3}
    Layouts <- TwoLayouts
    MarkRounds = 2
    CountRounds = 1
    MaxAccess = 3
    File = {f1, f2}
    Vma = {v1, v2, v3}
    Garbage = {0, 7}
    MaxFds = 2
SYMMETRY AlikeCpus
INVARIANTS QueuesSound  TwoCallsAgree
            RssSound MappedLives
CHECK_DEADLOCK FALSE
