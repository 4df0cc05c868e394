SPECIFICATION PolicySpec
CONSTANTS
    t1 = t1  t2 = t2  t3 = t3  root = root  user = user  NoTask = NoTask
    Task = {t1, t2, t3}
    Boot = {t1, t2}
    First <- OneFifo
    Forker = {t1, t2}
    Mortal = {t1}
    Caller = {root, user}
    Capable = {root}
    Attr <- Mixed
    Nices <- BestWorst
    Waits <- NoWaits
    RLIMIT_NICE = 0
    RLIMIT_RTPRIO = 0
    MAX_RT_PRIO = 3
    MIN_NICE <- MinNice
    MAX_NICE = 1
    CPUs = 2
    Limits <- Tighter
    BW_UNIT = 4
    FirstLimit = 1
    Width = 16
    MaxCall = 3
INVARIANTS RtPriorityKept  BandwidthExact BandwidthBounded PrioConsistent
CHECK_DEADLOCK FALSE
