SPECIFICATION Spec
CONSTANTS
    Root = Root  g1 = g1  g2 = g2  g3 = g3  p1 = p1  p2 = p2  NoGroup = NoGroup  NoTask = NoTask
    Group = {Root, g1, g2, g3}
    Task = {p1, p2}
    CPU = {0, 1}
    Writer = {1, 2}
    FirstParent <- Chain
    FirstGroup <- OneInRoot
    FirstRt = {}
    FirstBandwidth <- ThreeQuarters
    RtRuntimes = {0, 2, 4}
    RtPeriods = {8}
    CfsQuotas <- Quarters
    CfsPeriods = {2}
    SysRuntimes = {2, 8}
    SysPeriods = {6}
    CfsDefault = 4
    min_cfs_quota_period = 1
    max_cfs_quota_period = 4
    DlTotal = 2
    UNIT = 4
    MaxCalls = 3
INVARIANTS RtNested CfsNested UsedCovers SettledGroup
CHECK_DEADLOCK FALSE
