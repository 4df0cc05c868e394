SPECIFICATION Spec
CONSTANTS
    Root = Root  g1 = g1  g2 = g2  g3 = g3  p1 = p1  p2 = p2  NoGroup = NoGroup  NoTask = NoTask
    Group = {Root, g1, g2}
    Task = {p1, p2}
    CPU = {0}
    Writer = {1}
    FirstParent <- TwoBelow
    FirstGroup <- OneInRoot
    FirstRt = {}
    FirstBandwidth <- ThreeQuarters
    RtRuntimes = {0, 1}
    RtPeriods = {}
    CfsQuotas = {}
    CfsPeriods = {}
    SysRuntimes = {}
    SysPeriods = {}
    CfsDefault = 4
    min_cfs_quota_period = 1
    max_cfs_quota_period = 4
    DlTotal = 1
    UNIT = 4
    MaxCalls = 4
INVARIANT NoStarvedRt
CHECK_DEADLOCK FALSE
