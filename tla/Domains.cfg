CONSTANTS
    CPU <- MCCpu
    Topologies <- MCTopologies
    Cpusets <- MCCpusets
    Isolated = {}
    Readers = {r1}
    MaxFail = 1
    MaxBuild = 2
    MaxOps = 2
SPECIFICATION Spec
CHECK_DEADLOCK FALSE
INVARIANTS
    DomainsSound
    
    RootDomainsAgree
    
    PartitionRoots
    PartitionRealised
    CpusetFollowed
