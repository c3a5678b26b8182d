SPECIFICATION FairSpec
CONSTANTS
    Groups <- OneGroup
    Names <- OneGroupNames
    MetricsName <- OneGroupMetricsName
    Znodes = {"z1", "z2"}
    Specs <- RecreateSpecs
    Foreign = {}
    Inputs <- AllPresent
    Managers = {m1}
    UserOps = {"edit","delete"}
    FaultKinds = {}
    MaxVersion = 3
    MaxFaults = 0
INVARIANT QuietMeansConverged
PROPERTIES Converges NothingLeftBehind NothingInherited ImplementsManagedCluster
CHECK_DEADLOCK FALSE
