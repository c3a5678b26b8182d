SPECIFICATION Spec
CONSTANTS
    Groups <- OneGroup
    Names <- OneGroupNames
    MetricsName <- OneGroupMetricsName
    Znodes = {"z1", "z2"}
    Specs <- StopSpecs
    Foreign = {}
    Inputs <- AllPresent
    Managers = {m1,m2}
    UserOps = {"edit"}
    FaultKinds = {}
    MaxVersion = 2
    MaxFaults = 0
SYMMETRY ManagerSymmetry
INVARIANT QuietMeansConverged
PROPERTY ImplementsManagedCluster
CHECK_DEADLOCK FALSE
