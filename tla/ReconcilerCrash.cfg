SPECIFICATION Spec
CONSTANTS
    Groups <- OneGroup
    Names <- OneGroupNames
    MetricsName <- OneGroupMetricsName
    Znodes = {"z1", "z2"}
    Specs <- SecuritySpecs
    Foreign = {}
    Inputs <- Varied
    Managers = {m1}
    Pod <- MasterGroup
    UserOps = {"edit","delete"}
    FaultKinds = {"restart","fail"}
    MaxVersion = 2
    MaxFaults = 1
INVARIANTS TypeOK QuietMeansConverged QuietMeansCoherent
PROPERTIES RolledOutInOrder GroupIsManaged
CHECK_DEADLOCK FALSE
