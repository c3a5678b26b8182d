SPECIFICATION FairSpec
CONSTANTS
    Groups <- Group
    Names <- AllNames
    MetricsName <- MetricsNames
    Znodes = {"znode"}
    Foreign = {}
    Inputs <- ZkPresent
    Specs <- PodSpecs
    Pod <- OnePod
    MaxVersion = 2
    MaxFaults = 1
INVARIANTS TypeOK RunsOneConfig SecuredFromTheStart
PROPERTY ComesUp
CHECK_DEADLOCK FALSE
