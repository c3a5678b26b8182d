SPECIFICATION FairSpec
CONSTANTS
    Groups <- Group
    Names <- AllNames
    MetricsName <- MetricsNames
    Znodes = {"znode"}
    Foreign <- EditedPod
    Inputs <- ZkPresent
    Specs <- SecureSpecs
    Pod <- OnePod
    MaxVersion = 2
    MaxFaults = 1
INVARIANTS RunsOneConfig SecuredFromTheStart
PROPERTY ComesUp
CHECK_DEADLOCK FALSE
