SPECIFICATION FairSpec
CONSTANTS
    Groups <- OneGroup
    Names <- OneGroupNames
    MetricsName <- OneGroupMetricsName
    Znodes = {"z1", "z2"}
    Specs <- LiveSpecs
    Foreign <- EditedRest
    Inputs <- ZkMoves
    Managers = {m1}
    UserOps = {"edit"}
    FaultKinds = {"restart","fail","drift","input","podsdown"}
    MaxVersion = 2
    MaxFaults = 2
INVARIANT QuietMeansConverged
PROPERTY Converges
CHECK_DEADLOCK FALSE
