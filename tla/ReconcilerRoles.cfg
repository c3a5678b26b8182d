SPECIFICATION Spec
CONSTANTS
    Groups <- WideGroup
    Names <- WideGroupNames
    MetricsName <- WideGroupMetricsName
    Znodes = {"z1", "z2"}
    Specs <- TwoRoleSpecs
    Foreign = {}
    Inputs <- AllPresent
    Managers = {m1}
    UserOps = {"edit"}
    FaultKinds = {}
    MaxVersion = 2
    MaxFaults = 0
INVARIANTS QuietMeansConverged QuietMeansCoherent
PROPERTY RolledOutInOrder
CHECK_DEADLOCK FALSE
