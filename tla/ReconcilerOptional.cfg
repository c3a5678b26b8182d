SPECIFICATION Spec
CONSTANTS
    Groups <- OneGroup
    Names <- OneGroupNames
    MetricsName <- OneGroupMetricsName
    Znodes = {"z1", "z2"}
    Specs <- OptionalSpecs
    Foreign = {}
    Inputs <- AllPresent
    Managers = {m1}
    UserOps = {"edit"}
    FaultKinds = {}
    MaxVersion = 2
    MaxFaults = 0
INVARIANT NeverPanics
CHECK_DEADLOCK FALSE
