SPECIFICATION Spec
CONSTANTS
    Words = {"zk", "znode"}
    MaxLen = 5
INVARIANT ExampleAccepted
