SPECIFICATION FairSpec
CONSTANT MaxTerms = 1
INVARIANT TrappedTermReachesHbase
CHECK_DEADLOCK FALSE
