SPECIFICATION FairSpec
CONSTANT MaxTerms = 3
INVARIANTS TypeOK StopsGracefully OutlivesHbase
PROPERTIES TakenTermEnds CrashEnds
CHECK_DEADLOCK FALSE
