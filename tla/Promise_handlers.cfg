CONSTANTS
    Val = {v1}
    NoVal = NoVal
    Tuple = Tuple
    Budgets <- ChainOrJoin
    SelfThen = FALSE
SPECIFICATION FairSpec
CHECK_DEADLOCK FALSE
INVARIANTS
    HandlersQueued
    CalledOnce
    JoinExact
PROPERTIES
    ChainsSettle
    JoinResolves
