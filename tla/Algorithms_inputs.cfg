SPECIFICATION Spec
CONSTANTS
    Values <- MCValues
    Types <- MCTypes
    Tables <- MCTables
    Messages <- MCMessages
    ProcessLists <- MCProcessLists
    MatchGraphs <- MCMatchGraphs
    Systems <- MCSystems
INVARIANTS
    ConversionsSound
    TablesRoundTrip
    
    KillsDescendants
    MatchingMaximum
    ConstraintsSolved
CHECK_DEADLOCK FALSE
