CONSTANTS
    io = io
    timer = timer
    timer2 = timer2
    periodic = periodic
    Src <- OneOfEach
    NoSrc = NoSrc
    Kind <- Kinds
    MaxOps = 3
    AfterExit <- TimersOnly
    DropPeriodic = FALSE
    DropEmitting = FALSE
SPECIFICATION FairSpec
CHECK_DEADLOCK FALSE
INVARIANTS
    WatchesListeners
    ElapsedLetsGo
PROPERTIES
 TimerFires
