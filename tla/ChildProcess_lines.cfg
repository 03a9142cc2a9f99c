SPECIFICATION FairSpec
CONSTANTS
    BufSize = 2
    MaxOut <- ShortStream
    MaxOps = 2
    QuitListening = FALSE
INVARIANTS
    ListenersServed
    LinesWhole
    ExitComesLast
PROPERTIES
    ExitReported
CHECK_DEADLOCK FALSE
