CONSTANTS
    N = 2
    MaxConns = 1
    MinimumTokenLength = 2
    Environments <- AllEnvironments
    ShutdownTimeout = 2
    MaxSpans = 1
SPECIFICATION ProcessSpec
INVARIANTS
    ProcessTypeOK
    NeverKilled
    ZeroMeansClean
PROPERTIES
    EventuallyGone
