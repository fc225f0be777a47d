CONSTANTS
    N = 2
    MaxConns = 1
    MinimumTokenLength = 2
    Environments <- ManagedEnvironment
    ShutdownTimeout = 2
    MaxSpans = 1
SPECIFICATION ProcessSpec
INVARIANTS
    ShutdownCompletes
