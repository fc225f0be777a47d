CONSTANTS
    N = 3
    MaxConns = 2
SPECIFICATION Spec
INVARIANTS
    TypeOK
    NothingLeftBehind
    ErrorTellsWhatHappened
PROPERTIES
    EventuallyReturns
