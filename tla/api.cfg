CONSTANTS
    Clients = {c1, c2, c3}
    Names <- AllNames
    ValidNames <- TwoNames
    Loads <- ContentionAndRoutes
SYMMETRY Symmetry
SPECIFICATION Spec
INVARIANTS
    TypeOK
    MetricsAccountForRequests
PROPERTIES
    ImplementsRegistry
CHECK_DEADLOCK FALSE
