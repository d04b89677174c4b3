SPECIFICATION Spec
CONSTANTS
    MAX_ENV_COUNT = 2
    Clients = {c1, c2}
    Refs = {1, 2}
    Lossy = TRUE
    Disciplined = TRUE
    MaxScript = 2
INVARIANTS FreeListExact ClientsIsolated
PROPERTIES ImplementsEnvironments
