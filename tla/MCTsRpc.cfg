SPECIFICATION Spec
CONSTANTS
    c1 = c1
    c2 = c2
    e1 = e1
    e2 = e2
    h1 = h1
    h2 = h2
    Clients <- MCClients
    Endpoints <- MCEndpoints
    Services <- MCServices
    Handles <- MCHandles
    Lengths <- MCLengths
    Faults <- MCFaults
    MAX_SHM_NUM = 2
    shared_memory_count = 1
    PAGE_SIZE = 2
SYMMETRY Symmetry
INVARIANTS   SessionOwnsMemory
PROPERTIES CloseReturnsMemory
