SPECIFICATION Spec
CONSTANTS
    c1 = c1
    c2 = c2
    o1 = o1
    o2 = o2
    o3 = o3
    Clients <- TwoClients
    Operations <- ThreeOperations
    Client <- Owners
    OneShots <- OneOneShot
    Services <- AllServices
    CRYPTO_CONTEXT_POOL_SIZE = 2
    HandleMax = 3
    MaxAllocs <- SomeAllocs
    MaxInputs <- SomeInputs
    MaxUpdates <- SomeUpdates
SYMMETRY Symmetry
INVARIANTS OwnContexts  RollOverSafe
CHECK_DEADLOCK FALSE
