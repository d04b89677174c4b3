SPECIFICATION Spec
CONSTANTS
    l1 = l1
    l2 = l2
    NULL = NULL
    Bad = Bad
    NoValue = NoValue
    Locations <- MCLocations
    CopyInstallers <- MCLocations
    Buffers <- NoBuffers
    Chunks = 2
    MetadataVersion = 2
    PoolSize = 2
    RollMod = 1
    Faults = FALSE
    IoFaults = TRUE
    RebootAfterRevert = TRUE
    BufferLen = 2
    MaxTx = 2
SYMMETRY Symmetric
INVARIANTS BootableBanksIntact UpdateIsWhatWasCommitted AcceptanceIsDurable InstallersFollowStreams
 
