SPECIFICATION Spec
CONSTANTS
    l1 = l1
    l2 = l2
    NULL = NULL
    Bad = Bad
    NoValue = NoValue
    Locations <- OneLocation
    CopyInstallers <- NoCopyInstaller
    Buffers <- BothBuffers
    Chunks = 1
    MetadataVersion = 1
    PoolSize = 3
    RollMod = 1
    Faults = FALSE
    IoFaults = FALSE
    RebootAfterRevert = TRUE
    BufferLen = 2
    MaxTx = 2
INVARIANTS BootableBanksIntact DirectoryNotTorn
