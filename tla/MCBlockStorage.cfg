CONSTANTS
    v1 = v1
    v2 = v2
    v3 = v3
    g1 = g1
    g2 = g2
    c1 = c1
    c2 = c2
    a = a
    b = b
    c = c
    BlockSize = 2
    STORAGE_PARTITION_ACL_ALLOWLIST_LEN = 2
    DiskGuid = DiskGuid
    NumBlocks = 4
    Erased = Erased
    Zero = Zero
    CounterMax = 9
    AddressMod = 4
    NoKey = NoKey
    Key = Key
    RPMB_WRITE_KEY = TRUE
    Junk = Junk
    PARTITIONED_BLOCK_STORE_MAX_PARTITIONS = 3
    DISK_HEADER = DISK_HEADER
    HeaderBlocks = 1
    LocalClient = LocalClient
    Guids <- MCGuids
    PartitionTable <- MCPartitionTable
    Kinds = {"encrypted", "ram", "rpmb"}
    Volumes <- MCVolumes
    ClientOf <- MCClientOf
    GuidOf <- MCGuidOf
    Image = Image
    WritesOf <- MCWritesOf
    ReadLengths = {3}
    UINT32_MAX = 100
    MaxBoots <- MCMaxBoots
    MaxCalls = 3
    SeekTo = {1, 3}
SPECIFICATION Spec
INVARIANTS BytesExpected  CounterFollows RoundsMove
PROPERTIES StaleWritesNothing
CHECK_DEADLOCK FALSE
