----------------------------- MODULE BlockDevice -----------------------------
(***************************************************************************)
(* Block devices: the single partition that all of them have               *)
(* (components/service/block_storage/block_store/device/block_device.c)    *)
(* and the RAM device (device/ram/ram_block_store.c); storage partitions   *)
(* with their access control lists (block_store/storage_partition.c,       *)
(* storage_partition_acl.c).  Every block store of a stack has blocks of   *)
(* the same size.  No deployment configures an authorizer or the owner of  *)
(* a partition.                                                            *)
(*                                                                         *)
(* A device has a partition.  A RAM device also has ram_back_store, a      *)
(* function from block numbers to blocks; a block is a function from       *)
(* 0 .. BlockSize - 1 to bytes.  Operations of block stores give the set   *)
(* of their answers, [store, status, out]: the store after it, the status, *)
(* and the handle, the bytes read, or the number of bytes written.         *)
(***************************************************************************)
EXTENDS Integers, Sequences

CONSTANTS
    BlockSize,              \* block_size, in bytes
    STORAGE_PARTITION_ACL_ALLOWLIST_LEN,
    DiskGuid, NumBlocks,    \* of the device
    Erased,                 \* RAM_BLOCK_STORE_ERASED_VALUE
    Zero                    \* a zero byte

ASSUME PartitionAssumption ==
    BlockSize \in Nat \ {0} /\ STORAGE_PARTITION_ACL_ALLOWLIST_LEN \in Nat \ {0}

ASSUME DeviceAssumption == NumBlocks \in Nat \ {0}

BlockOf(byte) == [i \in 0 .. BlockSize - 1 |-> byte]

StoreAnswer(store, status, out) == {[store |-> store, status |-> status, out |-> out]}

\* An operation that is refused.
Refuse(store, status) == StoreAnswer(store, status, 0)

Least(a, b) == IF a < b THEN a ELSE b

\* A block with `bytes' from `offset' on.
Overwritten(block, offset, bytes) ==
    [i \in DOMAIN block |-> IF i >= offset /\ i - offset < Len(bytes) THEN bytes[i - offset + 1] ELSE block[i]]

BytesOf(block, offset, len) == [i \in 1 .. len |-> block[offset + i - 1]]

-----------------------------------------------------------------------------
(* Storage partitions. *)

storage_partition_init(guid, num_blocks) ==
    [guid |-> guid, num_blocks |-> num_blocks, base_lba |-> 0, acl |-> <<>>]

storage_partition_acl_check(acl, client) == \E i \in DOMAIN acl : acl[i] = client

storage_partition_acl_add(acl, client) ==
    IF Len(acl) < STORAGE_PARTITION_ACL_ALLOWLIST_LEN THEN Append(acl, client) ELSE acl

\* Mutant: every client that asks is added.
storage_partition_acl_authorize_All(acl, client) ==
    IF storage_partition_acl_check(acl, client) THEN acl ELSE storage_partition_acl_add(acl, client)

\* The list after a request to open; the client is permitted if it is in it.  The first one gets in.
storage_partition_acl_authorize(acl, client) ==
    IF storage_partition_acl_check(acl, client) \/ acl # <<>> THEN acl ELSE storage_partition_acl_add(acl, client)

storage_partition_is_access_permitted(partition, client) == storage_partition_acl_check(partition.acl, client)

storage_partition_is_open_permitted(partition, client) ==
    storage_partition_acl_check(storage_partition_acl_authorize(partition.acl, client), client)

storage_partition_is_lba_legal(partition, lba) == lba < partition.num_blocks

\* Mutant: what is left of the partition does not count the block itself.
storage_partition_clip_length_Short(partition, lba, offset, req_len) ==
    LET after == (partition.num_blocks - lba - 1) * BlockSize
        remaining_len == IF offset < after THEN after - offset ELSE 0
    IN  IF req_len > remaining_len THEN remaining_len ELSE req_len

storage_partition_clip_length(partition, lba, offset, req_len) ==
    LET rest == (partition.num_blocks - lba) * BlockSize
        remaining_len == IF offset < rest THEN rest - offset ELSE 0
    IN  IF lba >= partition.num_blocks THEN 0 ELSE IF req_len > remaining_len THEN remaining_len ELSE req_len

\* Mutant: the number of blocks is not clipped.
storage_partition_clip_num_blocks_Not(partition, lba, num_blocks) == num_blocks

storage_partition_clip_num_blocks(partition, lba, num_blocks) ==
    LET remaining_blocks == partition.num_blocks - lba
    IN  IF lba >= partition.num_blocks THEN 0 ELSE IF num_blocks > remaining_blocks THEN remaining_blocks ELSE num_blocks

-----------------------------------------------------------------------------
(* Devices. *)

block_device_init == storage_partition_init(DiskGuid, NumBlocks)

block_device_check_access_permitted(dev, client, handle) ==
    IF handle # 0 THEN "INVALID_ARGUMENT"
    ELSE IF ~storage_partition_is_access_permitted(dev.partition, client) THEN "NOT_PERMITTED"
    ELSE "SUCCESS"

block_device_open(dev, client, guid) ==
    IF dev.partition.guid = guid /\ storage_partition_is_open_permitted(dev.partition, client)
    THEN StoreAnswer([dev EXCEPT !.partition.acl = storage_partition_acl_authorize(@, client)], "SUCCESS", 0)
    ELSE Refuse(dev, "NOT_PERMITTED")

\* What the operations of the devices check first.
DeviceStatus(dev, client, handle, lba, offset) ==
    LET status == block_device_check_access_permitted(dev, client, handle)
    IN  IF status = "SUCCESS" /\ ~(storage_partition_is_lba_legal(dev.partition, lba) /\ offset < BlockSize)
        THEN "INVALID_ARGUMENT" ELSE status

-----------------------------------------------------------------------------
ram_block_store_init == [kind |-> "ram", partition |-> block_device_init,
                         ram_back_store |-> [lba \in 0 .. NumBlocks - 1 |-> BlockOf(Erased)]]

ram_block_store_read(dev, client, handle, lba, offset, buffer_size) ==
    LET status == DeviceStatus(dev, client, handle, lba, offset)
    IN  IF status # "SUCCESS" THEN Refuse(dev, status)
        ELSE StoreAnswer(dev, status, BytesOf(dev.ram_back_store[lba], offset, Least(buffer_size, BlockSize - offset)))

ram_block_store_write(dev, client, handle, lba, offset, data) ==
    LET status == DeviceStatus(dev, client, handle, lba, offset)
    IN  IF status # "SUCCESS" THEN Refuse(dev, status)
        ELSE StoreAnswer([dev EXCEPT !.ram_back_store[lba] = Overwritten(@, offset, data)],
                         status, Least(Len(data), BlockSize - offset))

ram_block_store_erase(dev, client, handle, begin_lba, num_blocks) ==
    LET status == DeviceStatus(dev, client, handle, begin_lba, 0)
        blocks_to_erase == storage_partition_clip_num_blocks(dev.partition, begin_lba, num_blocks)
    IN  IF status # "SUCCESS" THEN Refuse(dev, status)
        ELSE StoreAnswer([dev EXCEPT !.ram_back_store =
                            [lba \in DOMAIN @ |-> IF lba \in begin_lba .. begin_lba + blocks_to_erase - 1
                                                  THEN BlockOf(Erased) ELSE @[lba]]], status, 0)
==============================================================================
