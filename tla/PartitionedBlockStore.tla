------------------------ MODULE PartitionedBlockStore ------------------------
(***************************************************************************)
(* The partitioned block store (components/service/block_storage/          *)
(* block_store/partitioned/partitioned_block_store.c), its configuration   *)
(* from the reference partitions and from the GPT (components/service/     *)
(* block_storage/config), over each kind of back store.                    *)
(*                                                                         *)
(* A store is [back, config_listener, partitions]; partition i has the     *)
(* handle i - 1.                                                           *)
(***************************************************************************)
EXTENDS RpmbFrontend, EncryptedBlockStore

CONSTANTS
    PARTITIONED_BLOCK_STORE_MAX_PARTITIONS,
    DISK_HEADER,        \* DISK_GUID_UNIQUE_PARTITION_DISK_HEADER
    HeaderBlocks,       \* num_header_blocks
    LocalClient,        \* local_client_id
    Guids,              \* the partitions of the reference configuration, of which there are two
    PartitionTable      \* the loaded GPT: [start, length] in bytes, by GUID

back_store_read(back, handle, lba, offset, len) ==
    IF back.kind = "ram" THEN ram_block_store_read(back, LocalClient, handle, lba, offset, len)
    ELSE IF back.kind = "rpmb" THEN rpmb_block_store_read(back, LocalClient, handle, lba, offset, len)
    ELSE encrypted_block_store_read(back, LocalClient, handle, lba, offset, len)

back_store_write(back, handle, lba, offset, data) ==
    IF back.kind = "ram" THEN ram_block_store_write(back, LocalClient, handle, lba, offset, data)
    ELSE IF back.kind = "rpmb" THEN rpmb_block_store_write(back, LocalClient, handle, lba, offset, data)
    ELSE encrypted_block_store_write(back, LocalClient, handle, lba, offset, data)

back_store_erase(back, handle, begin_lba, num_blocks) ==
    IF back.kind = "ram" THEN ram_block_store_erase(back, LocalClient, handle, begin_lba, num_blocks)
    ELSE IF back.kind = "rpmb" THEN rpmb_block_store_erase(back, LocalClient, handle, begin_lba, num_blocks)
    ELSE encrypted_block_store_erase(back, LocalClient, handle, begin_lba, num_blocks)

\* The answers of the back store, as answers of the store.
Stacked(store, answers) == {[a EXCEPT !.store = [store EXCEPT !.back = a.store]] : a \in answers}

-----------------------------------------------------------------------------
\* Whether the partition is added shows in the number of partitions.
partitioned_block_store_add_partition(store, guid, starting_lba, ending_lba) ==
    IF \/ Len(store.partitions) >= PARTITIONED_BLOCK_STORE_MAX_PARTITIONS
       \/ starting_lba > ending_lba
       \/ ending_lba >= NumBlocks
    THEN store
    ELSE [store EXCEPT !.partitions =
            Append(@, [storage_partition_init(guid, ending_lba - starting_lba + 1) EXCEPT !.base_lba = starting_lba])]

\* The partition of a GUID of the table, added.
gpt_partition_config_listener(store, guid) ==
    LET entry == PartitionTable[guid]
        starting_lba == entry.start \div BlockSize
        ending_lba == starting_lba + (entry.length \div BlockSize) - 1
    IN  IF guid \in DOMAIN PartitionTable /\ entry.length >= BlockSize /\ entry.length % BlockSize = 0
        THEN partitioned_block_store_add_partition(store, guid, starting_lba, ending_lba)
        ELSE store

ref_partition_configure(store) ==
    LET first == gpt_partition_config_listener(store, Guids[1])
    IN  IF first = store THEN store ELSE gpt_partition_config_listener(first, Guids[2])

add_disk_header_partition(store) ==
    IF HeaderBlocks > 0 /\ HeaderBlocks <= NumBlocks
    THEN partitioned_block_store_add_partition(store, DISK_HEADER, 0, HeaderBlocks - 1)
    ELSE store

gpt_partition_configure(store) ==
    LET added == add_disk_header_partition(store)
    IN  IF added # store THEN [added EXCEPT !.config_listener = TRUE] ELSE store

\* The back store is open; block_device_open has let the local client in.
partitioned_block_store_init(back) == [back |-> back, config_listener |-> FALSE, partitions |-> <<>>]

-----------------------------------------------------------------------------
\* The indices of the partitions with the GUID; the first one is taken.
Matching(store, guid) == {i \in DOMAIN store.partitions : store.partitions[i].guid = guid}

\* The store after the search, which a listener may extend.
find_by_partition_guid(store, guid) ==
    IF Matching(store, guid) = {} /\ store.config_listener THEN gpt_partition_config_listener(store, guid) ELSE store

FirstMatching(store, guid) == CHOOSE i \in Matching(store, guid) : \A j \in Matching(store, guid) : i <= j

partitioned_block_store_get_partition_info(store, guid) ==
    LET found == find_by_partition_guid(store, guid)
    IN  IF Matching(found, guid) = {} THEN Refuse(found, "INVALID_ARGUMENT")
        ELSE StoreAnswer(found, "SUCCESS", found.partitions[FirstMatching(found, guid)].num_blocks)

partitioned_block_store_open(store, client, guid) ==
    LET found == find_by_partition_guid(store, guid)
        index == FirstMatching(found, guid)
    IN  IF Matching(found, guid) = {} THEN Refuse(found, "INVALID_ARGUMENT")
        ELSE IF ~storage_partition_is_open_permitted(found.partitions[index], client) THEN Refuse(found, "NOT_PERMITTED")
        ELSE StoreAnswer([found EXCEPT !.partitions[index].acl = storage_partition_acl_authorize(@, client)],
                         "SUCCESS", index - 1)

\* A partition that has not been added has no one in its list.
validate_partition_request(store, client, handle) ==
    IF handle >= PARTITIONED_BLOCK_STORE_MAX_PARTITIONS THEN "INVALID_ARGUMENT"
    ELSE IF handle < Len(store.partitions) /\ storage_partition_is_access_permitted(store.partitions[handle + 1], client)
    THEN "SUCCESS" ELSE "NOT_PERMITTED"

\* What read, write and erase check first.
RequestStatus(store, client, handle, lba) ==
    LET status == validate_partition_request(store, client, handle)
    IN  IF status = "SUCCESS" /\ ~storage_partition_is_lba_legal(store.partitions[handle + 1], lba)
        THEN "INVALID_ARGUMENT" ELSE status

partitioned_block_store_close(store, client, handle) ==
    StoreAnswer(store, validate_partition_request(store, client, handle), 0)

partitioned_block_store_read(store, client, handle, lba, offset, len) ==
    LET status == RequestStatus(store, client, handle, lba)
        partition == store.partitions[handle + 1]
        clipped_read_len == storage_partition_clip_length(partition, lba, offset, len)
    IN  IF status # "SUCCESS" THEN Refuse(store, status)
        ELSE Stacked(store, back_store_read(store.back, 0, partition.base_lba + lba, offset, clipped_read_len))

partitioned_block_store_write(store, client, handle, lba, offset, data) ==
    LET status == RequestStatus(store, client, handle, lba)
        partition == store.partitions[handle + 1]
        clipped_data_len == storage_partition_clip_length(partition, lba, offset, Len(data))
    IN  IF status # "SUCCESS" THEN Refuse(store, status)
        ELSE Stacked(store, back_store_write(store.back, 0, partition.base_lba + lba, offset,
                                             SubSeq(data, 1, clipped_data_len)))

partitioned_block_store_erase(store, client, handle, begin_lba, num_blocks) ==
    LET status == RequestStatus(store, client, handle, begin_lba)
        partition == store.partitions[handle + 1]
        clipped_num_blocks == storage_partition_clip_num_blocks(partition, begin_lba, num_blocks)
    IN  IF status # "SUCCESS" THEN Refuse(store, status)
        ELSE Stacked(store, back_store_erase(store.back, 0, partition.base_lba + begin_lba, clipped_num_blocks))
==============================================================================
