------------------------- MODULE BlockStorageClient -------------------------
(***************************************************************************)
(* The provider of the block storage service (components/service/          *)
(* block_storage/provider/block_storage_provider.c) and the client of it   *)
(* (block_store/client/block_storage_client.c), a block store for volumes  *)
(* of other partitions.                                                    *)
(*                                                                         *)
(* A call may fail before the request is delivered, or after it has been   *)
(* carried out; the client cannot tell one from the other.                 *)
(***************************************************************************)
EXTENDS PartitionedBlockStore

\* Both sides know the serialization, and buffers are as long as the messages.
get_partition_info_handler(store, guid) == partitioned_block_store_get_partition_info(store, guid)

open_handler(store, source_id, guid) == partitioned_block_store_open(store, source_id, guid)

close_handler(store, source_id, handle) == partitioned_block_store_close(store, source_id, handle)

read_handler(store, source_id, handle, lba, offset, len) ==
    partitioned_block_store_read(store, source_id, handle, lba, offset, len)

write_handler(store, source_id, handle, lba, offset, data) ==
    partitioned_block_store_write(store, source_id, handle, lba, offset, data)

erase_handler(store, source_id, handle, begin_lba, num_blocks) ==
    partitioned_block_store_erase(store, source_id, handle, begin_lba, num_blocks)

-----------------------------------------------------------------------------
\* What a caller may see of a call with these answers.
Called(store, answers) ==
    answers \cup Refuse(store, "GENERIC_ERROR") \cup UNION {Refuse(a.store, "GENERIC_ERROR") : a \in answers}

block_storage_client_get_partition_info(store, guid) == Called(store, get_partition_info_handler(store, guid))

block_storage_client_open(store, client, guid) == Called(store, open_handler(store, client, guid))

block_storage_client_close(store, client, handle) == Called(store, close_handler(store, client, handle))

block_storage_client_read(store, client, handle, lba, offset, buffer_size) ==
    Called(store, read_handler(store, client, handle, lba, offset, buffer_size))

block_storage_client_write(store, client, handle, lba, offset, data) ==
    Called(store, write_handler(store, client, handle, lba, offset, data))

block_storage_client_erase(store, client, handle, begin_lba, num_blocks) ==
    Called(store, erase_handler(store, client, handle, begin_lba, num_blocks))
=============================================================================
