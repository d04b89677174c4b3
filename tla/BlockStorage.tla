---------------------------- MODULE BlockStorage ----------------------------
(***************************************************************************)
(* The block storage service with the volumes of its clients: the          *)
(* factories that build the stack of block stores (components/service/     *)
(* block_storage/factory: ref_encrypt_ram, ref_ram_gpt, rpmb), the disk    *)
(* formatter (components/media/disk/formatter) and block volumes           *)
(* (components/media/volume/block_volume/block_volume.c).                  *)
(*                                                                         *)
(* Every call of the service is a step.  The operations of a volume that   *)
(* make several calls are jobs, which the calls of other clients and the   *)
(* loss of power come between.                                             *)
(***************************************************************************)
EXTENDS BlockStorageClient

CONSTANTS
    Kinds,          \* the kinds of back stores
    Volumes, ClientOf, GuidOf,
    Image,          \* a byte of the disk image
    WritesOf,       \* the buffers that are written to a volume
    ReadLengths,
    UINT32_MAX,
    SeekTo,
    MaxBoots, MaxCalls      \* bounds: starts of the service, by kind; operations of volumes other than open

VARIABLES
    phase,      \* "off", "format" while the disk image is cloned, "up"
    next,       \* the block of the image that is cloned next
    store,      \* the stack of block stores; of its back store an RPMB device outlives the power
    vol,        \* the block_volume structures
    job,        \* the operation each volume is in
    expect,     \* what may be on the disk after the writes so far: a set of bytes by position
    owner,      \* the first client that has opened each partition
    boots, calls

vars == <<phase, next, store, vol, job, expect, owner, boots, calls>>

Positions == 0 .. NumBlocks * BlockSize - 1

NoOne == "no one"

Idle == [op |-> "none", from |-> 0, done |-> 0, data |-> <<>>, length |-> 0]

block_volume_init == [opened |-> FALSE, file_pos |-> 0, size |-> 0, partition_handle |-> 0]

\* A stack that is not built yet.
Unbuilt(kind, rpmb) ==
    partitioned_block_store_init(IF kind = "rpmb" THEN rpmb_frontend_create(rpmb)
                                 ELSE IF kind = "ram" THEN ram_block_store_init ELSE encrypted_block_store_init)

Media == IF store.back.kind = "rpmb" THEN store.back.rpmb ELSE rpmb_backend_emulated_init

\* The service as it is without power, with these media.
Down(media) ==
    /\ phase' = "off" /\ next' = 0
    /\ store' = Unbuilt(store.back.kind, media)
    /\ vol' = [v \in Volumes |-> block_volume_init]
    /\ job' = [v \in Volumes |-> Idle]
    /\ expect' = [p \in Positions |-> {}]
    /\ owner' = [g \in DOMAIN PartitionTable |-> NoOne]

Init ==
    /\ phase = "off" /\ next = 0
    /\ \E kind \in Kinds : store = Unbuilt(kind, rpmb_backend_emulated_init)
    /\ vol = [v \in Volumes |-> block_volume_init]
    /\ job = [v \in Volumes |-> Idle]
    /\ expect = [p \in Positions |-> {}]
    /\ owner = [g \in DOMAIN PartitionTable |-> NoOne]
    /\ boots = 0 /\ calls = 0

-----------------------------------------------------------------------------
\* The back store, opened by the local client.
Opened(back) == [back EXCEPT !.partition.acl = storage_partition_acl_authorize(@, LocalClient)]

\* The service goes up with the store, whose disk holds this byte everywhere.
Up(built, byte) ==
    /\ phase' = "up"
    /\ store' = built
    /\ expect' = [p \in Positions |-> {byte}]

ref_encrypt_ram_block_store_factory_create ==
    /\ phase = "off" /\ boots < MaxBoots[store.back.kind] /\ store.back.kind = "encrypted"
    /\ boots' = boots + 1
    /\ Up(ref_partition_configure([store EXCEPT !.back = Opened(@)]), Junk)
    /\ UNCHANGED <<next, vol, job, owner, calls>>

\* The beginning of the factory, up to the disk formatter.
ref_ram_gpt_block_store_factory_create ==
    /\ phase = "off" /\ boots < MaxBoots[store.back.kind] /\ store.back.kind = "ram"
    /\ boots' = boots + 1
    /\ phase' = "format"
    /\ store' = [store EXCEPT !.back = Opened(@)]
    /\ UNCHANGED <<next, vol, job, expect, owner, calls>>

rpmb_block_store_factory_create ==
    /\ phase = "off" /\ boots < MaxBoots[store.back.kind] /\ store.back.kind = "rpmb"
    /\ boots' = boots + 1
    /\ \E a \in rpmb_frontend_init(store.back) :
        IF a.status = "SUCCESS"
        THEN phase' = "format" /\ store' = [store EXCEPT !.back = Opened(a.dev)]
        ELSE phase' = "off" /\ store' = Unbuilt("rpmb", a.dev.rpmb)
    /\ UNCHANGED <<next, vol, job, expect, owner, calls>>

\* One block of the image; a factory that fails takes down what it has built.
disk_formatter_clone ==
    /\ phase = "format" /\ next < NumBlocks
    /\ \E a \in back_store_write(store.back, 0, next, 0, [i \in 1 .. BlockSize |-> Image]) :
        IF a.status = "SUCCESS"
        THEN /\ store' = [store EXCEPT !.back = a.store]
             /\ next' = next + 1
             /\ UNCHANGED <<phase, vol, job, expect, owner>>
        ELSE Down(a.store.rpmb)
    /\ UNCHANGED <<boots, calls>>

\* The end of the factory.  The partition table is read from the disk, which an RPMB device may refuse.
Configure ==
    /\ phase = "format" /\ next = NumBlocks
    /\ \/ /\ Up(gpt_partition_configure(store), Image)
          /\ next' = 0
          /\ UNCHANGED <<vol, job, owner>>
       \/ store.back.kind = "rpmb" /\ Down(Media)
    /\ UNCHANGED <<boots, calls>>

PowerOff == phase # "off" /\ Down(Media) /\ UNCHANGED <<boots, calls>>

-----------------------------------------------------------------------------
\* The place of a volume's partition on the disk.
Base(v) == PartitionTable[GuidOf[v]].start

Extent(v) == Base(v) .. Base(v) + PartitionTable[GuidOf[v]].length - 1

Ready(v) == phase = "up" /\ job[v].op = "none"

\* block_volume_open asks for the partition's size, and then opens it.
block_volume_open(v) ==
    /\ Ready(v) /\ ~vol[v].opened
    /\ \E a \in block_storage_client_get_partition_info(store, GuidOf[v]) :
        /\ store' = a.store
        /\ IF a.status = "SUCCESS"
           THEN /\ vol' = [vol EXCEPT ![v].file_pos = 0, ![v].size = BlockSize * a.out]
                /\ job' = [job EXCEPT ![v].op = "open"]
           ELSE UNCHANGED <<vol, job>>
    /\ UNCHANGED <<phase, next, expect, owner, boots, calls>>

OpenStep(v) ==
    /\ job[v].op = "open"
    /\ \E a \in block_storage_client_open(store, ClientOf[v], GuidOf[v]) :
        /\ store' = a.store
        /\ vol' = IF a.status = "SUCCESS" THEN [vol EXCEPT ![v].opened = TRUE, ![v].partition_handle = a.out] ELSE vol
        /\ owner' = IF a.store # store /\ owner[GuidOf[v]] = NoOne THEN [owner EXCEPT ![GuidOf[v]] = ClientOf[v]] ELSE owner
        /\ job' = [job EXCEPT ![v] = Idle]
    /\ UNCHANGED <<phase, next, expect, boots, calls>>

\* The entity is gone whether or not the close succeeds.
block_volume_close(v) ==
    /\ Ready(v) /\ vol[v].opened /\ calls < MaxCalls
    /\ calls' = calls + 1
    /\ \E a \in block_storage_client_close(store, ClientOf[v], vol[v].partition_handle) :
        vol' = IF a.status = "SUCCESS" THEN [vol EXCEPT ![v].opened = FALSE, ![v].file_pos = 0, ![v].size = 0]
               ELSE [vol EXCEPT ![v].opened = FALSE]
    /\ UNCHANGED <<phase, next, store, job, expect, owner, boots>>

block_volume_seek(v, offset) ==
    /\ Ready(v) /\ vol[v].opened /\ calls < MaxCalls /\ offset <= vol[v].size
    /\ calls' = calls + 1
    /\ vol' = [vol EXCEPT ![v].file_pos = offset]
    /\ UNCHANGED <<phase, next, store, job, expect, owner, boots>>

\* The beginnings of block_volume_read and block_volume_write.
block_volume_read(v, length) ==
    /\ Ready(v) /\ vol[v].opened /\ calls < MaxCalls
    /\ calls' = calls + 1
    /\ job' = [job EXCEPT ![v] = [Idle EXCEPT !.op = "read", !.from = vol[v].file_pos, !.length = length]]
    /\ UNCHANGED <<phase, next, store, vol, expect, owner, boots>>

block_volume_write(v, buffer) ==
    /\ Ready(v) /\ vol[v].opened /\ calls < MaxCalls
    /\ calls' = calls + 1
    /\ job' = [job EXCEPT ![v] = [Idle EXCEPT !.op = "write", !.from = vol[v].file_pos, !.data = buffer, !.length = Len(buffer)]]
    /\ UNCHANGED <<phase, next, store, vol, expect, owner, boots>>

-----------------------------------------------------------------------------
\* The rounds of the loops.
Looping(v) == job[v].done < job[v].length /\ vol[v].file_pos < vol[v].size

RequestedLen(v) ==
    Least(Least(job[v].length - job[v].done, vol[v].size - vol[v].file_pos), BlockSize - (vol[v].file_pos % BlockSize))

ReadStep(v) ==
    /\ job[v].op = "read"
    /\ IF ~Looping(v) THEN job' = [job EXCEPT ![v] = Idle] /\ UNCHANGED <<store, vol>>
       ELSE \E a \in block_storage_client_read(store, ClientOf[v], vol[v].partition_handle,
                        vol[v].file_pos \div BlockSize, vol[v].file_pos % BlockSize, RequestedLen(v)) :
            /\ store' = a.store
            /\ IF a.status # "SUCCESS" THEN job' = [job EXCEPT ![v] = Idle] /\ UNCHANGED vol
               ELSE /\ job' = [job EXCEPT ![v].done = @ + Len(a.out), ![v].data = @ \o a.out]
                    /\ vol' = [vol EXCEPT ![v].file_pos = @ + Len(a.out)]
    /\ UNCHANGED <<phase, next, expect, owner, boots, calls>>

\* What may be on the disk after a write of `bytes' at file_pos, which is sure to have happened or not.
Possible(v, bytes, sure) ==
    [p \in Positions |->
        LET i == p - (Base(v) + vol[v].file_pos) + 1
        IN  IF i \in DOMAIN bytes THEN {bytes[i]} \cup (IF sure THEN {} ELSE expect[p]) ELSE expect[p]]

WriteStep(v) ==
    LET bytes == SubSeq(job[v].data, job[v].done + 1, job[v].done + RequestedLen(v))
    IN  /\ job[v].op = "write"
        /\ IF ~Looping(v) THEN job' = [job EXCEPT ![v] = Idle] /\ UNCHANGED <<store, vol, expect>>
           ELSE \E a \in block_storage_client_write(store, ClientOf[v], vol[v].partition_handle,
                            vol[v].file_pos \div BlockSize, vol[v].file_pos % BlockSize, bytes) :
                /\ store' = a.store
                /\ IF a.status # "SUCCESS"
                   THEN /\ job' = [job EXCEPT ![v] = Idle]
                        /\ expect' = Possible(v, bytes, FALSE)
                        /\ UNCHANGED vol
                   ELSE /\ job' = [job EXCEPT ![v].done = @ + a.out]
                        /\ vol' = [vol EXCEPT ![v].file_pos = @ + a.out]
                        /\ expect' = Possible(v, SubSeq(bytes, 1, a.out), TRUE)
        /\ UNCHANGED <<phase, next, owner, boots, calls>>

\* What a position of the disk holds once it is erased: an RPMB device does not erase.
ErasedAt(p) ==
    IF store.back.kind = "rpmb" THEN expect[p] ELSE IF store.back.kind = "ram" THEN {Erased} ELSE {Junk}

block_volume_erase(v) ==
    /\ Ready(v) /\ vol[v].opened /\ calls < MaxCalls
    /\ calls' = calls + 1
    /\ \E a \in block_storage_client_erase(store, ClientOf[v], vol[v].partition_handle, 0, UINT32_MAX) :
        /\ store' = a.store
        /\ expect' = [p \in Positions |-> IF p \notin Extent(v) THEN expect[p]
                                          ELSE ErasedAt(p) \cup (IF a.status = "SUCCESS" THEN {} ELSE expect[p])]
    /\ UNCHANGED <<phase, next, vol, job, owner, boots>>

-----------------------------------------------------------------------------
VolumeStep(v) == OpenStep(v) \/ ReadStep(v) \/ WriteStep(v)

VolumeCall(v) ==
    \/ block_volume_open(v) \/ block_volume_close(v) \/ block_volume_erase(v)
    \/ \E offset \in SeekTo : block_volume_seek(v, offset)
    \/ \E length \in ReadLengths : block_volume_read(v, length)
    \/ \E buffer \in WritesOf[v] : block_volume_write(v, buffer)

Factory ==
    \/ ref_encrypt_ram_block_store_factory_create \/ ref_ram_gpt_block_store_factory_create
    \/ rpmb_block_store_factory_create \/ disk_formatter_clone \/ Configure

Next == Factory \/ PowerOff \/ \E v \in Volumes : VolumeCall(v) \/ VolumeStep(v)

Spec == Init /\ [][Next]_vars

-----------------------------------------------------------------------------
TypeOK ==
    /\ phase \in {"off", "format", "up"}
    /\ next \in 0 .. NumBlocks
    /\ Len(store.partitions) <= PARTITIONED_BLOCK_STORE_MAX_PARTITIONS
    /\ \A v \in Volumes :
        /\ vol[v].size \in {0, PartitionTable[GuidOf[v]].length}
        /\ vol[v].opened => vol[v].file_pos <= vol[v].size
        /\ job[v].op \in {"none", "open", "read", "write"} /\ job[v].done <= job[v].length
    /\ boots \in 0 .. MaxBoots[store.back.kind] /\ calls \in 0 .. MaxCalls

\* The plain contents of a position of the disk.
OnDisk(p) ==
    LET back == store.back
        lba == p \div BlockSize
    IN  (IF back.kind = "rpmb" THEN back.rpmb.buffer[lba]
         ELSE IF back.kind = "ram" THEN back.ram_back_store[lba]
         ELSE decrypt_block(lba, BytesOf(back.ram_back_store[lba], 0, BlockSize)))[p % BlockSize]

(* The disk holds what was last written to each place, through whichever   *)
(* volume: a write that fails has happened or not, byte by byte, and a     *)
(* write, a partial one or an erasure never touches the bytes next to it   *)
(* in the block, the neighbouring partition or the disk header             *)
(* (partitioned_block_store.c, clipping and base_lba; the read-modify-     *)
(* write of encrypted_block_store.c and rpmb_block_store.c).               *)
ContentsExpected == phase = "up" => \A p \in Positions : OnDisk(p) \in expect[p]

(* The bytes that block_volume_read has put into the buffer so far are     *)
(* those of the volume from the position at which the read began,          *)
(* whatever calls of other clients and failures come between the blocks.   *)
ReadsExpected ==
    \A v \in Volumes : job[v].op = "read" =>
        /\ \A i \in DOMAIN job[v].data : job[v].data[i] \in expect[Base(v) + job[v].from + i - 1]
        /\ vol[v].file_pos = job[v].from + Len(job[v].data)

(* Both: what is on the disk, and what a client has read of it, are the    *)
(* bytes that were written, through block_volume.c and all stores below.   *)
BytesExpected == ContentsExpected /\ ReadsExpected

(* A partition is with the client that opened it first, even if that       *)
(* client never saw the answer or has closed it: nobody else gets it open  *)
(* until the service starts again (storage_partition_acl_authorize).       *)
OneOwner == \A v \in Volumes : vol[v].opened => owner[GuidOf[v]] = ClientOf[v]

OnRpmb == store.back.kind = "rpmb" /\ store.back.front.initialized

(* The write counter of the frontend is the one of the device, or one      *)
(* behind it after a write whose answer was lost, and never ahead          *)
(* (rpmb_frontend_write takes the counter of a verified answer only).      *)
CounterFollows ==
    OnRpmb => store.back.rpmb.write_counter - store.back.front.write_counter \in {0, 1}

(* Once an answer to a write is lost, the frontend changes nothing on the  *)
(* device any more until it is initialized again: it signs every write     *)
(* with a counter that check_write_request refuses.                        *)
StaleWritesNothing ==
    [][OnRpmb /\ store.back.rpmb.write_counter # store.back.front.write_counter
        => store'.back.kind = "rpmb" /\ store'.back.rpmb.buffer = store.back.rpmb.buffer]_vars

(* Every round of the loops of block_volume_read and block_volume_write    *)
(* moves at least one byte, and no more than was asked for, or it fails    *)
(* and ends the loop: nothing else keeps them from going round for ever.   *)
RoundsMove ==
    \A v \in Volumes :
        LET lba == vol[v].file_pos \div BlockSize
            offset == vol[v].file_pos % BlockSize
            Moved(n) == n \in 1 .. RequestedLen(v)
            bytes == SubSeq(job[v].data, job[v].done + 1, job[v].done + RequestedLen(v))
        IN  Looping(v) =>
            /\ job[v].op = "read" =>
                \A a \in read_handler(store, ClientOf[v], vol[v].partition_handle, lba, offset, RequestedLen(v)) :
                    a.status = "SUCCESS" => Moved(Len(a.out))
            /\ job[v].op = "write" =>
                \A a \in write_handler(store, ClientOf[v], vol[v].partition_handle, lba, offset, bytes) :
                    a.status = "SUCCESS" => Moved(a.out)
=============================================================================
