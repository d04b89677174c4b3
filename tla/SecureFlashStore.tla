-------------------------- MODULE SecureFlashStore --------------------------
(***************************************************************************)
(* The secure flash store (components/service/secure_storage/backend/      *)
(* secure_flash_store/secure_flash_store.c), the storage backend of the    *)
(* storage service providers, on its flash file system.  It is called by   *)
(* one thread; the power may fail during any operation of the device.      *)
(***************************************************************************)
EXTENDS SfsFlashFs

CONSTANTS
    Devices,            \* the devices: [num_blocks, meta_units, erases, asset_size, faults]
    Fids,               \* client and uid, in the form of sfs_get_fid
    Sizes, Capacities, Lengths, FlagSets, Absent,     \* see ObjectStore
    RestartAfterError   \* whether the service is restarted when the device has reported an error

ASSUME DevicesAssumption ==
    /\ \A d \in Devices : /\ d.num_blocks \in Nat /\ (d.num_blocks = 2 \/ d.num_blocks > 3)
                          /\ d.meta_units \in 0 .. DataUnits
                          /\ d.erases \in BOOLEAN /\ d.faults \in Nat
                          /\ d.asset_size \in Nat \ {0}   \* sizeof(asset_data)
    /\ Sizes \subseteq Nat /\ Capacities \subseteq Nat /\ Lengths \subseteq Nat /\ RestartAfterError \in BOOLEAN

VARIABLES
    power,      \* "off", "up", or "error": the device has reported one
    dev,        \* the device, which does not change
    flash,      \* its blocks
    ctx,        \* fs_ctx_sfs
    faults,     \* the errors that the device may still report
    promised    \* what clients may rely on: the objects

vars == <<power, dev, flash, ctx, faults, promised>>

BootCtx == [active |-> 0, scratch |-> 0, count |-> 0, dblock |-> 0]

State == [dev |-> dev, flash |-> flash, ctx |-> ctx, faults |-> faults]

Data(fid, offset, size) == [u \in 1 .. size |-> <<fid, offset + u>>]

WriteOnce(s, fid) == "WRITE_ONCE" \in file_get_info(s, fid).flags

------------------------------------------------------------------------------
(***************************************************************************)
(* The calls.                                                              *)
(***************************************************************************)
\* The remaining pieces; if one cannot be written the file is deleted.
write_piece(s, fid, offset, units) ==
    UNION {IF o.status # "error" THEN {o}
           ELSE {IF d.status = "ok" THEN Outcome(d.s, "error") ELSE d : d \in file_delete(o.s, fid)}
             : o \in file_write(s, fid, offset, units)}

sfs_set(s, fid, data, flags) ==
    LET n == s.dev.asset_size
        Piece(k) == SubSeq(data, k * n + 1, IF (k + 1) * n < Len(data) THEN (k + 1) * n ELSE Len(data))
        more == [k \in 1 .. (IF data = <<>> THEN 0 ELSE (Len(data) - 1) \div n) |-> k]
        Create(t) == file_create(t, fid, Len(data), Piece(0), flags)
        New(t) == ForEach(Create(t), more, LAMBDA u, k : write_piece(u, fid, k * n, Piece(k)))
    IN  IF ~file_exist(s, fid) THEN New(s)
        ELSE IF WriteOnce(s, fid) THEN Error(s)
        ELSE Then(file_delete(s, fid), New)

sfs_get_info(s, fid) == LET fm == file_get_info(s, fid) IN [size |-> fm.cur, capacity |-> fm.max, flags |-> fm.flags]

\* The whole of the object, read in pieces.
sfs_get(s, fid) ==
    LET size == sfs_get_info(s, fid).size
        n == s.dev.asset_size
        Piece(k) == file_read(s, fid, k * n, IF (k + 1) * n < size THEN n ELSE size - k * n)
    IN  FoldLeft(LAMBDA read, k : read \o Piece(k), <<>>, [k \in 1 .. (size + n - 1) \div n |-> k - 1])

sfs_remove(s, fid) ==
    IF ~file_exist(s, fid) \/ WriteOnce(s, fid) THEN Error(s) ELSE file_delete(s, fid)

sfs_create(s, fid, capacity, flags) ==
    IF "WRITE_ONCE" \in flags \/ file_exist(s, fid) THEN Error(s)
    ELSE file_create(s, fid, capacity, <<>>, flags)

sfs_set_extended(s, fid, offset, data) ==
    LET info == sfs_get_info(s, fid)
    IN  IF \/ ~file_exist(s, fid)
           \/ WriteOnce(s, fid)
           \/ s.dev.asset_size < Len(data)
           \/ info.capacity < offset + Len(data)
           \/ info.size < offset
        THEN Error(s)
        ELSE file_write(s, fid, offset, data)

\* The flash layout is created if there is none.
sfs_init(s) ==
    UNION {IF o.status = "error" THEN Then(reset_metablock(o.s), mblock_init) ELSE {o} : o \in mblock_init(s)}

------------------------------------------------------------------------------
\* The objects that a start would find on flash f.
Stored(f) ==
    LET p == sfs_init_get_active_metablock(f)
        s == [dev |-> dev, flash |-> f, ctx |-> [BootCtx EXCEPT !.active = p], faults |-> 0]
    IN  [fid \in Fids |-> IF p = NONE \/ ~file_exist(s, fid) THEN Absent
                          ELSE [data |-> sfs_get(s, fid), capacity |-> sfs_get_info(s, fid).capacity, flags |-> sfs_get_info(s, fid).flags]]

Init ==
    /\ power = "off"
    /\ dev \in Devices
    /\ flash = [p \in Blocks(dev) |-> BlankBlock(dev, p, LBlocks(dev))]
    /\ ctx = BootCtx
    /\ faults = dev.faults
    /\ promised = [fid \in Fids |-> Absent]

\* A call ends with outcome o; the objects promised are those it made if it was successful.
Ends(o, made) ==
    /\ flash' = o.s.flash
    /\ faults' = o.s.faults
    /\ ctx' = IF o.status = "cut" THEN BootCtx ELSE o.s.ctx
    /\ power' = CASE o.status = "cut" -> "off"
                  [] o.status = "error" /\ o.s.faults < faults -> "error"
                  [] OTHER -> power
    /\ promised' = IF o.status = "ok" THEN made ELSE Stored(o.s.flash)
    /\ UNCHANGED dev

CanCall == power = "up" \/ (power = "error" /\ ~RestartAfterError)

Made(fid, object) == [promised EXCEPT ![fid] = object]

Start ==
    /\ power = "off"
    /\ \E o \in sfs_init([State EXCEPT !.faults = 0]) :
        /\ o.status # "error"
        /\ power' = IF o.status = "ok" THEN "up" ELSE "off"
        /\ flash' = o.s.flash
        /\ ctx' = IF o.status = "ok" THEN o.s.ctx ELSE BootCtx
        /\ UNCHANGED <<dev, faults, promised>>

PowerFailure ==
    /\ power # "off"
    /\ power' = "off" /\ ctx' = BootCtx
    /\ UNCHANGED <<dev, flash, faults, promised>>

Set(fid) ==
    /\ CanCall
    /\ \E n \in Sizes, flags \in FlagSets :
        \E o \in sfs_set(State, fid, Data(fid, 0, n), flags) :
            Ends(o, Made(fid, [data |-> Data(fid, 0, n), capacity |-> n, flags |-> flags]))

Create(fid) ==
    /\ CanCall
    /\ \E n \in Capacities, flags \in FlagSets :
        \E o \in sfs_create(State, fid, n, flags) :
            Ends(o, Made(fid, [data |-> <<>>, capacity |-> n, flags |-> flags]))

\* What is promised of the units behind the ones written is what is there.
SetExtended(fid) ==
    /\ CanCall
    /\ \E n, offset \in Lengths :
        \E o \in sfs_set_extended(State, fid, offset, Data(fid, offset, n)) :
            LET new == IF o.status = "ok" THEN Stored(o.s.flash)[fid] ELSE Absent
            IN  Ends(o, IF new = Absent THEN Made(fid, Absent)
                        ELSE Made(fid, [promised[fid] EXCEPT !.data =
                                 SubSeq(@, 1, offset) \o Data(fid, offset, n) \o SubSeq(new.data, offset + n + 1, Len(new.data))]))

RemoveObject(fid) ==
    /\ CanCall
    /\ \E o \in sfs_remove(State, fid) : Ends(o, Made(fid, Absent))

Next ==
    \/ Start
    \/ PowerFailure
    \/ \E fid \in Fids : Set(fid) \/ Create(fid) \/ SetExtended(fid) \/ RemoveObject(fid)

Spec == Init /\ [][Next]_vars

------------------------------------------------------------------------------
(***************************************************************************)
(* Properties.                                                             *)
(***************************************************************************)
Extents == [fid : Fids, lblock : LBlocks(dev), data_idx : 0 .. DataUnits, max : 0 .. DataUnits, cur : 0 .. DataUnits, flags : FlagSets]

\* The files of metadata block p, and the units of its logical blocks that are in use.
Files(p) == {i \in FileIndices : flash[p].file_meta[i] # NoFile}
Extent(fm) == fm.data_idx + 1 .. fm.data_idx + fm.max

\* The values that the variables may have; the metadata in use are always complete.
TypeOK ==
    /\ power \in {"off", "up", "error"}
    /\ faults \in 0 .. dev.faults
    /\ ctx.active \in Metablocks /\ ctx.scratch \in Metablocks
    /\ ctx.count \in Counts /\ ctx.dblock \in Blocks(dev)
    /\ power # "off" =>
         /\ \A l \in LBlocks(dev) : flash[ctx.active].block_meta[l] \in [phy : Blocks(dev), free : 0 .. UnitsOf(dev, l)]
         /\ \A i \in FileIndices : flash[ctx.active].file_meta[i] \in Extents \cup {NoFile}

(***************************************************************************)
(* A start now would choose the metadata block in use, with the same swap  *)
(* count and the same scratch data block: after any number of updates, of  *)
(* roll overs of the count, and of power failures.                         *)
(***************************************************************************)
RestartFindsTheSame ==
    power = "up" =>
        /\ sfs_init_get_active_metablock(flash) = ctx.active /\ ctx.scratch = OtherMeta(ctx.active)
        /\ flash[ctx.active].header = [count |-> ctx.count, dblock |-> ctx.dblock]

(***************************************************************************)
(* The extents of the files in a logical block follow each other without   *)
(* gaps or overlaps, and the rest of it is free, whatever was created,     *)
(* deleted and moved before; no two files have the same id.                *)
(***************************************************************************)
ExtentsTile ==
    power = "up" => LET meta == flash[ctx.active] IN
        /\ \A l \in LBlocks(dev) :
             LET files == {i \in Files(ctx.active) : meta.file_meta[i].lblock = l}
             IN  /\ \A i, j \in files : i # j => Extent(meta.file_meta[i]) \cap Extent(meta.file_meta[j]) = {}
                 /\ UNION {Extent(meta.file_meta[i]) : i \in files} = 1 .. Used(dev, l, meta.block_meta[l])
        /\ \A i, j \in Files(ctx.active) : meta.file_meta[i].fid = meta.file_meta[j].fid => i = j

(***************************************************************************)
(* No physical block serves two purposes: logical block 0 is in the active *)
(* metadata block as soon as it holds data, and the other logical blocks   *)
(* and the scratch data block are distinct data blocks, all of them in use.*)
(***************************************************************************)
BlocksHaveOnePurpose ==
    power = "up" =>
        LET Phy(l) == flash[ctx.active].block_meta[l].phy
            dedicated == LBlocks(dev) \ {0}
        IN  /\ Used(dev, 0, flash[ctx.active].block_meta[0]) > 0 => Phy(0) = ctx.active
            /\ dev.num_blocks > 2 => {Phy(l) : l \in dedicated} \cup {ctx.dblock} = Blocks(dev) \ Metablocks

(***************************************************************************)
(* Both: the layout of the flash that sfs_flash_fs_file_delete and the     *)
(* swaps of scratch blocks rearrange gives every file a place of its own.  *)
(***************************************************************************)
LayoutSound == ExtentsTile /\ BlocksHaveOnePurpose

(***************************************************************************)
(* On a device that erases, nothing is left of deleted or replaced data:   *)
(* what no file uses is erased, so that the next update programs erased    *)
(* flash only.                                                             *)
(***************************************************************************)
NoResidue ==
    power = "up" /\ dev.erases =>
        LET meta == flash[ctx.active]
        IN  /\ flash[ctx.scratch] = BlankBlock(dev, ctx.scratch, LBlocks(dev))
            /\ \A p \in Blocks(dev) : \A u \in 1 .. Units(dev, p) :
                 flash[p].data[u] # Erased =>
                     \E i \in Files(ctx.active) : LET fm == meta.file_meta[i]
                         IN  meta.block_meta[fm.lblock].phy = p /\ u \in Extent(fm)

(***************************************************************************)
(* Clients find what they may rely on: sfs_get and sfs_get_info of every   *)
(* object agree with the calls that succeeded, before and after restarts.  *)
(***************************************************************************)
ObjectsKept == Stored(flash) = promised

(***************************************************************************)
(* The store implements ObjectStore: a power failure or an error leaves    *)
(* the object of the call as it was, or with a part of the call's effect,  *)
(* and no other object is ever touched; write-once objects stay.           *)
(***************************************************************************)
Store == INSTANCE ObjectStore WITH objects <- promised
StoreImplemented == Store!Spec

(***************************************************************************)
(* What protected_storage.h says of psa_ps_set_extended: no change to the  *)
(* stored data but for the units that are written, so that a unit of an    *)
(* object that stays is never found erased.                                *)
(***************************************************************************)
ExtendedKeepsTheRest ==
    \A fid \in Fids : Stored(flash)[fid] # Absent => \A u \in DOMAIN Stored(flash)[fid].data : Stored(flash)[fid].data[u] # Erased
==============================================================================
