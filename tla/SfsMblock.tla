------------------------------ MODULE SfsMblock ------------------------------
(***************************************************************************)
(* The metadata blocks of the flash file system (flash_fs/                 *)
(* sfs_flash_fs_mblock.c), built without SFS_VALIDATE_METADATA_FROM_FLASH. *)
(*                                                                         *)
(* One metadata block is active.  An update builds the next one in the     *)
(* other block, the scratch block, and ends with its header, whose swap    *)
(* count makes it the latest.  Logical block 0 is the data part of the     *)
(* active metadata block; the others are data blocks, one of which is      *)
(* spare: the scratch data block named by the header.                      *)
(*                                                                         *)
(* s.ctx is the fs_ctx: the active and the scratch metadata block, and the *)
(* header in memory: swap count and scratch data block.                    *)
(***************************************************************************)
EXTENDS SfsFlash, SfsSwapCount

CONSTANTS
    NoFile,     \* a file metadata entry that is free
    NoFid       \* the file id of a free entry

NONE == -1      \* SFS_BLOCK_INVALID_ID, SFS_METADATA_INVALID_INDEX

sfs_init_scratch_dblock(dev) == IF dev.num_blocks = 2 THEN 1 ELSE 2

sfs_init_dblock_start(dev) == IF dev.num_blocks = 2 THEN 0 ELSE 3

sfs_num_dedicated_dblocks(dev) ==
    IF dev.num_blocks = 2 THEN 0 ELSE dev.num_blocks - sfs_init_dblock_start(dev)

\* The logical blocks: sfs_num_active_dblocks of them.
LBlocks(dev) == 0 .. sfs_num_dedicated_dblocks(dev)

\* The data units of logical block l.
UnitsOf(dev, l) == IF l = 0 THEN dev.meta_units ELSE DataUnits

OtherMeta(p) == 1 - p

sfs_mblock_swap_metablocks(s) ==
    [s EXCEPT !.ctx.active = s.ctx.scratch, !.ctx.scratch = s.ctx.active]

\* sfs_mblock_validate_header_meta: version and swap count are those of a finished update.
ValidHeaders(flash) == {p \in Metablocks : flash[p].header # Erased}

sfs_init_get_active_metablock(flash) ==
    CASE ValidHeaders(flash) = Metablocks -> sfs_mblock_latest_meta_block(flash[0].header.count, flash[1].header.count)
      [] ValidHeaders(flash) = {} -> NONE
      [] OTHER -> CHOOSE p \in ValidHeaders(flash) : TRUE

------------------------------------------------------------------------------
(***************************************************************************)
(* Reading the active metadata block.                                      *)
(***************************************************************************)
read_block_metadata(s, l) == s.flash[s.ctx.active].block_meta[l]

read_file_meta(s, i) == s.flash[s.ctx.active].file_meta[i]

FidAt(s, i) == LET meta == read_file_meta(s, i) IN IF meta \in {NoFile, Erased} THEN NoFid ELSE meta.fid

get_file_idx(s, fid) ==
    LET found == {i \in FileIndices : FidAt(s, i) = fid}
    IN  IF found = {} THEN NONE ELSE Min(found)

sfs_get_free_file_index(s) == get_file_idx(s, NoFid)

cur_data_scratch_id(s, l) == IF l = 0 THEN s.ctx.scratch ELSE s.ctx.dblock

set_data_scratch(s, p, l) == IF l = 0 THEN s ELSE [s EXCEPT !.ctx.dblock = p]

\* The first logical block with room for `size' units, and the first free entry.
reserve_file(s, size) ==
    LET fits == {l \in LBlocks(s.dev) : read_block_metadata(s, l).free >= size}
        index == sfs_get_free_file_index(s)
    IN  IF fits = {} \/ index = NONE THEN [lblock |-> NONE, index |-> NONE]
        ELSE [lblock |-> Min(fits), index |-> index]

------------------------------------------------------------------------------
(***************************************************************************)
(* Building the next metadata block in the scratch block.                  *)
(***************************************************************************)
copy_remaining_block_meta(s, l) ==
    LET last == sfs_num_dedicated_dblocks(s.dev)
        Copy(t, ls) == move_block_meta(t, t.ctx.scratch, t.ctx.active, ls)
        Lb0(t) == write_block_meta(t, t.ctx.scratch, 0, [read_block_metadata(t, 0) EXCEPT !.phy = t.ctx.scratch])
    IN  IF l = 0 THEN Copy(s, 1 .. last)
        ELSE Then(Then(Lb0(s), LAMBDA t : Copy(t, 1 .. l - 1)), LAMBDA t : Copy(t, l + 1 .. last))

\* Logical block 0 goes with the metadata block.
update_scratch_block_meta(s, l, meta) ==
    LET placed == IF l = 0 THEN [meta EXCEPT !.phy = s.ctx.scratch] ELSE meta
    IN  Then(write_block_meta(s, s.ctx.scratch, l, placed), LAMBDA t : copy_remaining_block_meta(t, l))

update_scratch_file_meta(s, i, meta) == write_file_meta(s, s.ctx.scratch, i, meta)

cp_remaining_file_meta(s, i) ==
    Then(move_file_meta(s, s.ctx.scratch, s.ctx.active, 0 .. i - 1),
         LAMBDA t : move_file_meta(t, t.ctx.scratch, t.ctx.active, i + 1 .. MAX_NUM_FILES - 1))

\* Mutant: as many units as logical block 0 has free.
migrate_lb0_data_to_scratch_Free(s) ==
    block_to_block_move(s, s.ctx.scratch, 0, s.ctx.active, 0, read_block_metadata(s, 0).free)

migrate_lb0_data_to_scratch(s) ==
    block_to_block_move(s, s.ctx.scratch, 0, s.ctx.active, 0, s.dev.meta_units - read_block_metadata(s, 0).free)

\* The count in memory is stepped before the header is written, and whether or not that works.
write_scratch_meta_header(s) ==
    LET t == [s EXCEPT !.ctx.count = NextCount(@)]
    IN  write_header(t, t.ctx.scratch, [count |-> t.ctx.count, dblock |-> t.ctx.dblock])

erase_scratch_blocks(s) ==
    Then(erase(s, s.ctx.scratch),
         LAMBDA t : IF t.dev.num_blocks > 2 THEN erase(t, t.ctx.dblock) ELSE {Outcome(t, "ok")})

\* Mutant: the blocks are erased before the new header is written.
meta_update_finalize_EraseFirst(s) ==
    Then(Then(erase(s, s.ctx.active), write_scratch_meta_header),
         LAMBDA t : erase_scratch_blocks(sfs_mblock_swap_metablocks(t)))

meta_update_finalize(s) ==
    Then(Then(write_scratch_meta_header(s), flush),
         LAMBDA t : erase_scratch_blocks(sfs_mblock_swap_metablocks(t)))

------------------------------------------------------------------------------
(***************************************************************************)
(* Start.                                                                  *)
(***************************************************************************)
mblock_init(s) ==
    LET p == sfs_init_get_active_metablock(s.flash)
    IN  IF p = NONE THEN {Outcome(s, "error")}
        ELSE LET h == s.flash[p].header
             IN  erase_scratch_blocks([s EXCEPT !.ctx = [active |-> p, scratch |-> OtherMeta(p), count |-> h.count, dblock |-> h.dblock]])

\* The tables of a store without files, written to metadata block 1.  (At start the device
\* reports no errors; if it did, erasing would go on with the other data blocks.)
reset_metablock(s) ==
    LET latest == sfs_init_get_active_metablock(s.flash)
        first == IF latest = NONE THEN 0 ELSE OtherMeta(latest)
        start == sfs_init_dblock_start(s.dev)
        ctx == [active |-> 0, scratch |-> 1, count |-> 0, dblock |-> sfs_init_scratch_dblock(s.dev)]
        Meta(l) == [phy |-> IF l = 0 THEN 0 ELSE start + l - 1, free |-> UnitsOf(s.dev, l)]
        dedicated == [l \in 1 .. sfs_num_dedicated_dblocks(s.dev) |-> l]
        entries == [i \in 1 .. MAX_NUM_FILES |-> i - 1]
        erased == Then(erase(s, first), LAMBDA t : erase(t, OtherMeta(first)))
        lb0 == Then(erased, LAMBDA t : write_block_meta([t EXCEPT !.ctx = ctx], 1, 0, Meta(0)))
        blocks == ForEach(lb0, dedicated, LAMBDA t, l : erase(t, start + l - 1))
        metas == ForEach(blocks, dedicated, LAMBDA t, l : write_block_meta(t, 1, l, Meta(l)))
        files == ForEach(metas, entries, LAMBDA t, i : update_scratch_file_meta(t, i, NoFile))
    IN  {IF o.status = "ok" THEN Outcome(sfs_mblock_swap_metablocks(o.s), "ok") ELSE o
            : o \in Then(Then(files, write_scratch_meta_header), flush)}
==============================================================================
