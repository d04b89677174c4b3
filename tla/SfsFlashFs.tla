----------------------------- MODULE SfsFlashFs -----------------------------
(***************************************************************************)
(* The files of the flash file system (flash_fs/sfs_flash_fs.c and         *)
(* sfs_flash_fs_dblock.c).                                                 *)
(*                                                                         *)
(* A file is an extent of `max' units in one logical block, from data_idx  *)
(* on, of which `cur' are in use; the extents of a block follow each other *)
(* without gaps, and the rest of the block is free.  Every change writes   *)
(* the logical block anew into the scratch data block.                     *)
(***************************************************************************)
EXTENDS SfsMblock

Error(s) == {Outcome(s, "error")}

\* The units of data that block l has in use according to its metadata.
Used(dev, l, meta) == UnitsOf(dev, l) - meta.free

(***************************************************************************)
(* sfs_flash_fs_dblock.c                                                   *)
(***************************************************************************)
\* The file's own units behind the ones written are not moved to the scratch block.
dblock_write_file(s, bm, fm, offset, units) ==
    LET scratch == cur_data_scratch_id(s, fm.lblock)
        end == fm.data_idx + fm.max
        Before(t) == block_to_block_move(t, scratch, 0, bm.phy, 0, fm.data_idx + offset)
        Behind(t) == block_to_block_move(t, scratch, end, bm.phy, end, Used(s.dev, fm.lblock, bm) - end)
        written == Then(Then(Before(s), LAMBDA t : write_data(t, scratch, fm.data_idx + offset, units)), Behind)
    IN  IF fm.lblock = 0 THEN written ELSE Then(written, flush)

\* sfs_flash_fs_dblock_read_file and sfs_dblock_lo_to_phy.
dblock_read_file(s, fm, offset, n) ==
    read_data(s, read_block_metadata(s, fm.lblock).phy, fm.data_idx + offset, n)

\* Mutant: the blocks are swapped only if there is something to move.
dblock_compact_block_IfMoved(s, l, freed, src, dst, n) ==
    LET bm == read_block_metadata(s, l)
        scratch == cur_data_scratch_id(s, l)
        meta == [phy |-> IF n > 0 THEN scratch ELSE bm.phy, free |-> bm.free + freed]
        moved == IF n > 0
                 THEN Then(block_to_block_move(s, scratch, dst, bm.phy, src, n),
                           LAMBDA t : block_to_block_move(t, scratch, 0, bm.phy, 0, dst))
                 ELSE {Outcome(s, "ok")}
    IN  Then(moved, LAMBDA t : update_scratch_block_meta(IF n > 0 THEN set_data_scratch(t, bm.phy, l) ELSE t, l, meta))

\* The scratch data block is swapped back if the metadata cannot be written.
dblock_compact_block(s, l, freed, src, dst, n) ==
    LET bm == read_block_metadata(s, l)
        scratch == cur_data_scratch_id(s, l)
        meta == [phy |-> scratch, free |-> bm.free + freed]
        moved == Then(block_to_block_move(s, scratch, dst, bm.phy, src, n),
                      LAMBDA t : block_to_block_move(t, scratch, 0, bm.phy, 0, dst))
        Swapped(t) == {IF o.status = "error" THEN [o EXCEPT !.s = set_data_scratch(@, scratch, l)] ELSE o
                         : o \in update_scratch_block_meta(set_data_scratch(t, bm.phy, l), l, meta)}
        updated == Then(moved, Swapped)
    IN  IF l = 0 THEN updated ELSE Then(updated, flush)

------------------------------------------------------------------------------
(***************************************************************************)
(* sfs_flash_fs.c                                                          *)
(***************************************************************************)
check_contained_in(superset, offset, n) == offset <= superset /\ n <= superset - offset

file_exist(s, fid) == get_file_idx(s, fid) # NONE

file_get_info(s, fid) == read_file_meta(s, get_file_idx(s, fid))

file_write_aligned_data(s, bm, fm, offset, units) ==
    IF offset > fm.cur \/ ~check_contained_in(fm.max, offset, Len(units)) THEN Error(s)
    ELSE dblock_write_file(s, bm, fm, offset, units)

\* The rest of an update: the two tables, the data of logical block 0, the header.
Commit(s, index, fm, bm, migrate) ==
    LET blocks == update_scratch_block_meta(s, fm.lblock, bm)
        files == Then(Then(blocks, LAMBDA t : update_scratch_file_meta(t, index, fm)), LAMBDA t : cp_remaining_file_meta(t, index))
    IN  Then(IF migrate THEN Then(files, migrate_lb0_data_to_scratch) ELSE files, meta_update_finalize)

\* The scratch data block becomes the data block, and the other way round.
CommitSwapped(s, index, fm, bm, migrate) ==
    Commit(set_data_scratch(s, bm.phy, fm.lblock), index, fm,
           [bm EXCEPT !.phy = cur_data_scratch_id(s, fm.lblock)], migrate)

file_create(s, fid, max, units, flags) ==
    LET r == reserve_file(s, max)
        old == read_block_metadata(s, r.lblock)
        bm == [old EXCEPT !.free = @ - max]
        fm == [fid |-> fid, lblock |-> r.lblock, data_idx |-> Used(s.dev, r.lblock, old), max |-> max, cur |-> 0, flags |-> flags]
        full == [fm EXCEPT !.cur = Len(units)]
    IN  IF max > DataUnits \/ file_exist(s, fid) \/ r.lblock = NONE THEN Error(s)
        ELSE IF units = <<>> THEN Commit(s, r.index, fm, bm, TRUE)
        ELSE Then(file_write_aligned_data(s, bm, fm, 0, units),
                  LAMBDA t : CommitSwapped(t, r.index, full, bm, r.lblock # 0))

file_write(s, fid, offset, units) ==
    LET index == get_file_idx(s, fid)
        fm == read_file_meta(s, index)
        bm == read_block_metadata(s, fm.lblock)
        size == offset + Len(units)
    IN  IF index = NONE THEN Error(s)
        ELSE Then(file_write_aligned_data(s, bm, fm, offset, units),
                  LAMBDA t : CommitSwapped(t, index, [fm EXCEPT !.cur = IF size > @ THEN size ELSE @], bm, fm.lblock # 0))

\* Mutant: the file that follows directly is not moved.
Later_Not(fm, del) == fm # NoFile /\ fm.lblock = del.lblock /\ fm.data_idx > del.data_idx + del.max

\* The extent fm lies behind `del', in the same block.
Later(fm, del) == fm # NoFile /\ fm.lblock = del.lblock /\ fm.data_idx > del.data_idx

\* The files behind the deleted one move up by its size.
file_delete(s, fid) ==
    LET index == get_file_idx(s, fid)
        del == read_file_meta(s, index)
        later == {i \in FileIndices \ {index} : Later(read_file_meta(s, i), del)}
        src == IF later = {} THEN 0 ELSE Min({read_file_meta(s, i).data_idx : i \in later})
        size == MapThenSumSet(LAMBDA i : read_file_meta(s, i).max, later)
        others == SelectSeq([i \in 1 .. MAX_NUM_FILES |-> i - 1], LAMBDA i : i # index)
        New(i) == IF i \in later THEN [read_file_meta(s, i) EXCEPT !.data_idx = @ - del.max] ELSE read_file_meta(s, i)
        metas == ForEach(update_scratch_file_meta(s, index, NoFile), others, LAMBDA t, i : update_scratch_file_meta(t, i, New(i)))
        compacted == Then(metas, LAMBDA t : dblock_compact_block(t, del.lblock, del.max, src, del.data_idx, size))
    IN  IF index = NONE THEN Error(s)
        ELSE Then(IF del.lblock # 0 THEN Then(compacted, migrate_lb0_data_to_scratch) ELSE compacted, meta_update_finalize)

file_read(s, fid, offset, n) == dblock_read_file(s, file_get_info(s, fid), offset, n)
==============================================================================
