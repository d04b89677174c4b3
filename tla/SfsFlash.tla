------------------------------ MODULE SfsFlash ------------------------------
(***************************************************************************)
(* The flash device of the secure flash store (components/service/         *)
(* secure_storage/backend/secure_flash_store/flash).                       *)
(*                                                                         *)
(* A block holds a header, metadata of logical blocks and of files, and    *)
(* units of data; the metadata blocks 0 and 1 have room for meta_units of  *)
(* the device behind their metadata, the others for DataUnits.  An offset  *)
(* into the data counts from the data_start of the block.                  *)
(*                                                                         *)
(* The functions of the store are operators that give the set of their     *)
(* outcomes from a state s = [dev, flash, ctx, faults].  The status of an  *)
(* outcome is "ok", "error" or "cut": the power failed before the function *)
(* returned.                                                               *)
(***************************************************************************)
EXTENDS Integers, FiniteSets, FiniteSetsExt, SequencesExt

CONSTANTS
    DataUnits,      \* data units of a data block: block_size, and max_file_size
    MAX_NUM_FILES,  \* max_num_files
    Erased          \* what an erased or invalid header, an erased entry or an erased unit reads as

ASSUME SizesAssumption ==
    DataUnits \in Nat \ {0} /\ MAX_NUM_FILES \in Nat \ {0}

Metablocks == {0, 1}
FileIndices == 0 .. MAX_NUM_FILES - 1
Units(dev, p) == IF p \in Metablocks THEN dev.meta_units ELSE DataUnits
Blocks(dev) == 0 .. dev.num_blocks - 1

BlankBlock(dev, p, lblocks) ==
    [header |-> Erased,
     block_meta |-> [l \in lblocks |-> Erased],
     file_meta |-> [i \in FileIndices |-> Erased],
     data |-> [u \in 1 .. Units(dev, p) |-> Erased]]

Outcome(s, status) == [s |-> s, status |-> status]

\* The outcomes of a function that is followed by another one if it is successful.
Then(outcomes, Following(_)) == UNION {IF o.status = "ok" THEN Following(o.s) ELSE {o} : o \in outcomes}

\* The same function for every element of a sequence.
ForEach(outcomes, seq, Do(_, _)) ==
    FoldLeft(LAMBDA done, x : Then(done, LAMBDA s : Do(s, x)), outcomes, seq)

(***************************************************************************)
(* One operation of the device, which makes `new' of the flash: the power  *)
(* may fail before it is done, and leave one of `torn'.  A device that has *)
(* a fault left may use it to report an error instead.                     *)
(***************************************************************************)
FlashOp(s, new, torn) ==
    {Outcome([s EXCEPT !.flash = f], "cut") : f \in torn \cup {s.flash}}
      \cup {Outcome([s EXCEPT !.flash = new], "ok")}
      \cup (IF s.faults > 0 THEN {Outcome([s EXCEPT !.flash = f, !.faults = @ - 1], "error") : f \in torn \cup {s.flash}} ELSE {})

\* Programming is done unit by unit; only what it does to a header or to live data matters.
write_header(s, p, header) ==
    LET Header(h) == [s.flash EXCEPT ![p].header = h]
    IN  FlashOp(s, Header(header), IF s.dev.erases THEN {Header(Erased)} ELSE {})

write_block_meta(s, p, l, meta) == FlashOp(s, [s.flash EXCEPT ![p].block_meta[l] = meta], {})

write_file_meta(s, p, i, meta) == FlashOp(s, [s.flash EXCEPT ![p].file_meta[i] = meta], {})

Overwritten(old, at, units) ==
    [u \in DOMAIN old |-> IF u \in at + 1 .. at + Len(units) THEN units[u - at] ELSE old[u]]

write_data(s, p, at, units) ==
    IF units = <<>> THEN {Outcome(s, "ok")}
    ELSE FlashOp(s, [s.flash EXCEPT ![p].data = Overwritten(@, at, units)], {})

read_data(s, p, at, n) == [u \in 1 .. n |-> s.flash[p].data[at + u]]

\* A device that erases on write, like the RPMB block store, does nothing on erase.
erase(s, p) ==
    LET old == s.flash[p]
        blank == BlankBlock(s.dev, p, DOMAIN old.block_meta)
        Holding(b) == [s.flash EXCEPT ![p] = b]
    IN  IF s.dev.erases
        THEN FlashOp(s, Holding(blank), {Holding([old EXCEPT !.header = Erased]), Holding([blank EXCEPT !.header = old.header])})
        ELSE {Outcome(s, "ok")}

flush(s) == FlashOp(s, s.flash, {})

\* sfs_flash_block_to_block_move, of data and of the two tables of metadata.
block_to_block_move(s, dst, dst_at, src, src_at, n) == write_data(s, dst, dst_at, read_data(s, src, src_at, n))

move_block_meta(s, dst, src, ls) ==
    IF ls = {} THEN {Outcome(s, "ok")}
    ELSE FlashOp(s, [s.flash EXCEPT ![dst].block_meta = [l \in DOMAIN @ |-> IF l \in ls THEN s.flash[src].block_meta[l] ELSE @[l]]], {})

move_file_meta(s, dst, src, is) ==
    IF is = {} THEN {Outcome(s, "ok")}
    ELSE FlashOp(s, [s.flash EXCEPT ![dst].file_meta = [i \in DOMAIN @ |-> IF i \in is THEN s.flash[src].file_meta[i] ELSE @[i]]], {})
==============================================================================
