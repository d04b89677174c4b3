---------------------------- MODULE SfsSwapCount ----------------------------
(***************************************************************************)
(* The active_swap_count of the metadata blocks (flash_fs/                 *)
(* sfs_flash_fs_mblock.c): a byte in the header that is stepped by every   *)
(* update and rolls over before the value that reads as erased flash.      *)
(***************************************************************************)
EXTENDS Integers

CONSTANT SwapMod    \* erase_val, 0xFF: the swap count that reads as erased, and is never used

ASSUME SwapAssumption == SwapMod \in Nat /\ SwapMod >= 3

Counts == 0 .. SwapMod - 1

NextCount(count) == IF count + 1 = SwapMod THEN 0 ELSE count + 1

\* Mutant: the highest count is the latest, even if the other has rolled over.
sfs_mblock_latest_meta_block_Highest(count0, count1) == IF count1 > count0 THEN 1 ELSE 0

\* The metadata block with the later of two counts, both of them valid.
sfs_mblock_latest_meta_block(count0, count1) ==
    IF count1 = 0 /\ count0 # 1 THEN 1
    ELSE IF count0 = 0 /\ count1 # 1 THEN 0
    ELSE IF count1 > count0 THEN 1 ELSE 0

-----------------------------------------------------------------------------
(***************************************************************************)
(* What the secure flash store relies on when it is started with two valid *)
(* metadata blocks, for every number of swap counts (the code has 255).    *)
(***************************************************************************)
\* sfs_mblock_write_scratch_meta_header never writes the value of erased flash.
LEMMA NextIsCount == \A c \in Counts : NextCount(c) \in Counts /\ NextCount(c) # c
BY SwapAssumption DEF NextCount, Counts

(***************************************************************************)
(* sfs_mblock_latest_meta_block chooses the block that was written last,   *)
(* whichever of the two it is and whether or not the count has rolled      *)
(* over, as long as that one's count is the next one of the other's.       *)
(***************************************************************************)
THEOREM LatestIsNext ==
    \A c \in Counts : /\ sfs_mblock_latest_meta_block(c, NextCount(c)) = 1
                      /\ sfs_mblock_latest_meta_block(NextCount(c), c) = 0
<1> SUFFICES ASSUME NEW c \in Counts
             PROVE  /\ sfs_mblock_latest_meta_block(c, NextCount(c)) = 1
                    /\ sfs_mblock_latest_meta_block(NextCount(c), c) = 0
  OBVIOUS
<1>1. CASE c + 1 = SwapMod
  <2>1. NextCount(c) = 0 /\ c > 1
    BY <1>1, SwapAssumption DEF NextCount, Counts
  <2>2. sfs_mblock_latest_meta_block(c, 0) = 1 /\ sfs_mblock_latest_meta_block(0, c) = 0
    BY <2>1 DEF sfs_mblock_latest_meta_block, Counts
  <2> QED  BY <2>1, <2>2
<1>2. CASE c + 1 # SwapMod
  <2>1. NextCount(c) = c + 1
    BY <1>2 DEF NextCount
  <2>2. sfs_mblock_latest_meta_block(c, c + 1) = 1 /\ sfs_mblock_latest_meta_block(c + 1, c) = 0
    BY DEF sfs_mblock_latest_meta_block, Counts
  <2> QED  BY <2>1, <2>2
<1> QED  BY <1>1, <1>2
=============================================================================
