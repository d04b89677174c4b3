--------------------------- MODULE MCBlockStorage ---------------------------
(***************************************************************************)
(* Instance of BlockStorage: a disk header of one block, a partition of    *)
(* two blocks, which the volumes of two clients compete for, and one of    *)
(* one block.                                                              *)
(***************************************************************************)
EXTENDS BlockStorage, TLC

CONSTANTS v1, v2, v3, g1, g2, c1, c2, a, b, c

MCVolumes == {v1, v2, v3}

MCClientOf == [v \in MCVolumes |-> IF v = v1 THEN c1 ELSE c2]

MCGuidOf == [v \in MCVolumes |-> IF v = v2 THEN g2 ELSE g1]

MCGuids == <<g1, g2>>

MCPartitionTable == (g1 :> [start |-> 2, length |-> 4]) @@ (g2 :> [start |-> 6, length |-> 2])

MCWritesOf == (v1 :> {<<b, a, b>>}) @@ (v2 :> {<<c>>}) @@ (v3 :> {<<c, c>>})

MCMaxBoots == [kind \in {"encrypted", "ram", "rpmb"} |-> IF kind = "rpmb" THEN 2 ELSE 1]
=============================================================================
