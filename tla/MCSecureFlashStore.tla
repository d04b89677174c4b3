------------------------- MODULE MCSecureFlashStore -------------------------
(***************************************************************************)
(* Instances of SecureFlashStore for TLC.                                  *)
(***************************************************************************)
EXTENDS SecureFlashStore

CONSTANTS f1, f2

TwoFids == {f1, f2}
Symmetry == Permutations(TwoFids)

SomeSizes == {1, 2}
SomeCapacities == {2}
SizesFromZero == {0, 1}
SomeLengths == {0, 1}
SomeFlags == {{}, {"WRITE_ONCE"}}

Device(num_blocks, meta_units, erases, asset_size, number_of_faults) ==
    [num_blocks |-> num_blocks, meta_units |-> meta_units, erases |-> erases, asset_size |-> asset_size, faults |-> number_of_faults]

\* All objects in the metadata block, on a device that may report an error, and on one that does
\* not erase; all in a data block; in the metadata block and a data block, stored in pieces.
FourDevices == {Device(2, 3, TRUE, 2, 1), Device(2, 1, FALSE, 2, 0), Device(4, 0, TRUE, 2, 0), Device(4, 1, TRUE, 1, 0)}

OneDevice == {Device(2, 3, TRUE, 2, 0)}
==============================================================================
