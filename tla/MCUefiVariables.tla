--------------------------- MODULE MCUefiVariables ---------------------------
(***************************************************************************)
(* Instances of UefiVariables for TLC.                                     *)
(***************************************************************************)
EXTENDS UefiVariables, TLC

CONSTANTS n1, n2

TwoNames == {n1, n2}
Symmetry == Permutations(TwoNames)

\* A request without attributes creates or removes; runtime access alone is refused.
SomeAttributes == {{}, {"RT"}, {"NV", "BS"}, {"NV", "BS", "AP"}}

\* The limit of two units is exceeded by one request, or by three that append.
Sizes == {0, 1, 3}

\* One property that is refused, its minimum being above its maximum, and one that write-protects.
SomeProperties == {[read_only |-> FALSE, min_size |-> 2, max_size |-> 1],
                   [read_only |-> TRUE, min_size |-> 0, max_size |-> 3]}
==============================================================================
