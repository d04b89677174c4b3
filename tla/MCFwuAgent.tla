----------------------------- MODULE MCFwuAgent -----------------------------
(***************************************************************************)
(* Instances of FwuAgent for TLC.                                          *)
(***************************************************************************)
EXTENDS FwuAgent, TLC

CONSTANTS l1, l2

MCLocations == {l1, l2}
OneLocation == {l1}
NoCopyInstaller == {}
BothBuffers == {"directory", "metadata"}
NoBuffers == {}
Symmetric == Permutations({l1, l2})
=============================================================================
