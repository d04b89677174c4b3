------------------------------ MODULE MCTsRpc ------------------------------
(***************************************************************************)
(* An instance of TsRpc for TLC.                                           *)
(***************************************************************************)
EXTENDS TsRpc, TLC

CONSTANTS c1, c2, e1, e2, h1, h2

MCClients == {c1, c2}
MCEndpoints == <<e1, e2>>
MCServices == (e1 :> <<"crypto", "storage">>) @@ (e2 :> <<"storage">>)
MCHandles == {h1, h2}
MCLengths == {0, 1, 3}
MCFaults == {"share", "request", "retrieve", "relinquish", "rx_release"}
Symmetry == Permutations(MCClients) \cup Permutations(MCHandles)
=============================================================================
