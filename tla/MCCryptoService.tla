--------------------------- MODULE MCCryptoService ---------------------------
(***************************************************************************)
(* Two clients with three operation objects.                               *)
(***************************************************************************)
EXTENDS CryptoService, TLC

CONSTANTS c1, c2, o1, o2, o3

TwoClients == {c1, c2}
ThreeOperations == {o1, o2, o3}
Owners == o1 :> c1 @@ o2 :> c1 @@ o3 :> c2
OneOneShot == {o3}
Symmetry == Permutations({o1, o2})

AllServices == {"hash", "mac", "cipher", "aead", "key_derivation"}
SomeAllocs == [s \in AllServices |-> IF s \in {"hash", "key_derivation"} THEN 4 ELSE 3]
SomeInputs == [s \in AllServices |-> IF s = "mac" THEN 2 ELSE 1]
SomeUpdates == [s \in AllServices |-> IF s = "mac" THEN 2 ELSE 1]
==============================================================================
