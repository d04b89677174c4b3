--------------------------- MODULE MCSpMessaging ---------------------------
(***************************************************************************)
(* Instances of SpMessaging: two clients of the normal world and a chain   *)
(* of three partitions.                                                    *)
(***************************************************************************)
EXTENDS SpMessaging, TLC

CONSTANTS c1, c2, a, b, d

MCClients == {c1, c2}

MCSPs == {a, b, d}

MCCallees == (a :> {b}) @@ (b :> {d}) @@ (d :> {})

MCEntries == [c \in MCClients |-> {a}]

\* c2 calls the second partition of the chain, past the first.
MCDirect == (c1 :> {a}) @@ (c2 :> {b})

MCClientBits == {{}, {"rc"}}

MCAppBits == {{}, {"err"}}

MCRequests == (c1 :> 2) @@ (c2 :> 1)
=============================================================================
