---------------------------- MODULE VariableStore ----------------------------
(***************************************************************************)
(* What the UEFI variable service promises its clients, as operators on    *)
(* the value of one variable: what a SetVariable call that succeeds makes  *)
(* of it, and what a power failure leaves.  A value is Absent or a record  *)
(* of attributes and data; data are a sequence of units, each marked with  *)
(* the name of the variable for which it was written.                      *)
(***************************************************************************)
EXTENDS Integers, Sequences

CONSTANT Absent     \* the value of a variable, or of an object, that does not exist

Units(n, size) == [i \in 1 .. size |-> n]

\* No access attributes, or no data to write: a request to delete the variable.
IsRemove(attributes, size) ==
    \/ attributes \cap {"BS", "RT"} = {}
    \/ "AP" \notin attributes /\ size = 0

(***************************************************************************)
(* What variable n, which was `old', may be after a call with these        *)
(* attributes and this size that succeeded.  A variable that is absent may *)
(* be created without access attributes.                                   *)
(***************************************************************************)
Results(n, old, attributes, size) ==
    LET new == [attributes |-> attributes, data |-> Units(n, size)]
    IN  CASE old = Absent -> (IF size = 0 THEN {Absent} ELSE {new})
                               \cup (IF IsRemove(attributes, size) THEN {Absent} ELSE {})
          [] old # Absent /\ IsRemove(attributes, size) -> {Absent}
          [] OTHER -> {IF "AP" \in attributes THEN [old EXCEPT !.data = @ \o new.data] ELSE new}

\* A power failure takes volatile variables away and leaves the others as they are.
AfterPowerFailure(value) ==
    IF value # Absent /\ "NV" \in value.attributes THEN value ELSE Absent

\* A call that the power failure cut short did all, nothing, or lost the variable.
ResultsOfCut(n, old, attributes, size) ==
    {AfterPowerFailure(v) : v \in Results(n, old, attributes, size) \cup {old, Absent}}
==============================================================================
