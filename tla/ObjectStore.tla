----------------------------- MODULE ObjectStore -----------------------------
(***************************************************************************)
(* What a storage backend promises its clients (components/service/        *)
(* secure_storage/backend/storage_backend.h): objects by file id, that is, *)
(* by client and uid, which keep their data across power failures.         *)
(*                                                                         *)
(* A call that fails, or that a power failure cuts short, may have had no  *)
(* effect, its whole effect or, if it replaces an object, a part of it.    *)
(* No call ever touches another object.                                    *)
(***************************************************************************)
EXTENDS Integers, Sequences

CONSTANTS
    Fids,       \* the file ids
    Sizes,      \* the sizes of objects that are set
    Capacities, \* the capacities of objects that are created
    Lengths,    \* the offsets and lengths of partial writes
    FlagSets,   \* the create_flags of requests
    Absent      \* an object that does not exist

VARIABLE objects    \* the objects

\* The data of a request: `size' units of object f, from `offset' on.
Data(f, offset, size) == [u \in 1 .. size |-> <<f, offset + u>>]

Object(data, capacity, flags) == [data |-> data, capacity |-> capacity, flags |-> flags]

\* PSA_STORAGE_FLAG_WRITE_ONCE is not set.
MayModify(f) == objects[f] # Absent => "WRITE_ONCE" \notin objects[f].flags

Becomes(f, object) == objects' = [objects EXCEPT ![f] = object]

Larger(a, b) == IF a > b THEN a ELSE b

Init == objects = [f \in Fids |-> Absent]

Set(f, data, flags) ==
    /\ MayModify(f)
    /\ Becomes(f, Object(data, Len(data), flags))

\* The old object is removed first; the new one is created, and filled piece by piece.
PartOfSet(f, data, flags) ==
    /\ MayModify(f)
    /\ \/ Becomes(f, Absent)
       \/ \E n \in 0 .. Len(data) : Becomes(f, Object(SubSeq(data, 1, n), Len(data), flags))

Create(f, capacity, flags) ==
    /\ objects[f] = Absent /\ "WRITE_ONCE" \notin flags
    /\ Becomes(f, Object(<<>>, capacity, flags))

\* The units behind those that are written are not specified.
SetExtended(f, offset, data) ==
    LET old == objects[f]
        new == objects'[f]
        end == offset + Len(data)
    IN  /\ old # Absent /\ MayModify(f) /\ new # Absent
        /\ offset <= Len(old.data) /\ end <= old.capacity
        /\ DOMAIN objects' = Fids /\ \A g \in Fids \ {f} : objects'[g] = objects[g]
        /\ new = Object(new.data, old.capacity, old.flags)
        /\ Len(new.data) = Larger(Len(old.data), end)
        /\ SubSeq(new.data, 1, end) = SubSeq(old.data, 1, offset) \o data

Remove(f) == objects[f] # Absent /\ MayModify(f) /\ Becomes(f, Absent)

Next ==
    \E f \in Fids :
        \/ \E n \in Sizes, flags \in FlagSets : Set(f, Data(f, 0, n), flags) \/ PartOfSet(f, Data(f, 0, n), flags)
        \/ \E n \in Capacities, flags \in FlagSets : Create(f, n, flags)
        \/ \E n, offset \in Lengths : SetExtended(f, offset, Data(f, offset, n))
        \/ Remove(f)

Spec == Init /\ [][Next]_objects
==============================================================================
