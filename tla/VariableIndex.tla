---------------------------- MODULE VariableIndex ----------------------------
(***************************************************************************)
(* The index of UEFI variables (components/service/uefi/smm_variable/      *)
(* backend/variable_index.c) with the constraints of variable_checker.c.   *)
(* The index is a table of MAX_VARIABLES entries in memory.  Its functions *)
(* are operators on the table; GUID and name together are a name.          *)
(*                                                                         *)
(* Attributes are a set: "NV" (non-volatile), "BS" (boot service access),  *)
(* "RT" (runtime access) and "AP" (append write).                          *)
(***************************************************************************)
EXTENDS Integers, Sequences, FiniteSetsExt

CONSTANTS
    Names,          \* the variables that clients use
    MAX_VARIABLES,  \* entries of the index
    CounterMod,     \* the modulus of the 32-bit counter
    NoName,         \* the name of an entry that is not in use
    NoConstraints   \* an entry without constraints

ASSUME IndexAssumption == MAX_VARIABLES \in Nat \ {0} /\ CounterMod \in Nat \ {0, 1, 2}

Positions == 1 .. MAX_VARIABLES
Uids == 1 .. MAX_VARIABLES
Attributes == {"NV", "BS", "RT", "AP"}
Constraints == [read_only : BOOLEAN, min_size : Nat, max_size : Nat]

\* An entry that is not in use.  The dirty flag is not part of what is cleared with it.
FreeEntry(dirty) ==
    [in_use |-> FALSE, dirty |-> dirty, name |-> NoName, uid |-> 0, attributes |-> {},
     is_variable_set |-> FALSE, constraints |-> NoConstraints]

Entry == [in_use : BOOLEAN, dirty : BOOLEAN, name : Names \cup {NoName}, uid : Uids \cup {0},
          attributes : SUBSET Attributes, is_variable_set : BOOLEAN,
          constraints : Constraints \cup {NoConstraints}]

variable_index_init == [p \in Positions |-> FreeEntry(FALSE)]

\* The positions that hold a name; find_variable takes the first of them.
Holding(es, n) == {p \in Positions : es[p].in_use /\ es[p].name = n}
IsIndexed(es, n) == Holding(es, n) # {}
find_variable(es, n) == Min(Holding(es, n))

FreePositions(es) == {p \in Positions : ~es[p].in_use}

\* The first uid that no entry in use has.
generate_uid(es) == Min({u \in Uids : \A p \in Positions : es[p].in_use => es[p].uid # u})

\* variable_index_add_entry, when there is a free position.
add_entry(es, n) ==
    [es EXCEPT ![Min(FreePositions(es))] =
        [FreeEntry(@.dirty) EXCEPT !.in_use = TRUE, !.name = n, !.uid = generate_uid(es)]]

mark_dirty(e) == [e EXCEPT !.dirty = @ \/ "NV" \in e.attributes]

variable_index_remove_unused_entry(es, p) ==
    IF es[p].is_variable_set \/ es[p].constraints # NoConstraints THEN es
    ELSE [es EXCEPT ![p] = FreeEntry(@.dirty)]

variable_index_set_variable(e, attributes) ==
    mark_dirty([e EXCEPT !.attributes = attributes, !.is_variable_set = TRUE])

variable_index_clear_variable(e) == [mark_dirty(e) EXCEPT !.is_variable_set = FALSE]

variable_index_set_constraints(e, constraints) == mark_dirty([e EXCEPT !.constraints = constraints])

(***************************************************************************)
(* variable_index_find_next: the name of the first variable after the one  *)
(* given, or of the first of all after NoName; NoName when there is none.  *)
(***************************************************************************)
SetAfter(es, pos) == {p \in Positions : p > pos /\ es[p].in_use /\ es[p].is_variable_set}

\* Mutant: the search goes on one position too far.
variable_index_find_next_Skip(es, n) ==
    LET next == SetAfter(es, IF n = NoName THEN 0 ELSE find_variable(es, n) + 1)
    IN  IF next = {} THEN NoName ELSE es[Min(next)].name

variable_index_find_next(es, n) ==
    LET next == SetAfter(es, IF n = NoName THEN 0 ELSE find_variable(es, n))
    IN  IF next = {} THEN NoName ELSE es[Min(next)].name

(***************************************************************************)
(* The form in which the index is stored: a counter and, in the order of   *)
(* the table, what is known of each NV variable.                           *)
(***************************************************************************)
IsNvVariable(e) == e.in_use /\ e.is_variable_set /\ "NV" \in e.attributes

Stored(e) == [name |-> e.name, uid |-> e.uid, attributes |-> e.attributes, constraints |-> e.constraints]

variable_index_dump(es, counter) ==
    [counter |-> (counter + 1) % CounterMod,
     entries |-> LET nv == SelectSeq([p \in Positions |-> p], LAMBDA p : IsNvVariable(es[p]))
                 IN  [i \in DOMAIN nv |-> Stored(es[nv[i]])]]

IsDirty(es) == \E p \in Positions : es[p].dirty
Cleaned(es) == [p \in Positions |-> [es[p] EXCEPT !.dirty = FALSE]]

variable_index_restore(stored) ==
    [p \in Positions |->
        IF p \notin DOMAIN stored THEN FreeEntry(FALSE)
        ELSE [in_use |-> TRUE, dirty |-> FALSE, name |-> stored[p].name, uid |-> stored[p].uid,
              attributes |-> stored[p].attributes, is_variable_set |-> TRUE,
              constraints |-> stored[p].constraints]]

\* variable_checker_set_constraints: whether the constraints are accepted.
variable_checker_set_constraints(c) == c.min_size <= c.max_size

variable_checker_check_on_set(c, size) == ~c.read_only /\ c.min_size <= size /\ size <= c.max_size
==============================================================================
