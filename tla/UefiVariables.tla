---------------------------- MODULE UefiVariables ----------------------------
(***************************************************************************)
(* The UEFI variable store of the SMM gateway (components/service/uefi/    *)
(* smm_variable/backend/uefi_variable_store.c), built without              *)
(* UEFI_AUTH_VAR, on a persistent store, whose objects survive a power     *)
(* failure, and a volatile one.                                            *)
(*                                                                         *)
(* The index is kept in memory and, for the NV variables, in the           *)
(* persistent store, twice: the two copies are written in turn, and their  *)
(* counters tell which one is newer.                                       *)
(*                                                                         *)
(* The functions of the C module are operators that give the set of their  *)
(* outcomes from a state s = [index, active, counter, is_boot_service, nv, *)
(* vs].  The status of an outcome is "ok", "error" or "cut": the power     *)
(* failed before the function returned.                                    *)
(***************************************************************************)
EXTENDS VariableIndex, VariableStore

CONSTANTS
    RequestAttributes,  \* the attributes of SetVariable requests
    DataSizes,          \* the data sizes of SetVariable requests
    Properties,         \* the constraints that clients set
    MaxVariableSize,    \* DEFAULT_MAX_VARIABLE_SIZE
    IndexChunk,         \* index entries that fit into one RPC to the persistent store
    Faults,             \* whether operations of the persistent store may report errors
    NoIndex,            \* a copy of the index that does not exist
    EmptyIndex          \* a copy that has been created, and nothing written to it

ASSUME RequestsAssumption ==
    /\ RequestAttributes \subseteq SUBSET Attributes
    /\ DataSizes \subseteq Nat /\ MaxVariableSize \in Nat
    /\ Properties \subseteq Constraints
    /\ IndexChunk \in Nat \ {0} /\ Faults \in BOOLEAN

VARIABLES
    power,      \* "off", "up", or "failed": uefi_variable_store_init reported an error
    ram,        \* the variable_index, active_variable_index_uid, counter and is_boot_service
    nv,         \* the persistent store: the two copies of the index, and the objects by uid
    vs,         \* the volatile store: objects by uid
    promised    \* what clients have been promised of each variable

vars == <<power, ram, nv, vs, promised>>

Copies == {"A", "B"}

NoObjects == [u \in Uids |-> Absent]

\* The memory before the index is loaded.
BootRam == [index |-> variable_index_init, active |-> "A", counter |-> 0, is_boot_service |-> TRUE]

Outcome(s, status) == [s |-> s, status |-> status]
Outcomes(states, status) == {Outcome(s, status) : s \in states}

\* The outcomes of a function that is followed by another one if it is successful.
Then(outcomes, Following(_)) == UNION {IF o.status = "ok" THEN Following(o.s) ELSE {o} : o \in outcomes}

------------------------------------------------------------------------------
(***************************************************************************)
(* sync_variable_index: if an entry is dirty, the older copy is removed,   *)
(* created again and written in chunks.  The dirty flags are cleared       *)
(* before.                                                                 *)
(***************************************************************************)
Other(copy) == IF copy = "A" THEN "B" ELSE "A"

\* Mutant: the counter in memory is not stepped.
variable_index_confirm_write_Not(counter) == counter

variable_index_confirm_write(counter) == (counter + 1) % CounterMod

\* The copies that writing `whole' in chunks goes through before the last chunk.
PartlyWritten(whole) ==
    {[whole EXCEPT !.entries = SubSeq(@, 1, i * IndexChunk)] :
        i \in {j \in 1 .. MAX_VARIABLES : j * IndexChunk < Len(whole.entries)}}

sync_variable_index(s) ==
    LET clean == [s EXCEPT !.index = Cleaned(@)]
        next == Other(s.active)
        whole == variable_index_dump(s.index, s.counter)
        Holds(copy) == [clean EXCEPT !.nv.index[next] = copy]
        partly == {s.nv.index[next], NoIndex, EmptyIndex} \cup PartlyWritten(whole)
    IN  IF ~IsDirty(s.index) THEN {Outcome(clean, "ok")}
        ELSE {Outcome([Holds(whole) EXCEPT !.counter = variable_index_confirm_write(@), !.active = next], "ok")}
               \cup Outcomes({Holds(c) : c \in partly \cup {whole}}, "cut")
               \cup (IF Faults THEN Outcomes({Holds(c) : c \in partly}, "error") ELSE {})

(***************************************************************************)
(* purge_orphan_index_entries: the NV variables without an object, or of   *)
(* which the persistent store reports an error, are no longer set.  The    *)
(* result of the synchronization is not used.                              *)
(***************************************************************************)
purge_orphan_index_entries(s) ==
    LET variables == {p \in Positions : IsNvVariable(s.index[p])}
        orphans == {p \in variables : s.nv.object[s.index[p].uid] = Absent}
        Cleared(ps) == [s EXCEPT !.index = [p \in Positions |->
                            IF p \in ps THEN variable_index_clear_variable(@[p]) ELSE @[p]]]
        found == IF Faults THEN {ps \in SUBSET variables : orphans \subseteq ps} ELSE {orphans}
    IN  UNION {IF ps = {} THEN {Outcome(s, "ok")}
               ELSE {IF o.status = "error" THEN Outcome(o.s, "ok") ELSE o : o \in sync_variable_index(Cleared(ps))}
               : ps \in found}

------------------------------------------------------------------------------
(***************************************************************************)
(* Access to variables.                                                    *)
(***************************************************************************)
check_capabilities(attributes) == "RT" \in attributes => "BS" \in attributes

\* Mutant: boot service access is enough at runtime, too.
check_access_permitted_Boot(s, e) ==
    e.is_variable_set /\ e.attributes \cap {"BS", "RT"} # {} => "BS" \in e.attributes

check_access_permitted(s, e) ==
    e.is_variable_set /\ e.attributes \cap {"BS", "RT"} # {} =>
        (IF s.is_boot_service THEN "BS" ELSE "RT") \in e.attributes

check_access_permitted_on_set(s, e, size) ==
    /\ check_access_permitted(s, e)
    /\ e.constraints # NoConstraints => variable_checker_check_on_set(e.constraints, size)

\* The object of an entry, in the store that select_delegate_store gives.
Object(s, e) == IF "NV" \in e.attributes THEN s.nv.object[e.uid] ELSE s.vs[e.uid]

(***************************************************************************)
(* The outcomes of writing, or removing, the object of an entry.  The      *)
(* persistent store replaces an object by deleting it and creating it      *)
(* again (sfs_set), so that an error or a power failure may leave none.    *)
(***************************************************************************)
ObjectSet(s, e, data) ==
    LET Nv(d) == [s EXCEPT !.nv.object[e.uid] = d]
    IN  IF "NV" \notin e.attributes THEN {Outcome([s EXCEPT !.vs[e.uid] = data], "ok")}
        ELSE {Outcome(Nv(data), "ok")}
               \cup Outcomes({s, Nv(Absent), Nv(data)}, "cut")
               \cup (IF Faults THEN Outcomes({s, Nv(Absent)}, "error") ELSE {})

\* remove_variable_data.  The caller does not use its result.
remove_variable_data(s, e) ==
    LET gone == [s EXCEPT !.nv.object[e.uid] = Absent]
    IN  IF "NV" \notin e.attributes THEN {Outcome([s EXCEPT !.vs[e.uid] = Absent], "ok")}
        ELSE {Outcome(gone, "ok")} \cup Outcomes({s, gone}, "cut")
               \cup (IF Faults THEN {Outcome(s, "ok")} ELSE {})

store_overwrite(s, e, n, size) ==
    IF size > MaxVariableSize THEN {Outcome(s, "error")}
    ELSE ObjectSet(s, e, Units(n, size))

store_append_write(s, e, n, size) ==
    LET old == Object(s, e)
    IN  IF size = 0 THEN {Outcome(s, "ok")}
        ELSE IF old = Absent THEN {Outcome(s, "error")}
        ELSE IF Len(old) + size > MaxVariableSize THEN {Outcome(s, "error")}
        ELSE ObjectSet(s, e, old \o Units(n, size))

\* store_variable_data: after an error of the persistent store, orphans are purged.
store_variable_data(s, e, n, attributes, size) ==
    LET stored == IF "AP" \in attributes THEN store_append_write(s, e, n, size)
                                         ELSE store_overwrite(s, e, n, size)
        Purged(t) == {IF o.status = "ok" THEN Outcome(o.s, "error") ELSE o : o \in purge_orphan_index_entries(t)}
    IN  UNION {IF o.status = "error" /\ "NV" \in e.attributes THEN Purged(o.s) ELSE {o} : o \in stored}

------------------------------------------------------------------------------
(***************************************************************************)
(* uefi_variable_store_set_variable on the entry at p, which exists now.   *)
(***************************************************************************)
RemoveUnused(outcomes, p) ==
    {IF o.status = "cut" THEN o
     ELSE [o EXCEPT !.s.index = variable_index_remove_unused_entry(@, p)] : o \in outcomes}

IsRemoveRequest(attributes, size) ==
    attributes \cap {"BS", "RT"} = {} \/ ("AP" \notin attributes /\ size = 0)

\* The index is synchronized if the request has the NV attribute.
SyncIf(attributes, s) == IF "NV" \in attributes THEN sync_variable_index(s) ELSE {Outcome(s, "ok")}

RemoveVariable(s, p, attributes) ==
    LET Clear(t) == SyncIf(attributes, [t EXCEPT !.index[p] = variable_index_clear_variable(@)])
    IN  RemoveUnused(Then(remove_variable_data(s, s.index[p]), Clear), p)

\* Mutant: the data are written before the index is synchronized.
CreateVariable_DataFirst(s, p, n, attributes, size) ==
    LET set == [s EXCEPT !.index[p] = variable_index_set_variable(@, attributes)]
        Sync(t) == SyncIf(attributes, t)
    IN  RemoveUnused(Then(store_variable_data(set, set.index[p], n, attributes, size), Sync), p)

CreateVariable(s, p, n, attributes, size) ==
    LET set == [s EXCEPT !.index[p] = variable_index_set_variable(@, attributes)]
        Store(t) == store_variable_data(t, t.index[p], n, attributes, size)
    IN  RemoveUnused(Then(SyncIf(attributes, set), Store), p)

SetEntry(s, p, n, attributes, size) ==
    LET e == s.index[p]
    IN  CASE ~check_access_permitted_on_set(s, e, size) -> RemoveUnused({Outcome(s, "error")}, p)
          [] check_access_permitted_on_set(s, e, size) /\ ~e.is_variable_set ->
               IF size = 0 THEN {Outcome(s, "error")} ELSE CreateVariable(s, p, n, attributes, size)
          [] OTHER ->
               IF IsRemoveRequest(attributes, size) THEN RemoveVariable(s, p, attributes)
               ELSE IF attributes \ {"AP"} # e.attributes THEN {Outcome(s, "error")}
               ELSE RemoveUnused(store_variable_data(s, e, n, attributes, size), p)

\* The whole function: the entry is found or added.
SetVariable(s, n, attributes, size) ==
    LET added == [s EXCEPT !.index = add_entry(@, n)]
    IN  IF ~check_capabilities(attributes) THEN {Outcome(s, "error")}
        ELSE IF IsIndexed(s.index, n) THEN SetEntry(s, find_variable(s.index, n), n, attributes, size)
        ELSE IF size = 0 \/ FreePositions(s.index) = {} THEN {Outcome(s, "error")}
        ELSE SetEntry(added, find_variable(added.index, n), n, attributes, size)

\* uefi_variable_store_set_var_check_property.
SetProperty(s, n, property) ==
    LET t == IF IsIndexed(s.index, n) THEN s ELSE [s EXCEPT !.index = add_entry(@, n)]
        p == find_variable(t.index, n)
    IN  IF ~IsIndexed(s.index, n) /\ FreePositions(s.index) = {} THEN {Outcome(s, "error")}
        ELSE IF ~variable_checker_set_constraints(property) THEN RemoveUnused({Outcome(t, "error")}, p)
        ELSE RemoveUnused(sync_variable_index([t EXCEPT !.index[p] = variable_index_set_constraints(@, property)]), p)

------------------------------------------------------------------------------
(***************************************************************************)
(* uefi_variable_store_init: the newer copy of the index is loaded, after  *)
(* copies without contents have been removed.                              *)
(***************************************************************************)
\* Mutant: the copy with the larger counter is the newer one.
IsNewer_Larger(counter, than) == counter > than

IsNewer(counter, than) == (than + 1) % CounterMod = counter

WithoutEmpty(copies) == [c \in Copies |-> IF copies[c] = EmptyIndex THEN NoIndex ELSE copies[c]]

\* get_active_variable_uid on copies none of which is empty.
get_active_variable_uid(copies) ==
    CASE copies["A"] = NoIndex /\ copies["B"] = NoIndex -> "does not exist"
      [] copies["A"] = NoIndex /\ copies["B"] # NoIndex -> "B"
      [] copies["A"] # NoIndex /\ copies["B"] = NoIndex -> "A"
      [] OTHER -> IF IsNewer(copies["B"].counter, copies["A"].counter) THEN "B"
                  ELSE IF IsNewer(copies["A"].counter, copies["B"].counter) THEN "A"
                  ELSE "storage failure"

\* The state at power on, and after load_variable_index was successful.
AtBoot(store) == [index |-> BootRam.index, active |-> BootRam.active, counter |-> BootRam.counter,
                  is_boot_service |-> BootRam.is_boot_service, vs |-> NoObjects,
                  nv |-> [store EXCEPT !.index = WithoutEmpty(@)]]

load_variable_index(s) ==
    LET active == get_active_variable_uid(s.nv.index)
    IN  IF active \notin Copies THEN s
        ELSE [s EXCEPT !.index = variable_index_restore(s.nv.index[active].entries),
                       !.active = active, !.counter = s.nv.index[active].counter]

uefi_variable_store_init(store) ==
    LET s == AtBoot(store)
    IN  (IF Faults \/ get_active_variable_uid(s.nv.index) = "storage failure"
         THEN {Outcome(s, "error")} ELSE {})
          \cup (IF get_active_variable_uid(s.nv.index) = "storage failure" THEN {}
                ELSE purge_orphan_index_entries(load_variable_index(s)))

------------------------------------------------------------------------------
(***************************************************************************)
(* What a client gets when it reads the variables (the access attributes   *)
(* aside).  With the power off it is what the next start will give.        *)
(***************************************************************************)
State == [index |-> ram.index, active |-> ram.active, counter |-> ram.counter,
          is_boot_service |-> ram.is_boot_service, nv |-> nv, vs |-> vs]

\* uefi_variable_store_get_variable and load_variable_data.
get_variable(s, n) ==
    IF ~IsIndexed(s.index, n) THEN Absent
    ELSE LET e == s.index[find_variable(s.index, n)]
         IN  IF ~e.is_variable_set \/ Object(s, e) = Absent THEN Absent
             ELSE [attributes |-> e.attributes, data |-> Object(s, e)]

Readable ==
    LET s == IF power = "up" THEN State ELSE load_variable_index(AtBoot(nv))
    IN  [n \in Names |-> get_variable(s, n)]

\* The next state, from an outcome.
Becomes(o) ==
    /\ power' = IF o.status = "cut" THEN "off" ELSE "up"
    /\ ram' = IF o.status = "cut" THEN BootRam
              ELSE [index |-> o.s.index, active |-> o.s.active, counter |-> o.s.counter,
                    is_boot_service |-> o.s.is_boot_service]
    /\ nv' = o.s.nv
    /\ vs' = IF o.status = "cut" THEN NoObjects ELSE o.s.vs

(***************************************************************************)
(* The promise after a step: what can be read of a variable if that is     *)
(* allowed, and something else if it is not.                               *)
(***************************************************************************)
Settled(read, allowed) == IF read \in allowed THEN read ELSE CHOOSE v \in allowed : TRUE

OthersAllowed(m, status) == {IF status = "cut" THEN AfterPowerFailure(promised[m]) ELSE promised[m]}

Promise(o, AllowedOf(_)) ==
    \E s \in {IF o.status = "cut" THEN load_variable_index(AtBoot(o.s.nv)) ELSE o.s} :
      promised' = [m \in Names |-> Settled(get_variable(s, m), AllowedOf(m))]

Init ==
    /\ power = "off"
    /\ ram = BootRam
    /\ nv = [index |-> [c \in Copies |-> NoIndex], object |-> NoObjects]
    /\ vs = NoObjects
    /\ promised = [n \in Names |-> Absent]

Start ==
    /\ power = "off"
    /\ \E o \in uefi_variable_store_init(nv) :
         IF o.status = "error"
         THEN power' = "failed" /\ UNCHANGED <<ram, nv, vs>>
         ELSE Becomes(o)
    /\ UNCHANGED promised

set_variable(n, attributes, size) ==
    /\ power = "up"
    /\ \E s \in {State} : \E o \in SetVariable(s, n, attributes, size) :
         LET Allowed(m) ==
               IF m # n THEN OthersAllowed(m, o.status)
               ELSE CASE o.status = "ok" -> Results(n, promised[n], attributes, size)
                      [] o.status = "error" -> {promised[n]}
                      [] OTHER -> ResultsOfCut(n, promised[n], attributes, size)
         IN  Becomes(o) /\ Promise(o, Allowed)

set_var_check_property(n, property) ==
    /\ power = "up"
    /\ \E s \in {State} : \E o \in SetProperty(s, n, property) :
         LET Allowed(m) == OthersAllowed(m, o.status) IN Becomes(o) /\ Promise(o, Allowed)

exit_boot_service ==
    /\ power = "up"
    /\ ram' = [ram EXCEPT !.is_boot_service = FALSE]
    /\ UNCHANGED <<power, nv, vs, promised>>

PowerFailure ==
    /\ power # "off"
    /\ Becomes(Outcome(State, "cut"))
    /\ promised' = [m \in Names |-> AfterPowerFailure(promised[m])]

Next ==
    \/ Start
    \/ \E n \in Names, attributes \in RequestAttributes, size \in DataSizes : set_variable(n, attributes, size)
    \/ \E n \in Names, property \in Properties : set_var_check_property(n, property)
    \/ exit_boot_service
    \/ PowerFailure

Spec == Init /\ [][Next]_vars

------------------------------------------------------------------------------
Copy == {NoIndex, EmptyIndex} \cup [counter : 0 .. CounterMod - 1, entries : Seq(
            [name : Names, uid : Uids, attributes : SUBSET Attributes,
             constraints : Constraints \cup {NoConstraints}])]
Objects == [Uids -> {Absent} \cup Seq(Names)]

\* The variables of the store, the two copies of the index and the objects have their types.
TypeOK ==
    /\ power \in {"off", "up", "failed"}
    /\ ram.index \in [Positions -> Entry]
    /\ ram.active \in Copies /\ ram.counter \in 0 .. CounterMod - 1 /\ ram.is_boot_service \in BOOLEAN
    /\ nv.index \in [Copies -> Copy] /\ nv.object \in Objects
    /\ vs \in Objects
    /\ DOMAIN promised = Names

(***************************************************************************)
(* Whatever power failures have cut short, one of the two copies of the    *)
(* index is known to be the newer one: uefi_variable_store_init does not   *)
(* end with "UEFI metadata variable index is invalid".                     *)
(***************************************************************************)
StoreStarts == power # "failed" /\ get_active_variable_uid(WithoutEmpty(nv.index)) # "storage failure"

(***************************************************************************)
(* Clients read what they were promised: a SetVariable call that returned  *)
(* success has its effect, one that returned an error has none, neither    *)
(* touches another variable, and a power failure takes away the volatile   *)
(* variables and no other.  Only a call during which the power fails may   *)
(* lose its variable.                                                      *)
(***************************************************************************)
PromisesKept == Readable = promised

(***************************************************************************)
(* It is never possible for an object to exist within the persistent store *)
(* without a corresponding index entry, in memory while the store runs and *)
(* in the stored index when it is to be started again (the comment in      *)
(* uefi_variable_store_set_variable).                                      *)
(***************************************************************************)
NoObjectWithoutEntry ==
    power # "failed" =>
        LET s == IF power = "up" THEN State ELSE load_variable_index(AtBoot(nv))
        IN  \A u \in Uids : nv.object[u] # Absent =>
                \E p \in Positions : IsNvVariable(s.index[p]) /\ s.index[p].uid = u

(***************************************************************************)
(* Between calls every NV variable has its object and is in the copy of    *)
(* the index that would be loaded, with the attributes and constraints it  *)
(* has in memory; no two entries share a uid.                              *)
(***************************************************************************)
IndexIsStored ==
    power = "up" => \A p \in Positions : LET e == ram.index[p] IN
        /\ IsNvVariable(e) =>
             /\ nv.object[e.uid] # Absent
             /\ \E i \in DOMAIN nv.index[ram.active].entries : nv.index[ram.active].entries[i] = Stored(e)
        /\ \A q \in Positions \ {p} : e.in_use /\ ram.index[q].in_use => e.uid # ram.index[q].uid

(***************************************************************************)
(* Both directions: objects of the persistent store and entries of the     *)
(* index, in memory and stored, are written by separate calls of           *)
(* uefi_variable_store_set_variable and still match.                       *)
(***************************************************************************)
IndexAndObjectsAgree == NoObjectWithoutEntry /\ IndexIsStored

(***************************************************************************)
(* GetNextVariableName, called with the name it returned last until it     *)
(* finds no more, gives every variable that is set once, and ends.         *)
(***************************************************************************)
EnumerationExact ==
    LET listed[k \in 0 .. MAX_VARIABLES + 1] ==
          IF k = 0 THEN variable_index_find_next(ram.index, NoName)
          ELSE IF listed[k - 1] = NoName THEN NoName
          ELSE variable_index_find_next(ram.index, listed[k - 1])
        times(n) == Cardinality({k \in 0 .. MAX_VARIABLES : listed[k] = n})
    IN  /\ listed[MAX_VARIABLES] = NoName
        /\ \A n \in Names : times(n) = IF \E p \in Positions : ram.index[p].name = n /\ ram.index[p].is_variable_set
                                       THEN 1 ELSE 0

(***************************************************************************)
(* After ExitBootServices a variable with boot service access only is      *)
(* neither changed nor removed until the next start, and a read-only one   *)
(* is not changed at all.                                                  *)
(***************************************************************************)
IsFrozen(e) ==
    \/ ~ram.is_boot_service /\ "BS" \in e.attributes /\ "RT" \notin e.attributes
    \/ e.constraints # NoConstraints /\ e.constraints.read_only

FrozenUnchanged ==
    [][power = "up" /\ power' = "up" => \A p \in Positions : LET e == ram.index[p] IN
         e.in_use /\ e.is_variable_set /\ IsFrozen(e) =>
            /\ ram'.index[p].is_variable_set /\ ram'.index[p].name = e.name
            /\ IF "NV" \in e.attributes THEN nv'.object[e.uid] = nv.object[e.uid] ELSE vs'[e.uid] = vs[e.uid]]_vars
==============================================================================
