--------------------------- MODULE MetadataStore ---------------------------
(***************************************************************************)
(* The metadata manager as a component: any sequence of calls of its       *)
(* functions, with power failures during and between the calls.            *)
(***************************************************************************)
EXTENDS MetadataManager

CONSTANTS
    Values,     \* the metadata values its callers store
    Faults      \* whether volume operations may report errors

ASSUME ValuesAssumption ==
    /\ Bad \notin Values
    /\ NoValue \notin Values
    /\ NoValue # Bad
    /\ Faults \in BOOLEAN

VARIABLES
    mm,         \* struct metadata_manager
    nv,         \* the primary and backup metadata volumes
    checked,    \* check_and_repair has returned since the start
    last        \* the last call: its name, its argument and its status

vars == <<mm, nv, checked, last>>

\* Before the first boot no valid metadata exists.
Init ==
    /\ mm = MmInit
    /\ nv = [primary |-> Bad, backup |-> Bad]
    /\ checked = FALSE
    /\ last = [call |-> "init", value |-> Bad, status |-> "ok"]

\* The outcome of a call; after a power failure the manager is initialized again.
Outcome(call, value, o) ==
    /\ mm' = IF o.status = "cut" THEN MmInit ELSE o.mm
    /\ nv' = o.nv
    /\ last' = [call |-> call, value |-> value, status |-> o.status]

\* fw_store_synchronize, called first after a start, checks before it updates.
metadata_manager_update(v) ==
    /\ checked
    /\ \E o \in mm_update(mm, nv, v, Faults) :
         Outcome("update", v, o) /\ checked' = (o.status # "cut")

metadata_manager_check_and_repair ==
    \E o \in check_and_repair(mm, nv, Faults) :
        Outcome("repair", Bad, o) /\ checked' = (o.status # "cut")

metadata_manager_fetch ==
    /\ mm' = IF mm.is_valid THEN mm_fetch(mm) ELSE mm
    /\ UNCHANGED <<nv, checked>>
    /\ last' = [call |-> "fetch", value |-> Bad, status |-> IF mm.is_valid THEN "ok" ELSE "error"]

metadata_manager_cache_invalidate ==
    /\ mm' = [mm EXCEPT !.is_valid = FALSE]
    /\ UNCHANGED <<nv, checked>>
    /\ last' = [call |-> "invalidate", value |-> Bad, status |-> "ok"]

\* A power failure between two calls.
PowerFailure ==
    /\ mm' = MmInit
    /\ UNCHANGED nv
    /\ checked' = FALSE
    /\ last' = [call |-> "restart", value |-> Bad, status |-> "ok"]

Next ==
    \/ \E v \in Values : metadata_manager_update(v)
    \/ metadata_manager_check_and_repair
    \/ metadata_manager_fetch
    \/ metadata_manager_cache_invalidate
    \/ PowerFailure

Spec == Init /\ [][Next]_vars

-----------------------------------------------------------------------------
Calls == {"init", "update", "repair", "fetch", "invalidate", "restart"}

\* Type invariant of the manager's memory, the volumes and the last call.
TypeOK ==
    /\ mm \in [cache : Values \cup {Bad, NoValue}, is_valid : BOOLEAN, is_dirty : BOOLEAN,
               stored_crc : Values \cup {NoValue}]
    /\ nv \in [primary : Values \cup {Bad}, backup : Values \cup {Bad}]
    /\ checked \in BOOLEAN
    /\ last \in [call : Calls, value : Values \cup {Bad}, status : {"ok", "error", "cut"}]

(***************************************************************************)
(* What metadata_manager_update trusts when it skips a store: if           *)
(* stored_crc is set, both replicas hold that value.                       *)
(***************************************************************************)
StoredCrcIsStored ==
    mm.stored_crc # NoValue => \A r \in Replicas : nv[r] = mm.stored_crc

(***************************************************************************)
(* The replica scheme of metadata_manager.h: once metadata has been        *)
(* written the boot loader finds a valid copy at every moment, whatever    *)
(* power failures interrupt updates and repairs.                           *)
(***************************************************************************)
NeverLost == [][BootView(nv) # Bad => BootView(nv') # Bad]_vars

(***************************************************************************)
(* From check_and_repair on, and between any two calls until the next      *)
(* power failure, the replicas are equal, so that losing one of them       *)
(* cannot bring an older value back; and the cache that clients read is    *)
(* what is stored.                                                         *)
(***************************************************************************)
CheckedReplicasAgree ==
    /\ checked => nv.primary = nv.backup
    /\ mm.is_valid => checked /\ mm.cache = nv.primary /\ mm.stored_crc = nv.primary

(***************************************************************************)
(* metadata_manager_update returns success only when the boot loader sees  *)
(* the value it was given ("Update the FWU metadata seen by the boot       *)
(* loader ... Status 0 if successful").                                    *)
(***************************************************************************)
SuccessIsSeen ==
    last.call = "update" /\ last.status = "ok" => BootView(nv) = last.value

(***************************************************************************)
(* The manager implements a durable cell: see module DurableMetadata.      *)
(***************************************************************************)
Durable == INSTANCE DurableMetadata WITH view <- BootView(nv)
ImplementsDurable == Durable!DSpec
=============================================================================
