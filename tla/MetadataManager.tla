-------------------------- MODULE MetadataManager --------------------------
(***************************************************************************)
(* The FWU metadata manager (components/service/fwu/fw_store/banked/       *)
(* metadata_manager.c): two replicas of the metadata in NV storage, a      *)
(* cached copy in memory and the CRC of what is believed to be stored.     *)
(*                                                                         *)
(* The manager's memory is a record `mm', the two NV volumes a record      *)
(* `nv'.  A replica holds a value or Bad: erased, half written, or         *)
(* anything else whose CRC check fails.  The CRC of a value is the value   *)
(* itself: CRC collisions are left out.                                    *)
(*                                                                         *)
(* The functions of the C module are operators that give the set of their  *)
(* possible outcomes.  The status of an outcome is "ok", "error" (an I/O   *)
(* error was reported) or "cut": the power failed before the function      *)
(* returned.  `faults' says whether volume operations may report errors.   *)
(***************************************************************************)
CONSTANTS
    Bad,        \* contents of a replica that fails its CRC check
    NoValue     \* the cache and stored_crc before they are set

Replicas == {"primary", "backup"}

\* metadata_manager_init: an empty cache; both volumes are accessible.
MmInit == [cache |-> NoValue, is_valid |-> FALSE, is_dirty |-> FALSE, stored_crc |-> NoValue]

(***************************************************************************)
(* store_metadata on one replica: open, erase, write.  An error of open or *)
(* erase leaves the old contents, an error of erase or write an unreadable *)
(* replica.  A power failure leaves the old, no or the new contents.       *)
(***************************************************************************)
store_metadata(old, data, faults) ==
    {[holds |-> data, status |-> "ok"]}
      \cup [holds : {old, Bad, data}, status : {"cut"}]
      \cup (IF faults THEN [holds : {old, Bad}, status : {"error"}] ELSE {})

\* The store of one replica; a replica not in `which' keeps what it holds.
Stores(nv, which, data, faults, r) ==
    IF r \in which THEN store_metadata(nv[r], data, faults) ELSE {[holds |-> nv[r], status |-> "ok"]}

\* The status of two stores made one after the other.
Both(s, t) == CASE s = "cut" \/ t = "cut" -> "cut"
                [] s = "error" \/ t = "error" -> "error"
                [] OTHER -> "ok"

(***************************************************************************)
(* The stores of one call: the primary if it is in `which', then the       *)
(* backup if it is in `which'.  An error of the first does not stop the    *)
(* second; a power failure does.                                           *)
(***************************************************************************)
StoreReplicas(nv, which, data, faults) ==
    UNION {{[nv     |-> [primary |-> p.holds,
                         backup  |-> IF p.status = "cut" THEN nv.backup ELSE b.holds],
             status |-> Both(p.status, b.status)]
           : b \in Stores(nv, which, data, faults, "backup")}
           : p \in Stores(nv, which, data, faults, "primary")}

\* Mutant: the backup is preferred.
Loaded_BackupFirst(nv, readable) ==
    IF "backup" \in readable /\ nv.backup # Bad THEN nv.backup
    ELSE IF "primary" \in readable THEN nv.primary ELSE Bad

(***************************************************************************)
(* metadata_manager_check_and_repair.  The primary is loaded if it passes  *)
(* its check, else the backup; every replica that does not hold what was   *)
(* loaded is then repaired.  A failed repair is not reported.              *)
(***************************************************************************)
Loaded(nv, readable) ==
    IF "primary" \in readable /\ nv.primary # Bad THEN nv.primary
    ELSE IF "backup" \in readable THEN nv.backup ELSE Bad

\* Mutant: the CRCs of two valid replicas are not compared.
Damaged_NoCompare(nv, readable) ==
    {r \in Replicas : Loaded(nv, readable) # Bad /\ (r \notin readable \/ nv[r] = Bad)}

\* The replicas to repair: none if nothing could be loaded.
Damaged(nv, readable) ==
    {r \in Replicas : Loaded(nv, readable) # Bad /\ (r \notin readable \/ nv[r] # Loaded(nv, readable))}

\* The manager's memory after loading.
AfterLoad(mm, loaded) ==
    IF loaded = Bad THEN [mm EXCEPT !.cache = Bad]
    ELSE [mm EXCEPT !.cache = loaded, !.is_valid = TRUE, !.stored_crc = loaded]

Repair(mm, nv, readable, faults) ==
    {[mm     |-> AfterLoad(mm, Loaded(nv, readable)),
      nv     |-> s.nv,
      status |-> IF s.status = "cut" THEN "cut" ELSE IF Loaded(nv, readable) = Bad THEN "error" ELSE "ok"]
     : s \in StoreReplicas(nv, Damaged(nv, readable), Loaded(nv, readable), faults)}

check_and_repair(mm, nv, faults) ==
    IF mm.is_valid THEN {[mm |-> mm, nv |-> nv, status |-> "ok"]}
    ELSE UNION {Repair(mm, nv, readable, faults) :
                    readable \in IF faults THEN SUBSET Replicas ELSE {Replicas}}

\* The cache after serialization.
Cached(mm, data) == [mm EXCEPT !.cache = data, !.is_valid = TRUE, !.is_dirty = TRUE]

(***************************************************************************)
(* metadata_manager_update: serialize `data' into the cache, then store it *)
(* in both replicas unless its CRC is the one believed to be stored.       *)
(***************************************************************************)
mm_update(mm, nv, data, faults) ==
    IF mm.is_valid /\ mm.stored_crc = data
    THEN {[mm |-> Cached(mm, data), nv |-> nv, status |-> "ok"]}
    ELSE {[mm     |-> IF s.status = "ok" THEN [Cached(mm, data) EXCEPT !.stored_crc = data]
                      ELSE Cached(mm, data),
           nv     |-> s.nv,
           status |-> s.status] : s \in StoreReplicas(nv, Replicas, data, faults)}

\* metadata_manager_fetch, for a valid cache.
mm_fetch(mm) == [mm EXCEPT !.is_dirty = FALSE]

(***************************************************************************)
(* What the boot loader reads: the primary, else the backup.               *)
(***************************************************************************)
BootView(nv) == IF nv.primary # Bad THEN nv.primary ELSE nv.backup
=============================================================================
