------------------------ MODULE MetadataStoreProofs ------------------------
(***************************************************************************)
(* Proofs about the metadata manager, for every set of values.  Type       *)
(* correctness needs no assumption on the volumes; the other results hold  *)
(* when volume operations report no errors (~Faults), through power        *)
(* failures at any point.                                                  *)
(*                                                                         *)
(* Neither NeverLost nor the refinement is inductive: both need that the   *)
(* replicas agree whenever an update may start (CheckedReplicasAgree),     *)
(* which in turn needs that a skipped store would have stored nothing new  *)
(* (StoredCrcIsStored).                                                    *)
(***************************************************************************)
EXTENDS MetadataStore, TLAPS

Replica == Values \cup {Bad}

Volumes == [primary : Replica, backup : Replica]

\* The stores of `data' in the replicas of `which', all done or cut short, take n to s.
Effect(n, which, data, s) ==
    /\ s.status \in {"ok", "cut"}
    /\ s.nv = [primary |-> s.nv.primary, backup |-> s.nv.backup]
    /\ s.nv.primary \in {n.primary} \cup (IF "primary" \in which THEN {Bad, data} ELSE {})
    /\ s.nv.backup \in {n.backup} \cup (IF "backup" \in which THEN {Bad, data} ELSE {})
    /\ \/ s.nv.backup = n.backup
       \/ s.nv.primary = IF "primary" \in which THEN data ELSE n.primary
    /\ s.status = "ok" => /\ s.nv.primary = IF "primary" \in which THEN data ELSE n.primary
                          /\ s.nv.backup = IF "backup" \in which THEN data ELSE n.backup

(***************************************************************************)
(* What the stores of one call leave behind, when no volume operation      *)
(* reports an error: all of them done, or a power failure in one of them.  *)
(***************************************************************************)
LEMMA StoreOutcomes ==
    ASSUME NEW n \in Volumes,
           NEW which \in SUBSET Replicas,
           NEW data,
           NEW s \in StoreReplicas(n, which, data, FALSE)
    PROVE  Effect(n, which, data, s)
<1>1. PICK p \in Stores(n, which, data, FALSE, "primary"), b \in Stores(n, which, data, FALSE, "backup") :
        s = [nv     |-> [primary |-> p.holds,
                         backup  |-> IF p.status = "cut" THEN n.backup ELSE b.holds],
             status |-> Both(p.status, b.status)]
  BY Zenon DEF StoreReplicas
<1>2. ASSUME NEW r \in Replicas, NEW t \in Stores(n, which, data, FALSE, r)
      PROVE  /\ t.status \in {"ok", "cut"}
             /\ t.status = "ok" => t.holds = IF r \in which THEN data ELSE n[r]
             /\ t.holds \in {n[r]} \cup (IF r \in which THEN {Bad, data} ELSE {})
  BY <1>2 DEF store_metadata, Stores
<1>3. "primary" \in Replicas /\ "backup" \in Replicas
  BY DEF Replicas
<1>4. /\ p.status \in {"ok", "cut"}
      /\ p.status = "ok" => p.holds = IF "primary" \in which THEN data ELSE n.primary
      /\ p.holds \in {n.primary} \cup (IF "primary" \in which THEN {Bad, data} ELSE {})
  BY Zenon, <1>1, <1>2, <1>3
<1>5. /\ b.status \in {"ok", "cut"}
      /\ b.status = "ok" => b.holds = IF "backup" \in which THEN data ELSE n.backup
      /\ b.holds \in {n.backup} \cup (IF "backup" \in which THEN {Bad, data} ELSE {})
  BY Zenon, <1>1, <1>2, <1>3
<1> QED
  BY <1>1, <1>4, <1>5 DEF Both, Replicas, Effect
-----------------------------------------------------------------------------
(***************************************************************************)
(* Type correctness.                                                       *)
(***************************************************************************)
LEMMA StoreType ==
    ASSUME NEW n \in Volumes,
           NEW which \in SUBSET Replicas,
           NEW data \in Replica,
           NEW f \in BOOLEAN,
           NEW s \in StoreReplicas(n, which, data, f)
    PROVE  /\ s.nv \in Volumes
           /\ s.status \in {"ok", "error", "cut"}
<1>1. PICK p \in Stores(n, which, data, f, "primary"), b \in Stores(n, which, data, f, "backup") :
        s = [nv     |-> [primary |-> p.holds,
                         backup  |-> IF p.status = "cut" THEN n.backup ELSE b.holds],
             status |-> Both(p.status, b.status)]
  BY DEF StoreReplicas
<1>2. ASSUME NEW r \in Replicas, NEW t \in Stores(n, which, data, f, r)
      PROVE  t.holds \in Replica /\ t.status \in {"ok", "error", "cut"}
  BY <1>2 DEF store_metadata, Stores, Volumes, Replica, Replicas
<1>3. p.holds \in Replica /\ b.holds \in Replica
  BY <1>2 DEF Replicas
<1> QED
  BY <1>1, <1>3 DEF Both, Volumes

Memory == [cache : Values \cup {Bad, NoValue}, is_valid : BOOLEAN, is_dirty : BOOLEAN,
           stored_crc : Values \cup {NoValue}]

\* An update, complete or cut short, keeps the types.
LEMMA UpdateType ==
    ASSUME NEW m \in Memory, NEW n \in Volumes, NEW v \in Values,
           NEW o \in mm_update(m, n, v, Faults)
    PROVE  o.mm \in Memory /\ o.nv \in Volumes /\ o.status \in {"ok", "error", "cut"}
<1>1. Cached(m, v) \in Memory /\ [Cached(m, v) EXCEPT !.stored_crc = v] \in Memory
  BY Zenon DEF Cached, Memory
<1>2. CASE m.is_valid /\ m.stored_crc = v
  BY <1>1, <1>2 DEF mm_update
<1>3. CASE ~(m.is_valid /\ m.stored_crc = v)
  <2>1. PICK s \in StoreReplicas(n, Replicas, v, Faults) :
          /\ o.mm \in {Cached(m, v), [Cached(m, v) EXCEPT !.stored_crc = v]}
          /\ o.nv = s.nv
          /\ o.status = s.status
    BY <1>3 DEF mm_update
  <2>2. Replicas \in SUBSET Replicas /\ v \in Replica /\ Faults \in BOOLEAN
    BY ValuesAssumption DEF Replica
  <2> QED
    BY <1>1, <2>1, <2>2, StoreType DEF Volumes
<1> QED
  BY <1>2, <1>3

\* What check_and_repair works with: a replica's contents and a set of replicas.
LEMMA LoadedType ==
    ASSUME NEW n \in Volumes, NEW readable
    PROVE  Loaded(n, readable) \in Replica /\ Damaged(n, readable) \in SUBSET Replicas
  BY DEF Loaded, Damaged, Replica, Volumes

\* A repair, complete or cut short, keeps the types.
LEMMA RepairType ==
    ASSUME NEW m \in Memory, NEW n \in Volumes,
           NEW o \in check_and_repair(m, n, Faults)
    PROVE  o.mm \in Memory /\ o.nv \in Volumes /\ o.status \in {"ok", "error", "cut"}
<1>1. CASE m.is_valid
  BY <1>1 DEF check_and_repair
<1>2. CASE ~m.is_valid
  <2>1. PICK readable : o \in Repair(m, n, readable, Faults)
    BY <1>2 DEF check_and_repair
  <2>2. PICK s \in StoreReplicas(n, Damaged(n, readable), Loaded(n, readable), Faults) :
          /\ o.mm = AfterLoad(m, Loaded(n, readable))
          /\ o.nv = s.nv
          /\ o.status \in {"ok", "error", "cut"}
    BY <2>1 DEF Repair
  <2>3. AfterLoad(m, Loaded(n, readable)) \in Memory
    BY Zenon, LoadedType DEF AfterLoad, Memory, Replica
  <2>4. s.nv \in Volumes
    BY LoadedType, StoreType, ValuesAssumption DEF Volumes
  <2> QED
    BY <2>2, <2>3, <2>4
<1> QED
  BY <1>1, <1>2

\* metadata_manager_init gives the manager a memory of the right type.
LEMMA MmInitType == MmInit \in Memory
  BY DEF MmInit, Memory

\* The initial states have the right types.
LEMMA InitType == Init => TypeOK
<1> SUFFICES ASSUME Init PROVE TypeOK
  OBVIOUS
<1>1. mm \in Memory
  BY MmInitType DEF Init
<1>2. nv \in Volumes /\ last \in [call : Calls, value : Replica, status : {"ok", "error", "cut"}]
  BY DEF Init, Volumes, Replica, Calls
<1>3. checked \in BOOLEAN
  BY Zenon DEF Init
<1> QED
  BY <1>1, <1>2, <1>3 DEF TypeOK, Memory, Volumes, Replica

\* A call's outcome is of the right type whatever its status.
LEMMA OutcomeType ==
    ASSUME NEW call \in Calls, NEW value \in Replica, NEW o,
           o.mm \in Memory, o.nv \in Volumes, o.status \in {"ok", "error", "cut"},
           Outcome(call, value, o), checked' \in BOOLEAN
    PROVE  TypeOK'
  BY MmInitType DEF Outcome, TypeOK, Memory, Volumes, Replica

(***************************************************************************)
(* The manager's memory, the volumes and the recorded call always have     *)
(* their types, with or without volume errors.                             *)
(***************************************************************************)
THEOREM TypeCorrect == Spec => []TypeOK
<1>1. Init => TypeOK
  BY InitType
<1>2. TypeOK /\ [Next]_vars => TypeOK'
  <2> SUFFICES ASSUME TypeOK, [Next]_vars PROVE TypeOK'
    OBVIOUS
  <2>0. mm \in Memory /\ nv \in Volumes
    BY DEF TypeOK, Memory, Volumes, Replica
  <2>1. ASSUME NEW v \in Values, metadata_manager_update(v) PROVE TypeOK'
    BY <2>0, <2>1, UpdateType, OutcomeType DEF metadata_manager_update, Calls, Replica
  <2>2. CASE metadata_manager_check_and_repair
    BY <2>0, <2>2, RepairType, OutcomeType DEF metadata_manager_check_and_repair, Calls, Replica
  <2>3. CASE metadata_manager_fetch
    BY Zenon, <2>3 DEF metadata_manager_fetch, mm_fetch, TypeOK, Calls
  <2>4. CASE metadata_manager_cache_invalidate
    BY Zenon, <2>4 DEF metadata_manager_cache_invalidate, TypeOK, Calls
  <2>5. CASE PowerFailure
    BY Zenon, <2>5 DEF PowerFailure, MmInit, TypeOK, Calls
  <2>6. CASE UNCHANGED vars
    BY <2>6 DEF vars, TypeOK
  <2> QED
    BY <2>1, <2>2, <2>3, <2>4, <2>5, <2>6 DEF Next
<1> QED
  BY <1>1, <1>2, PTL DEF Spec

-----------------------------------------------------------------------------
(***************************************************************************)
(* The inductive invariant.                                                *)
(***************************************************************************)
Inv == TypeOK /\ StoredCrcIsStored /\ CheckedReplicasAgree

(***************************************************************************)
(* metadata_manager_update from equal replicas: done, or cut short with    *)
(* the old or the new value in the boot loader's view.                     *)
(***************************************************************************)
LEMMA UpdateOutcomes ==
    ASSUME Inv, checked,
           NEW v \in Values, NEW o \in mm_update(mm, nv, v, FALSE)
    PROVE  /\ o.status \in {"ok", "cut"}
           /\ o.status = "ok" => /\ o.nv.primary = v /\ o.nv.backup = v
                                 /\ o.mm.cache = v /\ o.mm.stored_crc = v
           /\ BootView(o.nv) \in {BootView(nv), v}
<1>0. mm \in Memory /\ nv \in Volumes
  BY DEF Inv, TypeOK, Memory, Volumes, Replica
<1>1. /\ Cached(mm, v).cache = v
      /\ Cached(mm, v).stored_crc = mm.stored_crc
      /\ [Cached(mm, v) EXCEPT !.stored_crc = v].cache = v
      /\ [Cached(mm, v) EXCEPT !.stored_crc = v].stored_crc = v
  BY <1>0 DEF Cached, Memory
<1>2. CASE mm.is_valid /\ mm.stored_crc = v
  <2>1. o.mm = Cached(mm, v) /\ o.nv = nv /\ o.status = "ok"
    BY <1>2 DEF mm_update
  <2>2. nv.primary = v /\ nv.backup = v
    BY <1>2 DEF Inv, CheckedReplicasAgree
  <2> QED
    BY <1>1, <1>2, <2>1, <2>2
<1>3. CASE ~(mm.is_valid /\ mm.stored_crc = v)
  <2>1. PICK s \in StoreReplicas(nv, Replicas, v, FALSE) :
          o = [mm     |-> IF s.status = "ok" THEN [Cached(mm, v) EXCEPT !.stored_crc = v]
                          ELSE Cached(mm, v),
               nv     |-> s.nv,
               status |-> s.status]
    BY Zenon, <1>3 DEF mm_update
  <2>2. nv.primary = nv.backup
    BY DEF Inv, CheckedReplicasAgree
  <2>3. v # Bad
    BY ValuesAssumption
  <2>4. Effect(nv, Replicas, v, s)
    BY Zenon, <1>0, StoreOutcomes
  <2>5. BootView(s.nv) \in {BootView(nv), v}
    BY <2>2, <2>3, <2>4 DEF BootView, Effect, Replicas
  <2>6. s.status \in {"ok", "cut"} /\ (s.status = "ok" => s.nv.primary = v /\ s.nv.backup = v)
    BY <2>4 DEF Effect, Replicas
  <2> QED
    BY <1>1, <2>1, <2>5, <2>6
<1> QED
  BY <1>2, <1>3

(***************************************************************************)
(* metadata_manager_check_and_repair never changes the boot loader's view, *)
(* and leaves equal replicas unless the power fails.                       *)
(***************************************************************************)
LEMMA RepairOutcomes ==
    ASSUME Inv, NEW o \in check_and_repair(mm, nv, FALSE)
    PROVE  /\ BootView(o.nv) = BootView(nv)
           /\ o.status # "cut" =>
                /\ o.nv.primary = o.nv.backup
                /\ o.mm.is_valid => o.mm.cache = o.nv.primary /\ o.mm.stored_crc = o.nv.primary
                /\ ~o.mm.is_valid => o.mm.stored_crc = mm.stored_crc /\ o.nv = nv
<1>0. mm \in Memory /\ nv \in Volumes
  BY DEF Inv, TypeOK, Memory, Volumes, Replica
<1>1. CASE mm.is_valid
  BY <1>1 DEF check_and_repair, Inv, CheckedReplicasAgree
<1>2. CASE ~mm.is_valid
  <2> DEFINE loaded == Loaded(nv, Replicas)
  <2>1. o \in Repair(mm, nv, Replicas, FALSE)
    BY Zenon, <1>0, <1>2 DEF check_and_repair
  <2>2. PICK s \in StoreReplicas(nv, Damaged(nv, Replicas), loaded, FALSE) :
          o = [mm     |-> AfterLoad(mm, loaded),
               nv     |-> s.nv,
               status |-> IF s.status = "cut" THEN "cut" ELSE IF loaded = Bad THEN "error" ELSE "ok"]
    BY Zenon, <2>1 DEF Repair
  <2>3. loaded = BootView(nv)
    BY DEF Loaded, BootView, Replicas
  <2>4. Damaged(nv, Replicas) \in SUBSET Replicas
    BY DEF Damaged
  <2>4a. Effect(nv, Damaged(nv, Replicas), loaded, s)
    BY Zenon, <1>0, <2>4, StoreOutcomes
  <2> HIDE DEF loaded
  <2>5. CASE loaded = Bad
    <3>1. Damaged(nv, Replicas) = {}
      BY <2>5 DEF Damaged, loaded
    <3>2. nv.primary = Bad /\ nv.backup = Bad
      BY <2>3, <2>5 DEF BootView
    <3>3. s.nv = nv
      BY <1>0, <2>4a, <3>1 DEF Volumes, Effect
    <3>4. o.mm.is_valid = mm.is_valid /\ o.mm.stored_crc = mm.stored_crc
      BY <1>0, <2>2, <2>5 DEF AfterLoad, Memory
    <3> QED
      BY <1>2, <2>2, <3>2, <3>3, <3>4
  <2>6. CASE loaded # Bad
    <3>1. o.mm.is_valid /\ o.mm.cache = loaded /\ o.mm.stored_crc = loaded
      BY Zenon, <1>0, <2>2, <2>6 DEF AfterLoad, Memory
    <3>2. \A r \in Replicas : r \notin Damaged(nv, Replicas) <=> nv[r] = loaded
      BY <2>6 DEF Damaged, loaded
    <3>3. s.status \in {"ok", "cut"} /\ (s.status = "ok" => s.nv.primary = loaded /\ s.nv.backup = loaded)
      BY <2>4a, <3>2 DEF Effect, Replicas
    <3>4. BootView(s.nv) = loaded
      BY <2>3, <2>4a, <2>6, <3>2 DEF BootView, Effect, Replicas
    <3> QED
      BY <2>2, <2>3, <3>1, <3>3, <3>4
  <2> QED
    BY <2>5, <2>6
<1> QED
  BY <1>1, <1>2

\* The inductive invariant holds initially and is kept by every step, without volume errors.
LEMMA Invariance ==
    ASSUME Faults = FALSE
    PROVE  /\ Init => Inv
           /\ Inv /\ TypeOK' /\ [Next]_vars => Inv'
<1>1. Init => Inv
  <2>1. Init => TypeOK
    BY InitType
  <2>2. Init => StoredCrcIsStored /\ CheckedReplicasAgree
    BY DEF Init, MmInit, StoredCrcIsStored, CheckedReplicasAgree
  <2> QED
    BY <2>1, <2>2 DEF Inv
<1>2. ASSUME Inv, TypeOK', [Next]_vars PROVE StoredCrcIsStored' /\ CheckedReplicasAgree'
  <2>0. mm \in Memory /\ MmInit.stored_crc = NoValue /\ ~MmInit.is_valid
    BY <1>2 DEF Inv, TypeOK, Memory, MmInit
  <2> USE <1>2 DEF StoredCrcIsStored, CheckedReplicasAgree
  <2>1. ASSUME NEW v \in Values, metadata_manager_update(v)
        PROVE  StoredCrcIsStored' /\ CheckedReplicasAgree'
    <3>1. PICK o \in mm_update(mm, nv, v, FALSE) : Outcome("update", v, o) /\ checked' = (o.status # "cut")
      BY Zenon, <2>1 DEF metadata_manager_update
    <3>2. checked
      BY <2>1 DEF metadata_manager_update
    <3>3. CASE o.status = "cut"
      BY Zenon, <2>0, <3>1, <3>3 DEF Outcome
    <3>4. CASE o.status # "cut"
      BY Zenon, <3>1, <3>2, <3>4, UpdateOutcomes DEF Outcome, Replicas
    <3> QED
      BY <3>3, <3>4
  <2>2. CASE metadata_manager_check_and_repair
    <3>1. PICK o \in check_and_repair(mm, nv, FALSE) : Outcome("repair", Bad, o) /\ checked' = (o.status # "cut")
      BY Zenon, <2>2 DEF metadata_manager_check_and_repair
    <3>2. CASE o.status = "cut"
      BY Zenon, <2>0, <3>1, <3>2 DEF Outcome
    <3>3. CASE o.status # "cut"
      BY Zenon, <3>1, <3>3, RepairOutcomes DEF Outcome, Replicas, Inv
    <3> QED
      BY <3>2, <3>3
  <2>3. CASE metadata_manager_fetch
    BY <2>0, <2>3 DEF metadata_manager_fetch, mm_fetch, Inv, Memory
  <2>4. CASE metadata_manager_cache_invalidate
    BY <2>0, <2>4 DEF metadata_manager_cache_invalidate, Inv, Memory
  <2>5. CASE PowerFailure
    BY <2>0, <2>5 DEF PowerFailure
  <2>6. CASE UNCHANGED vars
    BY <2>6 DEF vars, Inv
  <2> QED
    BY <2>1, <2>2, <2>3, <2>4, <2>5, <2>6 DEF Next
<1> QED
  BY <1>1, <1>2 DEF Inv

(***************************************************************************)
(* Without volume errors the replicas agree from check_and_repair until    *)
(* the next power failure, and a skipped store would have changed nothing. *)
(***************************************************************************)
THEOREM ReplicasAgree ==
    ASSUME Faults = FALSE
    PROVE  Spec => [](StoredCrcIsStored /\ CheckedReplicasAgree)
<1>1. Init => Inv
  BY Zenon, Invariance
<1>2. Inv /\ TypeOK' /\ [Next]_vars => Inv'
  BY Zenon, Invariance
<1>3. Inv => StoredCrcIsStored /\ CheckedReplicasAgree
  BY DEF Inv
<1> QED
  BY <1>1, <1>2, <1>3, TypeCorrect, PTL DEF Spec

(***************************************************************************)
(* A step of the manager is a step of the durable cell.                    *)
(***************************************************************************)
LEMMA StepRefines ==
    ASSUME Faults = FALSE, Inv, [Next]_vars
    PROVE  [Durable!DNext]_(Durable!dvars)
<1> USE DEF Durable!DNext, Durable!dvars
<1>1. ASSUME NEW v \in Values, metadata_manager_update(v)
      PROVE  Durable!DUpdate(v) \/ Durable!DUpdateCut(v)
  <2>1. PICK o \in mm_update(mm, nv, v, FALSE) : Outcome("update", v, o)
    BY Zenon, <1>1 DEF metadata_manager_update
  <2>2. checked
    BY <1>1 DEF metadata_manager_update
  <2>3. nv' = o.nv /\ last' = [call |-> "update", value |-> v, status |-> o.status]
    BY <2>1 DEF Outcome
  <2>4. /\ o.status \in {"ok", "cut"}
        /\ o.status = "ok" => o.nv.primary = v
        /\ BootView(o.nv) \in {BootView(nv), v}
    BY Zenon, <2>1, <2>2, UpdateOutcomes
  <2>5. v # Bad
    BY ValuesAssumption
  <2> QED
    BY <2>3, <2>4, <2>5 DEF Durable!DUpdate, Durable!DUpdateCut, BootView
<1>2. CASE metadata_manager_check_and_repair
  <2>1. PICK o \in check_and_repair(mm, nv, FALSE) : Outcome("repair", Bad, o)
    BY Zenon, <1>2 DEF metadata_manager_check_and_repair
  <2>2. BootView(o.nv) = BootView(nv)
    BY Zenon, <2>1, RepairOutcomes
  <2> QED
    BY <2>1, <2>2 DEF Outcome, Durable!DOther
<1>3. CASE metadata_manager_fetch
  BY <1>3 DEF metadata_manager_fetch, Durable!DOther
<1>4. CASE metadata_manager_cache_invalidate
  BY <1>4 DEF metadata_manager_cache_invalidate, Durable!DOther
<1>5. CASE PowerFailure
  BY <1>5 DEF PowerFailure, Durable!DOther
<1>6. CASE UNCHANGED vars
  BY <1>6 DEF vars
<1> QED
  BY <1>1, <1>2, <1>3, <1>4, <1>5, <1>6 DEF Next

(***************************************************************************)
(* Without volume errors the metadata manager implements a durable cell:   *)
(* what the boot loader reads changes only by updates, and an update that  *)
(* is cut short takes effect completely or not at all.                     *)
(***************************************************************************)
THEOREM Refinement ==
    ASSUME Faults = FALSE
    PROVE  Spec => ImplementsDurable
<1>1. Init => Durable!DInit
  BY DEF Init, Durable!DInit, BootView
<1>2. Inv /\ [Next]_vars => [Durable!DNext]_(Durable!dvars)
  BY Zenon, StepRefines
<1>3. Init => Inv
  BY Zenon, Invariance
<1>4. Inv /\ TypeOK' /\ [Next]_vars => Inv'
  BY Zenon, Invariance
<1> QED
  BY <1>1, <1>2, <1>3, <1>4, TypeCorrect, PTL DEF Spec, ImplementsDurable, Durable!DSpec

(***************************************************************************)
(* Without volume errors valid metadata, once written, is found by the     *)
(* boot loader at every later moment, power failures included.             *)
(***************************************************************************)
THEOREM MetadataNeverLost ==
    ASSUME Faults = FALSE
    PROVE  Spec => NeverLost
<1>1. ASSUME [Durable!DNext]_(Durable!dvars)
      PROVE  BootView(nv) # Bad => BootView(nv') # Bad
  BY <1>1, ValuesAssumption
     DEF Durable!DNext, Durable!dvars, Durable!DUpdate, Durable!DUpdateCut, Durable!DOther
<1>2. [Durable!DNext]_(Durable!dvars) => [BootView(nv) # Bad => BootView(nv') # Bad]_vars
  BY <1>1
<1> QED
  BY <1>2, Refinement, PTL DEF ImplementsDurable, Durable!DSpec, NeverLost
=============================================================================
