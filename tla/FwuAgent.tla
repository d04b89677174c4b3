----------------------------- MODULE FwuAgent -----------------------------
(***************************************************************************)
(* The update agent with its stream manager, banked firmware store and     *)
(* metadata manager, through client calls, power failures and reboots.     *)
(*                                                                         *)
(* Each action is one call of the update agent interface.  A power failure *)
(* may cut a call short: the volumes are then left as the part of the call *)
(* that was done left them, and everything in memory is gone.              *)
(***************************************************************************)
EXTENDS FwStore, StreamManager, MetadataManager

CONSTANTS
    Buffers,            \* of "directory", "metadata": the objects the client opens to read
    Faults,             \* whether metadata volumes may report errors
    IoFaults,           \* whether firmware volumes may report errors
    RebootAfterRevert,  \* the client reboots after select_previous in a trial
    BufferLen,          \* the length of a buffer, in reads
    MaxTx               \* bound: the number of transactions

ASSUME AgentAssumption ==
    /\ Buffers \subseteq {"directory", "metadata"}
    /\ {Faults, IoFaults, RebootAfterRevert} \subseteq BOOLEAN
    /\ {BufferLen, MaxTx} \subseteq Nat

VARIABLES
    state,          \* enum fwu_state; "OFF" while the system is down
    boot_index,
    update_index,
    tracker,        \* struct bank_tracker
    inst,           \* the raw installer of each location
    sm,             \* struct stream_manager
    image_dir_buf,  \* the accepted images in the serialized image directory
    mm,             \* struct metadata_manager
    nv,             \* the metadata volumes
    vol,            \* the firmware volumes, per bank and location
    \* What the properties refer to:
    tx,             \* the number of transactions begun
    sealed,         \* what each bank held when it was last finalized
    committed,      \* per location, the image the client installed without error in this transaction
    reverted,       \* select_previous was called in a trial since the last boot
    seen            \* for each buffer stream, what the buffer held when it was read

agent == <<state, boot_index, update_index, tracker, inst>>
ghosts == <<committed, reverted, seen>>
volatile == <<agent, sm, mm, image_dir_buf, ghosts>>
vars == <<volatile, nv, vol, tx, sealed>>

Image(t, n) == [tx |-> t, n |-> n]
Erased == Image(0, 0)
None == [l \in Locations |-> NULL]
Idle == [l \in Locations |-> installer_init]

\* Memory when the system is down.
Off ==
    /\ state' = "OFF"
    /\ boot_index' = 0 /\ update_index' = 0
    /\ tracker' = bank_tracker_init
    /\ inst' = Idle
    /\ sm' = stream_manager_init
    /\ mm' = MmInit
    /\ image_dir_buf' = {}
    /\ committed' = None
    /\ reverted' = FALSE
    /\ seen' = [c \in Contexts |-> {}]

\* The factory state: bank 0 holds firmware, there is no metadata yet.
Init ==
    /\ state = "OFF"
    /\ boot_index = 0 /\ update_index = 0
    /\ tracker = bank_tracker_init
    /\ inst = Idle
    /\ sm = stream_manager_init
    /\ mm = MmInit
    /\ nv = [primary |-> Bad, backup |-> Bad]
    /\ vol = [b \in Banks |-> [l \in Locations |-> IF b = 0 THEN Image(0, Chunks) ELSE Erased]]
    /\ tx = 0
    /\ sealed = [vol EXCEPT ![1] = None]
    /\ image_dir_buf = {}
    /\ committed = None
    /\ reverted = FALSE
    /\ seen = [c \in Contexts |-> {}]

-----------------------------------------------------------------------------
(* Boot. *)

\* The boot loader's choice: the active bank or, if that does not boot, the previous one.
BootChoice ==
    LET md == BootView(nv) IN IF md = Bad THEN {0} ELSE {md.active, md.previous}

\* fw_store_synchronize: its outcomes, as those of check_and_repair, and the tracker.
Synchronized(boot) ==
    UNION {
      LET md    == r.mm.cache
          known == deserialize_bank_info(md)
          fresh == set_holds_accepted_content(bank_tracker_init, boot)
          Update(m, t) == {[mm |-> u.mm, nv |-> u.nv, status |-> u.status, tracker |-> t] :
                             u \in mm_update(m, r.nv, serialize(boot, boot, t), Faults)}
      IN  CASE r.status = "cut"   -> {[mm |-> r.mm, nv |-> r.nv, status |-> "cut", tracker |-> bank_tracker_init]}
            [] r.status = "error" -> Update(r.mm, fresh)
            [] r.status = "ok"    ->
                 IF boot # md.active THEN Update(r.mm, known)
                 ELSE {[mm |-> r.mm, nv |-> r.nv, status |-> "ok", tracker |-> known]}
      : r \in check_and_repair(MmInit, nv, Faults)}

\* update_agent_init; without an agent the service stays down until the next boot.
Boot ==
    /\ state = "OFF"
    /\ \E boot \in BootChoice : \E o \in Synchronized(boot) :
         /\ nv' = o.nv
         /\ UNCHANGED <<vol, tx, sealed>>
         /\ IF o.status # "ok" THEN Off
            ELSE /\ boot_index' = boot
                 /\ update_index' = bank_scheme_next_index(boot)
                 /\ tracker' = o.tracker
                 /\ mm' = o.mm
                 /\ state' = IF is_all_accepted(o.tracker, boot) THEN "REGULAR" ELSE "TRIAL"
                 /\ UNCHANGED <<inst, sm, image_dir_buf, ghosts>>

\* A power failure or reset between two calls.
Restart ==
    /\ state # "OFF"
    /\ Off
    /\ UNCHANGED <<nv, vol, tx, sealed>>

-----------------------------------------------------------------------------
(* Staging. *)

\* The active installers, aborted or finalized.
Ended == [l \in Locations |-> IF inst[l].active THEN installer_end(inst[l]) ELSE inst[l]]

\* What the streams have read, for the streams that are left.
SeenLeft == [c \in Contexts |-> IF sm'.type[c] = "buffer" THEN seen[c] ELSE {}]

\* The result of a metadata update with `md': power failure, or whatever Then(ok) says.
Store(md, Then(_)) ==
    \E o \in mm_update(mm, nv, md, Faults) :
        /\ nv' = o.nv
        /\ IF o.status = "cut" THEN Off ELSE mm' = o.mm /\ Then(o.status = "ok")

\* Mutant: the update bank stays the previous active bank.
begin_metadata_KeepPrevious(t) == serialize(boot_index, update_index, t)

\* The metadata that protects the update bank from use.
begin_metadata(t) == serialize(boot_index, boot_index, t)

begin_staging ==
    /\ state \in {"REGULAR", "STAGING"}
    /\ tx < MaxTx
    /\ RebootAfterRevert => ~reverted
    /\ LET t == set_no_content(tracker, update_index)
           Then(ok) ==
             /\ state' = IF ok THEN "STAGING" ELSE "REGULAR"
             /\ tracker' = t
             /\ sm' = IF state = "STAGING" THEN stream_manager_cancel_streams(sm, "install") ELSE sm
             /\ inst' = IF state = "STAGING" THEN Ended ELSE inst
             /\ committed' = None
             /\ seen' = SeenLeft
             /\ UNCHANGED <<boot_index, update_index, image_dir_buf, reverted>>
       IN  Store(begin_metadata(t), Then)
    /\ tx' = tx + 1
    /\ UNCHANGED <<vol, sealed>>

cancel_staging ==
    /\ state = "STAGING"
    /\ state' = "REGULAR"
    /\ sm' = stream_manager_cancel_streams(sm, "install")
    /\ inst' = Ended
    /\ committed' = None
    /\ seen' = SeenLeft
    /\ UNCHANGED <<boot_index, update_index, tracker, mm, image_dir_buf, reverted, nv, vol, tx, sealed>>

\* Opening a stream, which may recycle an install stream and so commit its image.
OpenStream(installers, type, source) ==
    LET victim == Recycled(Cancelled(sm, type, source))
    IN  /\ sm' = Open(sm, type, source)
        /\ seen' = [SeenLeft EXCEPT ![sm'.head] = {}]
        /\ inst' = IF victim # NULL /\ sm.type[victim] = "install" /\ installers[sm.source[victim]].active
                   THEN [installers EXCEPT ![sm.source[victim]] = installer_commit(@)]
                   ELSE installers

open_image_directory ==
    /\ state # "OFF"
    /\ image_dir_buf' = tracker[boot_index].accepted
    /\ OpenStream(inst, "buffer", "directory")
    /\ UNCHANGED <<state, boot_index, update_index, tracker, mm, committed, reverted, nv, vol, tx, sealed>>

\* fw_store_export of the FWU metadata
open_fw_store_object ==
    /\ state # "OFF" /\ mm.is_valid
    /\ mm' = mm_fetch(mm)
    /\ OpenStream(inst, "buffer", "metadata")
    /\ UNCHANGED <<state, boot_index, update_index, tracker, image_dir_buf, committed, reverted, nv, vol, tx, sealed>>

\* fw_store_select_installer and the opening of the stream
open_fw_image(l) ==
    LET i      == IF inst[l].active THEN inst[l] ELSE installer_begin(inst[l])
        erased == [vol EXCEPT ![update_index][l] = Erased]
    IN  /\ state = "STAGING"
        /\ UNCHANGED <<nv, tx, sealed>>
        /\ \/ /\ raw_may_open(i)
              /\ vol' = erased
              /\ OpenStream([inst EXCEPT ![l] = installer_opened(i)], "install", l)
              /\ UNCHANGED <<state, boot_index, update_index, tracker, mm, image_dir_buf, committed, reverted>>
           \/ /\ raw_may_open(i) => IoFaults
              /\ vol' \in IF raw_may_open(i) THEN {vol, erased} ELSE {vol}
              /\ inst' = [inst EXCEPT ![l] = installer_failed(i)]
              /\ committed' = [committed EXCEPT ![l] = NULL]
              /\ UNCHANGED <<state, boot_index, update_index, tracker, sm, mm, image_dir_buf, reverted, seen>>
           \/ /\ raw_may_open(i)
              /\ vol' \in {vol, erased}
              /\ Off

\* The install stream of h, and the chunk its next write adds.
IsInstall(h) == IsActive(sm, h) /\ sm.type[h[1]] = "install"
Appended(l) == [vol EXCEPT ![update_index][l] = Image(tx, @.n + 1)]

\* stream_manager_write, fw_store_write_image of one chunk.  A full volume takes none of it.
write_stream(h) ==
    LET l == sm.source[h[1]]
        full == vol[update_index][l].n = Chunks
    IN  /\ IsInstall(h) /\ inst[l].active
        /\ UNCHANGED <<nv, tx, sealed>>
        /\ \/ /\ inst[l].open /\ ~full
              /\ vol' = Appended(l)
              /\ inst' = [inst EXCEPT ![l] = installer_written(@)]
              /\ UNCHANGED <<state, boot_index, update_index, tracker, sm, mm, image_dir_buf, ghosts>>
           \/ /\ inst[l].open /\ ~full => IoFaults
              /\ inst' = [inst EXCEPT ![l] = installer_failed(@)]
              /\ UNCHANGED <<state, boot_index, update_index, tracker, sm, mm, image_dir_buf, ghosts, vol>>
           \/ /\ inst[l].open /\ ~full
              /\ vol' = Appended(l)
              /\ Off

\* stream_manager_close; the context is freed whatever fw_store_commit_image says.
commit(h, accepted) ==
    LET l  == sm.source[h[1]]
        ok == IsInstall(h) /\ inst[l].active /\ commit_ok(inst[l])
    IN  /\ IsActive(sm, h)
        /\ sm' = free_stream_context(sm, h[1])
        /\ seen' = SeenLeft
        /\ inst' = IF IsInstall(h) /\ inst[l].active THEN [inst EXCEPT ![l] = installer_commit(@)] ELSE inst
        /\ tracker' = IF ok /\ accepted THEN bank_tracker_accept(tracker, update_index, l) ELSE tracker
        /\ committed' = IF ok /\ ~inst[l].failed THEN [committed EXCEPT ![l] = vol[update_index][l]]
                        ELSE committed
        /\ UNCHANGED <<state, boot_index, update_index, mm, image_dir_buf, reverted, nv, vol, tx, sealed>>

\* stream_manager_read, one unit at a time.
read_stream(h) ==
    LET c == h[1] IN
    /\ IsActive(sm, h) /\ sm.type[c] = "buffer"
    /\ ReadLen(sm, h, BufferLen, 1) > 0
    /\ sm' = [sm EXCEPT !.pos[c] = @ + ReadLen(sm, h, BufferLen, 1)]
    /\ seen' = [seen EXCEPT ![c] = @ \cup {IF sm.source[c] = "metadata" THEN mm.cache ELSE image_dir_buf}]
    /\ UNCHANGED <<agent, mm, image_dir_buf, committed, reverted, nv, vol, tx, sealed>>

-----------------------------------------------------------------------------
(* The end of staging: fw_store_finalize_install.                          *)

\* Mutant: a failed installer counts as one that installed its image.
Unchanged_IgnoreStatus == {l \in Locations : ~inst[l].active}

\* The locations whose image was not installed without error.
Unchanged == {l \in Locations : ~inst[l].active \/ inst[l].failed}

\* The update bank after copying the locations in `done'.
Copied(done) == [vol EXCEPT ![update_index] =
                   [l \in Locations |-> IF l \in done THEN vol[boot_index][l] ELSE @[l]]]

\* ... and with a copy into `l' broken off after n chunks.
BrokenOff(done, l, n) == [Copied(done) EXCEPT ![update_index][l] = Image(vol[boot_index][l].tx, n)]

\* The possible volumes when install_unchanged_images stops early.
Stopped(done) ==
    {Copied(done)} \cup UNION {{BrokenOff(done, l, n) : n \in 0 .. vol[boot_index][l].n - 1}
                              : l \in (Unchanged \cap CopyInstallers) \ done}

MayEnd == state = "STAGING" /\ ~stream_manager_is_open_streams(sm, "install") /\ \E l \in Locations : inst[l].active

\* Every location is installed or copied; the metadata promotes the update bank.
end_staging ==
    LET t == set_holds_content(copy_accept(tracker, boot_index, update_index, Unchanged), update_index)
        Then(ok) ==
          /\ state' = IF ok THEN "TRIAL_PENDING" ELSE "STAGING"
          /\ tracker' = t
          /\ inst' = Ended
          /\ committed' = IF ok THEN committed ELSE None
          /\ UNCHANGED <<boot_index, update_index, sm, image_dir_buf, reverted, seen>>
    IN  /\ MayEnd
        /\ Unchanged \subseteq CopyInstallers
        /\ vol' = Copied(Unchanged)
        /\ sealed' = [sealed EXCEPT ![update_index] = vol'[update_index]]
        /\ Store(serialize(update_index, boot_index, t), Then)
        /\ UNCHANGED tx

\* A location cannot be copied: all installers are aborted and the state stays STAGING.
end_staging_failed ==
    /\ MayEnd
    /\ Unchanged # {}
    /\ \E done \in SUBSET (Unchanged \cap CopyInstallers) :
         /\ done # Unchanged
         /\ Unchanged \subseteq CopyInstallers => IoFaults
         /\ vol' \in IF IoFaults THEN Stopped(done) ELSE {Copied(done)}
         /\ tracker' = copy_accept(tracker, boot_index, update_index, done)
    /\ inst' = Ended
    /\ committed' = None
    /\ UNCHANGED <<state, boot_index, update_index, sm, mm, image_dir_buf, reverted, seen, nv, tx, sealed>>

\* The power fails during the copies.
end_staging_cut ==
    /\ MayEnd
    /\ \E done \in SUBSET (Unchanged \cap CopyInstallers) : done # Unchanged /\ vol' \in Stopped(done)
    /\ Off
    /\ UNCHANGED <<nv, tx, sealed>>

-----------------------------------------------------------------------------
(* Acceptance and reversion. *)

\* A failed metadata update is not reported: the trial goes on.
accept(l) ==
    LET t == bank_tracker_accept(tracker, boot_index, l)
        Then(ok) ==
          /\ state' = IF ok /\ is_all_accepted(t, boot_index) THEN "REGULAR" ELSE "TRIAL"
          /\ tracker' = t
          /\ UNCHANGED <<boot_index, update_index, inst, sm, image_dir_buf, ghosts>>
    IN  /\ state = "TRIAL"
        /\ Store(serialize(boot_index, update_index, t), Then)
        /\ UNCHANGED <<vol, tx, sealed>>

\* fw_store_revert_to_previous, with the indices of the cached metadata.
select_previous ==
    LET activated == mm.cache.active = boot_index
        active    == IF activated THEN mm.cache.previous ELSE boot_index
        previous  == IF activated THEN boot_index ELSE mm.cache.active
        t         == set_holds_accepted_content(tracker, active)
        Then(ok)  ==
          /\ state' = "REGULAR"
          /\ tracker' = t
          /\ update_index' = bank_scheme_next_index(active)
          /\ reverted' = (state = "TRIAL")
          /\ UNCHANGED <<boot_index, inst, sm, image_dir_buf, committed, seen>>
    IN  /\ state \in {"TRIAL", "TRIAL_PENDING"}
        /\ Store(serialize(active, previous, t), Then)
        /\ UNCHANGED <<vol, tx, sealed>>

-----------------------------------------------------------------------------
Open_buffer == \/ "directory" \in Buffers /\ open_image_directory
               \/ "metadata" \in Buffers /\ open_fw_store_object

Handles == {sm.handle[c] : c \in {d \in Contexts : sm.type[d] # "none"}}

Next ==
    \/ Boot
    \/ Restart
    \/ begin_staging
    \/ cancel_staging
    \/ end_staging
    \/ end_staging_failed
    \/ end_staging_cut
    \/ select_previous
    \/ Open_buffer
    \/ \E l \in Locations : open_fw_image(l) \/ accept(l)
    \/ \E h \in Handles : \/ write_stream(h)
                          \/ read_stream(h)
                          \/ \E accepted \in BOOLEAN : commit(h, accepted)

Spec == Init /\ [][Next]_vars

-----------------------------------------------------------------------------
(* Properties. *)

\* Type invariant: in particular, no installer commits more than one image, no volume holds more than an image.
TypeOK ==
    /\ state \in {"OFF", "REGULAR", "STAGING", "TRIAL_PENDING", "TRIAL"}
    /\ {boot_index, update_index} \subseteq Banks
    /\ tracker \in [Banks -> [content : BOOLEAN, accepted : SUBSET Locations]]
    /\ inst \in [Locations -> [active : BOOLEAN, failed : BOOLEAN, open : BOOLEAN, bytes : 0 .. Chunks, commits : 0 .. 1]]
    /\ vol \in [Banks -> [Locations -> [tx : 0 .. MaxTx, n : 0 .. Chunks]]]
    /\ image_dir_buf \subseteq Locations
    /\ tx \in 0 .. MaxTx /\ reverted \in BOOLEAN

(***************************************************************************)
(* Every bank the boot loader may choose holds, in every location, exactly *)
(* what a completed installation put there: fw_store_begin_install takes   *)
(* the update bank out of the metadata before a volume is erased, and      *)
(* fw_store_finalize_install puts it back after the last write, through    *)
(* any power failure.                                                      *)
(***************************************************************************)
BootableBanksIntact == \A b \in BootChoice : vol[b] = sealed[b]

(***************************************************************************)
(* When end_staging has succeeded the update bank holds, in every location *)
(* the client installed without error, the image as it was committed, and  *)
(* in every other location the firmware that is running                    *)
(* (install_unchanged_images).                                             *)
(***************************************************************************)
UpdateIsWhatWasCommitted ==
    state = "TRIAL_PENDING" =>
      \A l \in Locations :
         vol[update_index][l] = IF committed[l] # NULL THEN committed[l] ELSE vol[boot_index][l]

(***************************************************************************)
(* What the tracker knows of the acceptance of the running firmware would  *)
(* be read back from the metadata after a restart: the serializer and      *)
(* deserializer agree, and every change is stored (fw_store_notify_accepted*)
(* and fw_store_revert_to_previous).                                       *)
(***************************************************************************)
AcceptanceIsDurable ==
    state # "OFF" => /\ BootView(nv) # Bad
                     /\ deserialize_bank_info(BootView(nv))[boot_index].accepted = tracker[boot_index].accepted

(***************************************************************************)
(* An installer is open exactly while an install stream writes to it, so   *)
(* end_staging, which looks only at streams, never finalizes an installer  *)
(* with its volume open.                                                   *)
(***************************************************************************)
InstallersFollowStreams ==
    \A l \in Locations : inst[l].active /\ inst[l].open <=> SameSource(sm, "install", l) # {}

(***************************************************************************)
(* A client never reads parts of two image directories through one stream: *)
(* open_image_directory rewrites the buffer, and opening its stream closes *)
(* the one that was reading it.                                            *)
(***************************************************************************)
DirectoryNotTorn ==
    \A c \in Contexts : sm.source[c] = "directory" => \A x, y \in seen[c] : x = y

(***************************************************************************)
(* No call of the update agent changes the firmware that is running.       *)
(***************************************************************************)
RunningFirmwareUntouched == [][state # "OFF" => vol'[boot_index] = vol[boot_index]]_vars
=============================================================================
