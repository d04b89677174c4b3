------------------------------ MODULE FwStore ------------------------------
(***************************************************************************)
(* The parts of the banked firmware store (components/service/fwu/fw_store *)
(* /banked and components/service/fwu/installer) as operators: the A/B     *)
(* bank scheme, the bank tracker, the metadata serializers and the raw     *)
(* installer.                                                              *)
(*                                                                         *)
(* The firmware consists of locations; each has one whole-volume image,    *)
(* installed by a raw installer, and a volume in each bank.  A volume      *)
(* holds the first `n' of Chunks chunks of the image of transaction `tx';  *)
(* n = 0 is an erased volume.                                              *)
(***************************************************************************)
EXTENDS Naturals

CONSTANTS
    Locations,          \* the location ids known to the installer index
    CopyInstallers,     \* the locations that have a copy installer
    Chunks,             \* the number of writes that make up an image
    MetadataVersion     \* 1 or 2: the serializer in use

ASSUME StoreAssumption ==
    /\ CopyInstallers \subseteq Locations
    /\ Chunks \in Nat \ {0}
    /\ MetadataVersion \in {1, 2}

Banks == {0, 1}

\* Mutant: the second bank is always the one to update.
bank_scheme_next_index_Fixed(b) == 1

bank_scheme_next_index(b) == IF b = 0 THEN 1 ELSE 0

-----------------------------------------------------------------------------
(* struct bank_tracker: per bank, is_content and the accepted images.      *)

bank_tracker_init == [b \in Banks |-> [content |-> FALSE, accepted |-> {}]]

bank_tracker_accept(t, b, image) == [t EXCEPT ![b].accepted = @ \cup {image}]

\* bank_tracker_copy_accept for the images of the given locations.
copy_accept(t, from, to, locs) ==
    [t EXCEPT ![to].accepted = (@ \ locs) \cup (t[from].accepted \cap locs)]

set_no_content(t, b) == [t EXCEPT ![b] = [content |-> FALSE, accepted |-> {}]]

set_holds_content(t, b) == [t EXCEPT ![b].content = TRUE]

set_holds_accepted_content(t, b) == [t EXCEPT ![b] = [content |-> TRUE, accepted |-> Locations]]

is_all_accepted(t, b) == Locations \subseteq t[b].accepted

-----------------------------------------------------------------------------
(* The metadata: what the serializer of the given version keeps of the     *)
(* indices and the tracker, and what is read back from it.                 *)

bank_state(t, b) ==
    IF is_all_accepted(t, b) THEN "ACCEPTED" ELSE IF t[b].content THEN "VALID" ELSE "INVALID"

serialize(active, previous, t) ==
    [active   |-> active,
     previous |-> previous,
     accepted |-> [b \in Banks |-> t[b].accepted],
     state    |-> [b \in Banks |-> IF MetadataVersion = 2 THEN bank_state(t, b) ELSE "NONE"]]

\* Mutant: the accepted flags of a partly accepted bank are not read back.
deserialize_bank_info_StateOnly(md) ==
    [b \in Banks |->
       [content  |-> md.state[b] \in {"ACCEPTED", "VALID"},
        accepted |-> IF md.state[b] = "ACCEPTED" THEN Locations ELSE {}]]

\* deserialize_bank_info into a tracker that was just initialized.
deserialize_bank_info(md) ==
    [b \in Banks |->
       [content  |-> IF MetadataVersion = 2 THEN md.state[b] \in {"ACCEPTED", "VALID"}
                     ELSE b \in {md.active, md.previous},
        accepted |-> IF md.state[b] = "ACCEPTED" THEN Locations ELSE md.accepted[b]]]

-----------------------------------------------------------------------------
(* The raw installer and its base class: struct installer's is_active and  *)
(* install_status, struct raw_installer's is_open, bytes_written and       *)
(* commit_count (0 or 1).                                                  *)

installer_init == [active |-> FALSE, failed |-> FALSE, open |-> FALSE, bytes |-> 0, commits |-> 0]

\* installer_begin, raw_installer_begin
installer_begin(i) == [i EXCEPT !.active = TRUE, !.failed = FALSE, !.open = FALSE, !.commits = 0]

\* installer_finalize and installer_abort, raw_installer_finalize
installer_end(i) == [i EXCEPT !.active = FALSE, !.open = FALSE]

\* raw_installer_open: whether the volume will be opened and erased.
raw_may_open(i) == ~i.open /\ i.commits < 1

\* installer_open after the volume was erased, and after any failure.
installer_opened(i) == [i EXCEPT !.open = TRUE, !.bytes = 0]
installer_failed(i) == [i EXCEPT !.failed = TRUE]

\* installer_write after the volume took the chunk.
installer_written(i) == [i EXCEPT !.bytes = @ + 1]

\* installer_commit: its status and the installer left behind.
commit_ok(i) == i.open /\ i.bytes # 0
installer_commit(i) ==
    IF ~i.open THEN installer_failed(i)
    ELSE [i EXCEPT !.commits = @ + 1, !.open = FALSE, !.failed = @ \/ i.bytes = 0]
=============================================================================
