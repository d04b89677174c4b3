-------------------------- MODULE DurableMetadata --------------------------
(***************************************************************************)
(* What the metadata manager promises its callers when no volume operation *)
(* reports an error: the metadata seen by the boot loader is one durable   *)
(* cell.  A successful update installs its value, an update cut short by a *)
(* power failure installs it or leaves the cell alone, and nothing else    *)
(* ever changes the cell: no repair, no power failure.                     *)
(***************************************************************************)
CONSTANTS Values, Bad

VARIABLES
    view,   \* what the boot loader reads: a value, or Bad before the first update
    last    \* the last call: its name, its argument and its status

dvars == <<view, last>>

DInit == view = Bad /\ last = [call |-> "init", value |-> Bad, status |-> "ok"]

\* A metadata_manager_update that returned.
DUpdate(v) ==
    /\ view' = v
    /\ last' = [call |-> "update", value |-> v, status |-> "ok"]

\* A power failure during metadata_manager_update.
DUpdateCut(v) ==
    /\ view' \in {view, v}
    /\ last' = [call |-> "update", value |-> v, status |-> "cut"]

\* Anything else leaves the cell as it is.
DOther ==
    /\ UNCHANGED view
    /\ last'.call # "update"

DNext == (\E v \in Values : DUpdate(v) \/ DUpdateCut(v)) \/ DOther

DSpec == DInit /\ [][DNext]_dvars
=============================================================================
