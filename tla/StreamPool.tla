----------------------------- MODULE StreamPool -----------------------------
(***************************************************************************)
(* What the stream manager promises the update agent: a bounded pool of    *)
(* streams, kept in the order in which they were opened.  A source (a      *)
(* buffer or an installer) has at most one stream: opening another one     *)
(* drops the first.  Opening a stream when the pool is full takes the slot *)
(* of the one opened longest ago.  A handle names a slot and the number of *)
(* the opening, modulo RollMod.                                            *)
(***************************************************************************)
EXTENDS Naturals, SequencesExt

CONSTANTS Slots, Sources, RollMod

VARIABLES
    active,     \* the open streams, the one opened last first
    free,       \* the slots without a stream
    rolling     \* the number of openings, modulo RollMod

pvars == <<active, free, rolling>>

SlotsOf(streams) == {s.slot : s \in ToSet(streams)}

PInit ==
    /\ active = << >>
    /\ free = Slots
    /\ rolling = 0

\* The streams left, without those of a source; and without the oldest if all slots are in use.
Without(src) == SelectSeq(active, LAMBDA s : s.source # src)
Oldest(streams) == IF SlotsOf(streams) = Slots THEN Front(streams) ELSE streams

POpen(src) ==
    LET kept == Oldest(Without(src))
    IN  \E slot \in Slots \ SlotsOf(kept) :
          /\ active' = <<[slot |-> slot, source |-> src, handle |-> <<slot, rolling>>]>> \o kept
          /\ free' = Slots \ SlotsOf(active')
          /\ rolling' = (rolling + 1) % RollMod

\* Any set of streams may be closed; the others keep their order and their handles.
PClose ==
    \E gone \in SUBSET SlotsOf(active) :
      /\ active' = SelectSeq(active, LAMBDA s : s.slot \notin gone)
      /\ free' = free \cup gone
      /\ UNCHANGED rolling

PNext == (\E src \in Sources : POpen(src)) \/ PClose

PSpec == PInit /\ [][PNext]_pvars
=============================================================================
