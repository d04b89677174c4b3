--------------------------- MODULE StreamManager ---------------------------
(***************************************************************************)
(* The stream manager of the update agent (components/service/fwu/agent/   *)
(* stream_manager.c): a fixed array of stream contexts, linked into a free *)
(* list and a doubly linked list of active contexts, most recently         *)
(* allocated first.                                                        *)
(*                                                                         *)
(* `sm' is struct stream_manager with one function per field of struct     *)
(* stream_context.  A source is the buffer a stream reads or the installer *)
(* it writes: variant.buffer.data or variant.install.installer.  A handle  *)
(* is the pair of its two halves: context index and rolling count.         *)
(***************************************************************************)
EXTENDS Naturals

CONSTANTS
    PoolSize,   \* FWU_STREAM_MANAGER_POOL_SIZE
    RollMod,    \* rolling_count is a uint16_t: 2^16 in the code
    NULL

Contexts == 0 .. PoolSize - 1

ASSUME PoolAssumption == PoolSize \in Nat \ {0} /\ RollMod \in Nat \ {0} /\ NULL \notin Nat

\* The variant part of a free context is dead: it is cleared here, left alone in the code.
add_to_free_list(sm, c) ==
    [sm EXCEPT !.type[c] = "none", !.handle[c] = <<0, 0>>, !.next[c] = sm.free,
               !.prev[c] = NULL, !.free = c, !.source[c] = NULL, !.pos[c] = 0]

\* Mutant: the tail is not moved back.
Unlink_KeepTail(sm, c) ==
    LET p == sm.prev[c]
        n == sm.next[c]
        s == IF p # NULL THEN [sm EXCEPT !.next[p] = n] ELSE [sm EXCEPT !.head = n]
    IN  IF n # NULL THEN [s EXCEPT !.prev[n] = p] ELSE s

\* Unlink a context from the active list.
Unlink(sm, c) ==
    LET p == sm.prev[c]
        n == sm.next[c]
        s == IF p # NULL THEN [sm EXCEPT !.next[p] = n] ELSE [sm EXCEPT !.head = n]
    IN  IF n # NULL THEN [s EXCEPT !.prev[n] = p] ELSE [s EXCEPT !.tail = p]

free_stream_context(sm, c) == add_to_free_list(Unlink(sm, c), c)

\* A loop over contexts[] that frees those in `cs'.
FreeAll(sm, cs) ==
    LET After[i \in 0 .. PoolSize] ==
          IF i = 0 THEN sm
          ELSE IF i - 1 \in cs THEN free_stream_context(After[i - 1], i - 1) ELSE After[i - 1]
    IN  After[PoolSize]

stream_manager_init ==
    LET zero == [type   |-> [c \in Contexts |-> "none"],
                 source |-> [c \in Contexts |-> NULL],
                 pos    |-> [c \in Contexts |-> 0],
                 handle |-> [c \in Contexts |-> <<0, 0>>],
                 next   |-> [c \in Contexts |-> NULL],
                 prev   |-> [c \in Contexts |-> NULL],
                 free |-> NULL, head |-> NULL, tail |-> NULL, rolling |-> 0]
        Added[i \in 0 .. PoolSize] == IF i = 0 THEN zero ELSE add_to_free_list(Added[i - 1], i - 1)
    IN  Added[PoolSize]

\* The context a new stream would recycle: the tail of the active list, when none is free.
Recycled(sm) == IF sm.free = NULL THEN sm.tail ELSE NULL

\* Take the first free context and link it in front of the active list.
Link(s, type, source) ==
    LET c == s.free
        l == [s EXCEPT !.free = s.next[c], !.next[c] = s.head, !.prev[c] = NULL, !.head = c,
                       !.tail = IF s.tail = NULL THEN c ELSE s.tail,
                       !.type[c] = type, !.source[c] = source, !.pos[c] = 0,
                       !.handle[c] = <<c, s.rolling>>]
    IN  IF s.head # NULL THEN [l EXCEPT !.prev[s.head] = c] ELSE l

AfterRecycling(sm) == IF Recycled(sm) # NULL THEN free_stream_context(sm, Recycled(sm)) ELSE sm

\* Mutant: the rolling count is not advanced.
Alloc_SameRoll(sm, type, source) == Link(AfterRecycling(sm), type, source)

(***************************************************************************)
(* alloc_stream_context and the initialization of the context.  Closing a  *)
(* recycled install stream also commits its image: whoever uses Alloc adds *)
(* that effect for Recycled(sm).                                           *)
(***************************************************************************)
Alloc(sm, type, source) ==
    [Link(AfterRecycling(sm), type, source) EXCEPT !.rolling = (@ + 1) % RollMod]

\* Mutant: a stream that was read from is not cancelled.
SameSource_Unread(sm, type, source) ==
    {c \in Contexts : sm.type[c] = type /\ sm.source[c] = source /\ sm.pos[c] = 0}

\* The streams of a source that opening another one cancels.
SameSource(sm, type, source) == {c \in Contexts : sm.type[c] = type /\ sm.source[c] = source}

\* stream_manager_open_buffer_stream, stream_manager_open_install_stream.
Cancelled(sm, type, source) == FreeAll(sm, SameSource(sm, type, source))
Open(sm, type, source) == Alloc(Cancelled(sm, type, source), type, source)

\* The handle Open returns.
Opened(sm) == sm.handle[sm.head]

\* get_active_context.
IsActive(sm, h) == h[1] < PoolSize /\ sm.type[h[1]] # "none" /\ sm.handle[h[1]] = h

\* Mutant: the loop misses the first context.
stream_manager_cancel_streams_FromOne(sm, type) == FreeAll(sm, {c \in Contexts : c > 0 /\ sm.type[c] = type})

stream_manager_cancel_streams(sm, type) == FreeAll(sm, {c \in Contexts : sm.type[c] = type})

stream_manager_is_open_streams(sm, type) == \E c \in Contexts : sm.type[c] = type

\* stream_manager_read of at most buf_size units of a buffer of data_len units: the units copied.
ReadLen(sm, h, data_len, buf_size) ==
    LET remaining_len == data_len - sm.pos[h[1]]
    IN  IF remaining_len <= buf_size THEN remaining_len ELSE buf_size
=============================================================================
