------------------------------ MODULE Streams ------------------------------
(***************************************************************************)
(* The stream manager as a component: any sequence of its calls, with any  *)
(* handle that was ever returned, or one that never was.                   *)
(***************************************************************************)
EXTENDS StreamManager, SequencesExt

CONSTANTS
    Buffers,    \* the buffers that streams are opened to read
    Installers, \* the installers that streams are opened to write to
    DataLen,    \* the length of every buffer
    MaxOpens    \* bound: the number of streams opened

ASSUME StreamsAssumption ==
    /\ Buffers \cap Installers = {}
    /\ NULL \notin Buffers \cup Installers
    /\ DataLen \in Nat /\ MaxOpens \in Nat

VARIABLES
    sm,         \* struct stream_manager
    issued,     \* the handles returned, in order
    born        \* for each context, which opening it was last used for

vars == <<sm, issued, born>>

Init ==
    /\ sm = stream_manager_init
    /\ issued = << >>
    /\ born = [c \in Contexts |-> 0]

\* Handles a client may present: issued ones and a context index out of range.
Handles == ToSet(issued) \cup {<<PoolSize, 0>>}

open_stream(type, source) ==
    /\ Len(issued) < MaxOpens
    /\ sm' = Open(sm, type, source)
    /\ issued' = Append(issued, Opened(sm'))
    /\ born' = [born EXCEPT ![sm'.head] = Len(issued')]

stream_manager_open_buffer_stream(data) == open_stream("buffer", data)

stream_manager_open_install_stream(installer) == open_stream("install", installer)

\* The commit of an install stream's image is the fw_store's business: see FwuAgent.
stream_manager_close(h) ==
    /\ IsActive(sm, h)
    /\ sm' = free_stream_context(sm, h[1])
    /\ UNCHANGED <<issued, born>>

cancel_streams(type) ==
    /\ sm' = stream_manager_cancel_streams(sm, type)
    /\ UNCHANGED <<issued, born>>

stream_manager_read(h, buf_size) ==
    /\ IsActive(sm, h) /\ sm.type[h[1]] = "buffer"
    /\ sm' = [sm EXCEPT !.pos[h[1]] = @ + ReadLen(sm, h, DataLen, buf_size)]
    /\ UNCHANGED <<issued, born>>

\* Calls that leave the manager alone: writes, and calls that return an error.
NoEffect(h) ==
    /\ IsActive(sm, h) => sm.type[h[1]] = "install"
    /\ UNCHANGED vars

Next ==
    \/ \E b \in Buffers : stream_manager_open_buffer_stream(b)
    \/ \E i \in Installers : stream_manager_open_install_stream(i)
    \/ \E type \in {"buffer", "install"} : cancel_streams(type)
    \/ \E h \in Handles :
         \/ stream_manager_close(h)
         \/ \E n \in 1 .. DataLen : stream_manager_read(h, n)
         \/ NoEffect(h)

Spec == Init /\ [][Next]_vars

-----------------------------------------------------------------------------
Sources == Buffers \cup Installers
Pointers == Contexts \cup {NULL}

\* Type invariant of the manager; a stream never reads past its buffer.
TypeOK ==
    /\ sm.type \in [Contexts -> {"none", "buffer", "install"}]
    /\ sm.source \in [Contexts -> Sources \cup {NULL}]
    /\ sm.pos \in [Contexts -> 0 .. DataLen]
    /\ sm.handle \in [Contexts -> Contexts \X (0 .. RollMod - 1)]
    /\ sm.next \in [Contexts -> Pointers] /\ sm.prev \in [Contexts -> Pointers]
    /\ sm.free \in Pointers /\ sm.head \in Pointers /\ sm.tail \in Pointers
    /\ sm.rolling \in 0 .. RollMod - 1

(***************************************************************************)
(* "This defends against the possibility of data written via two streams   *)
(* being written to the same installer": a buffer or an installer never    *)
(* has two open streams.                                                   *)
(***************************************************************************)
OneStreamPerSource ==
    \A c, d \in Contexts :
        sm.type[c] # "none" /\ sm.type[d] = sm.type[c] /\ sm.source[d] = sm.source[c] => c = d

(***************************************************************************)
(* "Handle includes rolling count value to protect against use of a stale  *)
(* handle": a handle reaches a stream other than the one it was returned   *)
(* for only if RollMod or more streams have been opened since.             *)
(***************************************************************************)
StaleHandleRejected ==
    \A i \in 1 .. Len(issued) :
        IsActive(sm, issued[i]) => \/ born[issued[i][1]] = i
                                   \/ born[issued[i][1]] - i >= RollMod

(***************************************************************************)
(* The linked lists implement the pool of module StreamPool: no context is *)
(* ever lost or in two lists, streams keep their order and their handles,  *)
(* and a full pool gives up the stream opened longest ago.                 *)
(***************************************************************************)
Chain(first) ==
    LET At[n \in 1 .. PoolSize + 1] ==
          IF n = 1 THEN first ELSE IF At[n - 1] = NULL THEN NULL ELSE sm.next[At[n - 1]]
    IN  SelectSeq(At, LAMBDA c : c # NULL)

ActiveStreams ==
    LET chain == Chain(sm.head)
    IN  [i \in DOMAIN chain |->
           [slot |-> chain[i], source |-> sm.source[chain[i]], handle |-> sm.handle[chain[i]]]]

Pool == INSTANCE StreamPool WITH
            Slots <- Contexts, active <- ActiveStreams, free <- ToSet(Chain(sm.free)),
            rolling <- sm.rolling
ImplementsStreamPool == Pool!PSpec
=============================================================================
