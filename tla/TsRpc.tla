------------------------------- MODULE TsRpc -------------------------------
(***************************************************************************)
(* Remote procedure calls between secure partitions: the caller session    *)
(* (rpc_caller_session.c), the TS RPC caller of an SP (ts_rpc_caller_sp.c) *)
(* and the TS RPC endpoints (ts_rpc_endpoint_sp.c), with the memory they   *)
(* share through the SPMC.                                                 *)
(*                                                                         *)
(* A client has one caller and one session on it.  A direct request blocks *)
(* the client until the endpoint answers, and an endpoint handles one      *)
(* request at a time, so an action is one call of the session interface.   *)
(* A client uses its session only while it is open; services take every    *)
(* request that reaches them.  A call that returns an error and changes    *)
(* nothing is not an action.                                               *)
(* The calls of the caller and of the endpoint are operators that yield    *)
(* the set of their outcomes: a status and the state of the memories.      *)
(*                                                                         *)
(* Lengths are in units of which a page has PAGE_SIZE.  A buffer is named  *)
(* by the handle under which it is shared.                                 *)
(***************************************************************************)
EXTENDS Integers, FiniteSetsExt, Functions

CONSTANTS
    Clients,
    Endpoints,      \* the TS SPs, in the order in which the SPMC lists them
    Services,       \* per endpoint, the UUIDs of its services in the order they were added
    Handles,        \* the memory handles of the SPMC
    MAX_SHM_NUM,
    shared_memory_count,
    PAGE_SIZE,
    Lengths,        \* the lengths of requests, responses and session memories
    Faults          \* what may fail: "share" (or the allocation before it), "request", "retrieve",
                    \* "relinquish", "reclaim", "rx_release"

FFA_MEM_HANDLE_INVALID == "FFA_MEM_HANDLE_INVALID"
NULL == "NULL"

ASSUME RpcAssumption ==
    /\ \A n \in DOMAIN Endpoints : Endpoints[n] \in DOMAIN Services
    /\ \A e \in DOMAIN Services : DOMAIN Services[e] \subseteq Nat \ {0}
    /\ {FFA_MEM_HANDLE_INVALID, NULL} \cap Handles = {}
    /\ {MAX_SHM_NUM, shared_memory_count, PAGE_SIZE} \subseteq Nat \ {0}
    /\ Lengths \subseteq Nat

VARIABLES
    w,          \* shared memory: the callers' and the endpoints' tables, the SPMC's shares, the buffers
    caller,     \* struct ts_rpc_caller_sp_context without its table
    session,    \* struct rpc_caller_session; whether its client has opened it, and for which service
    served      \* what became of the call in progress: the RPC status, and the service it reached

vars == <<w, caller, session, served>>

ClosedCaller == [has_opened_session |-> FALSE, endpoint_id |-> NULL, interface_id |-> 0]
NoMemory == [id |-> NULL, size |-> 0]
NewSession == [opened |-> FALSE, uuid |-> NULL, policy |-> "alloc_for_each_call", memory |-> NoMemory,
               is_call_transaction_in_progress |-> FALSE, request_length |-> 0]
NotCalled == [status |-> NULL, service |-> NULL]
Lost == [status |-> "lost", service |-> NULL]     \* RPC_ERROR_INTERNAL to the client
FreeSlot == [used |-> FALSE, owner |-> NULL, handle |-> NULL, size |-> 0]
NoShare == [state |-> "none", owner |-> NULL, receiver |-> NULL, size |-> 0]

Hosts == Range(Endpoints)

Init ==
    /\ w = [memories |-> [c \in Clients |-> [i \in 1 .. MAX_SHM_NUM |-> FFA_MEM_HANDLE_INVALID]],
            slots    |-> [e \in Hosts |-> [i \in 1 .. shared_memory_count |-> FreeSlot]],
            shares   |-> [h \in Handles |-> NoShare],
            buffers  |-> {}]
    /\ caller = [c \in Clients |-> ClosedCaller]
    /\ session = [c \in Clients |-> NewSession]
    /\ served = [c \in Clients |-> NotCalled]

Out(status, v) == [status |-> status, w |-> v]

May(fault, outcome) == IF fault \in Faults THEN {outcome} ELSE {}

-----------------------------------------------------------------------------
(* The endpoint. *)

FreeSlots(v, e) == {i \in 1 .. shared_memory_count : ~v.slots[e][i].used}
SlotsOf(v, e, c, h) == {i \in 1 .. shared_memory_count :
                          v.slots[e][i].used /\ v.slots[e][i].owner = c /\ v.slots[e][i].handle = h}

\* The SPMC's record of a share that the endpoint retrieves or gives back.
Share(v, h, state) == [v EXCEPT !.shares[h].state = state]

handle_memory_retrieve(v, e, c, h) ==
    IF FreeSlots(v, e) = {} THEN {Out("RPC_ERROR_NOT_FOUND", v)}
    ELSE May("retrieve", Out("RPC_ERROR_TRANSPORT_LAYER", v))
         \cup {Out("RPC_SUCCESS",
                   [Share(v, h, "retrieved") EXCEPT !.slots[e][Min(FreeSlots(v, e))] =
                        [used |-> TRUE, owner |-> c, handle |-> h, size |-> v.shares[h].size]])}

handle_memory_relinquish(v, e, c, h) ==
    IF SlotsOf(v, e, c, h) = {} THEN {Out("RPC_ERROR_NOT_FOUND", v)}
    ELSE May("relinquish", Out("RPC_ERROR_TRANSPORT_LAYER", v))
         \cup {Out("RPC_SUCCESS", [Share(v, h, "shared") EXCEPT !.slots[e][Min(SlotsOf(v, e, c, h))] = FreeSlot])}

\* The interface ID of a service, 0 if the endpoint does not have it (IDs count from 1 here).
handle_interface_id_query(e, uuid) ==
    LET found == {i \in DOMAIN Services[e] : Services[e][i] = uuid}
    IN  IF found = {} THEN 0 ELSE Min(found)

handle_service_interfaces(v, e, c, interface_id, h, length) ==
    IF interface_id \notin DOMAIN Services[e] THEN "RPC_ERROR_INVALID_VALUE"
    ELSE IF h # FFA_MEM_HANDLE_INVALID /\ SlotsOf(v, e, c, h) = {} THEN "RPC_ERROR_NOT_FOUND"
    ELSE IF length > (IF h = FFA_MEM_HANDLE_INVALID THEN 0 ELSE v.slots[e][Min(SlotsOf(v, e, c, h))].size)
         THEN "RPC_ERROR_INVALID_VALUE"
    ELSE "RPC_SUCCESS"

-----------------------------------------------------------------------------
(* The SPMC: memory can be reclaimed when the receiver does not hold it. *)

sp_memory_reclaim(v, h) ==
    May("reclaim", Out("RPC_ERROR_INTERNAL", v))
    \cup {IF v.shares[h].state = "shared" THEN Out("RPC_SUCCESS", [v EXCEPT !.shares[h] = NoShare])
          ELSE Out("RPC_ERROR_INTERNAL", v)}

-----------------------------------------------------------------------------
(* The caller. *)

\* Mutant: rounds down.
ROUNDUP_Down(size) == (size \div PAGE_SIZE) * PAGE_SIZE

ROUNDUP(size) == ((size + PAGE_SIZE - 1) \div PAGE_SIZE) * PAGE_SIZE

find_shared_memory_descriptor(v, c, h) == {i \in 1 .. MAX_SHM_NUM : v.memories[c][i] = h}

\* Mutant: the buffer is not freed.
Freed_Not(v, h) == v

\* free(buffer)
Freed(v, h) == [v EXCEPT !.buffers = @ \ {h}]

\* memalign
Allocated(v, h) == [v EXCEPT !.buffers = @ \cup {h}]

Unused(v) == {h \in Handles : v.shares[h].state = "none"}

\* sp_memory_share: some unused handle.
Shared(v, c, e, size) ==
    {[handle |-> h,
      w |-> [Allocated(v, h) EXCEPT !.shares[h] =
                 [state |-> "shared", owner |-> c, receiver |-> e, size |-> ROUNDUP(size)]]]
       : h \in Unused(v)}

\* A share that the endpoint did not retrieve.
NotRetrieved(v, h) == {Out("RPC_ERROR_INTERNAL", Freed(r.w, h)) : r \in sp_memory_reclaim(v, h)}

\* The request to retrieve the memory, from line 247.
Retrieved(c, e, s) ==
    May("request", Out("RPC_ERROR_INTERNAL", Freed(s.w, s.handle)))
    \cup UNION {IF r.status = "RPC_SUCCESS"
                THEN {Out("RPC_SUCCESS",
                          [r.w EXCEPT !.memories[c][Min(find_shared_memory_descriptor(r.w, c, FFA_MEM_HANDLE_INVALID))]
                                          = s.handle])}
                ELSE NotRetrieved(r.w, s.handle)
                : r \in handle_memory_retrieve(s.w, e, c, s.handle)}

(***************************************************************************)
(* create_shared_memory, with the descriptor it fills in as the field      *)
(* memory of each outcome.                                                 *)
(***************************************************************************)
create_shared_memory(v, k, c, size) ==
    IF ~k.has_opened_session THEN {[status |-> "RPC_ERROR_INVALID_STATE", w |-> v, memory |-> NoMemory]}
    ELSE IF size = 0
    THEN {[status |-> "RPC_SUCCESS", w |-> v, memory |-> [id |-> FFA_MEM_HANDLE_INVALID, size |-> 0]]}
    ELSE (IF find_shared_memory_descriptor(v, c, FFA_MEM_HANDLE_INVALID) = {} \/ "share" \in Faults \/ Unused(v) = {}
          THEN {[status |-> "RPC_ERROR_INTERNAL", w |-> v, memory |-> NoMemory]} ELSE {})
         \cup (IF find_shared_memory_descriptor(v, c, FFA_MEM_HANDLE_INVALID) = {} THEN {}
               ELSE UNION {{[status |-> r.status, w |-> r.w,
                             memory |-> IF r.status = "RPC_SUCCESS" THEN [id |-> s.handle, size |-> ROUNDUP(size)]
                                        ELSE NoMemory]
                              : r \in Retrieved(c, k.endpoint_id, s)}
                           : s \in Shared(v, c, k.endpoint_id, size)})

\* Mutant: the entry goes and the buffer is freed in any case.
Released_Anyway(v, c, h, relinquished) ==
    {Out(r.status, [Freed(r.w, h) EXCEPT !.memories[c][Min(find_shared_memory_descriptor(r.w, c, h))]
                                             = FFA_MEM_HANDLE_INVALID])
     : r \in sp_memory_reclaim(v, h)}

\* The entry goes only if both relinquish and reclaim were successful.
Released(v, c, h, relinquished) ==
    {IF r.status # "RPC_SUCCESS" THEN r
     ELSE IF relinquished # "RPC_SUCCESS" THEN Out(relinquished, r.w)
     ELSE Out("RPC_SUCCESS", [Freed(r.w, h) EXCEPT !.memories[c][Min(find_shared_memory_descriptor(r.w, c, h))]
                                                       = FFA_MEM_HANDLE_INVALID])
     : r \in sp_memory_reclaim(v, h)}

release_shared_memory(v, k, c, h) ==
    IF h = FFA_MEM_HANDLE_INVALID THEN {Out("RPC_SUCCESS", v)}
    ELSE IF find_shared_memory_descriptor(v, c, h) = {} THEN {Out("RPC_ERROR_INTERNAL", v)}
    ELSE May("request", Out("RPC_ERROR_INTERNAL", v))
         \cup UNION {Released(r.w, c, h, r.status) : r \in handle_memory_relinquish(v, k.endpoint_id, c, h)}

\* Releases what is still in the table, entry by entry, and stops at the first failure.
close_session(v, k, c) ==
    IF ~k.has_opened_session THEN {Out("RPC_ERROR_INVALID_STATE", v)}
    ELSE LET After[i \in 0 .. MAX_SHM_NUM] ==
               IF i = 0 THEN {Out("RPC_SUCCESS", v)}
               ELSE UNION {IF o.status # "RPC_SUCCESS" THEN {o}
                           ELSE release_shared_memory(o.w, k, c, o.w.memories[c][i]) : o \in After[i - 1]}
         IN  After[MAX_SHM_NUM]

\* What the endpoint answers to a call with memory `m', or the caller before it is sent.
Served(v, k, c, m, length) ==
    IF ~k.has_opened_session THEN "RPC_ERROR_INVALID_STATE"
    ELSE IF m.id # FFA_MEM_HANDLE_INVALID /\ find_shared_memory_descriptor(v, c, m.id) = {} THEN "RPC_ERROR_INTERNAL"
    ELSE IF m.id = FFA_MEM_HANDLE_INVALID /\ length # 0 THEN "RPC_ERROR_INVALID_VALUE"
    ELSE handle_service_interfaces(v, k.endpoint_id, c, k.interface_id, m.id, length)

-----------------------------------------------------------------------------
(* The session. *)

Opened(e, uuid) == [has_opened_session |-> TRUE, endpoint_id |-> e,
                    interface_id |-> handle_interface_id_query(e, uuid)]

\* open_session at one of these endpoints succeeds: those that have the service.
Having(uuid) == {n \in DOMAIN Endpoints : handle_interface_id_query(Endpoints[n], uuid) # 0}

\* find_and_open_session ends at the first of them, or at a later one if requests were lost.
Found(uuid) == {Endpoints[n] : n \in {k \in Having(uuid) : "request" \in Faults \/ k = Min(Having(uuid))}}

OpenSession(uuid, policy, memory) ==
    [opened |-> TRUE, uuid |-> uuid, policy |-> policy, memory |-> memory,
     is_call_transaction_in_progress |-> FALSE, request_length |-> 0]

\* initalize_shared_memory, and the rest of rpc_caller_session_open.
SessionOpened(c, k, uuid, size) ==
    IF size = 0
    THEN /\ caller' = [caller EXCEPT ![c] = k]
         /\ session' = [session EXCEPT ![c] = OpenSession(uuid, "alloc_for_each_call", NoMemory)]
         /\ UNCHANGED w
    ELSE \E o \in create_shared_memory(w, k, c, size) :
            IF o.status = "RPC_SUCCESS"
            THEN /\ caller' = [caller EXCEPT ![c] = k]
                 /\ session' = [session EXCEPT ![c] = OpenSession(uuid, "alloc_for_session", o.memory)]
                 /\ w' = o.w
            ELSE /\ \E d \in close_session(o.w, k, c) :
                      /\ w' = d.w
                      /\ caller' = [caller EXCEPT ![c] = IF d.status = "RPC_SUCCESS" THEN ClosedCaller ELSE k]
                 /\ UNCHANGED session

rpc_caller_session_open(c, e, uuid, size) ==
    /\ ~session[c].opened /\ ~caller[c].has_opened_session
    /\ handle_interface_id_query(e, uuid) # 0
    /\ SessionOpened(c, Opened(e, uuid), uuid, size)
    /\ UNCHANGED served

\* find_and_open_session also returns success, without a session, if ffa_rx_release fails.
rpc_caller_session_find_and_open(c, uuid, size) ==
    /\ ~session[c].opened /\ ~caller[c].has_opened_session
    /\ \E k \in {Opened(e, uuid) : e \in Found(uuid)} \cup May("rx_release", ClosedCaller) :
         SessionOpened(c, k, uuid, size)
    /\ UNCHANGED served

\* The session's own memory is released before the caller's session is closed.
rpc_caller_session_close(c) ==
    /\ session[c].opened /\ ~session[c].is_call_transaction_in_progress
    /\ \E o \in IF session[c].policy = "alloc_for_session"
                THEN release_shared_memory(w, caller[c], c, session[c].memory.id) ELSE {Out("RPC_SUCCESS", w)} :
         IF o.status = "RPC_SUCCESS"
         THEN \E d \in close_session(o.w, caller[c], c) :
                /\ w' = d.w
                /\ IF d.status = "RPC_SUCCESS"
                   THEN /\ caller' = [caller EXCEPT ![c] = ClosedCaller]
                        /\ session' = [session EXCEPT ![c].opened = FALSE]
                   ELSE UNCHANGED <<caller, session>>
         ELSE w' = o.w /\ UNCHANGED <<caller, session>>
    /\ UNCHANGED served

\* Session `s' with a call in progress, or without.
Call(s, memory, in_progress, length) ==
    [opened |-> s.opened, uuid |-> s.uuid, policy |-> s.policy, memory |-> memory,
     is_call_transaction_in_progress |-> in_progress, request_length |-> length]

Begun(c, memory, length) == session' = [session EXCEPT ![c] = Call(session[c], memory, TRUE, length)]

rpc_caller_session_begin(c, length, response_max_length) ==
    LET required == IF length > response_max_length THEN length ELSE response_max_length
        s == session[c]
    IN  /\ s.opened /\ ~s.is_call_transaction_in_progress
        /\ IF s.policy = "alloc_for_each_call"
           THEN /\ s.memory.size = 0
                /\ \E o \in create_shared_memory(w, caller[c], c, required) :
                     /\ w' = o.w
                     /\ IF o.status = "RPC_SUCCESS" THEN Begun(c, o.memory, length) ELSE UNCHANGED session
           ELSE /\ s.memory.size # 0 /\ s.memory.size >= required
                /\ Begun(c, s.memory, length)
                /\ UNCHANGED w
        /\ UNCHANGED <<caller, served>>

rpc_caller_session_invoke(c) ==
    /\ session[c].is_call_transaction_in_progress
    /\ session[c].request_length # 0 => session[c].memory.size # 0
    /\ LET status == Served(w, caller[c], c, session[c].memory, session[c].request_length)
       IN  served' \in {[served EXCEPT ![c] = r] :
                          r \in {[status |-> status,
                                  service |-> IF status = "RPC_SUCCESS"
                                              THEN Services[caller[c].endpoint_id][caller[c].interface_id] ELSE NULL]}
                                \cup May("request", Lost)}
    /\ UNCHANGED <<w, caller, session>>

\* Mutant: ends the call without releasing its memory.
rpc_caller_session_end_NoRelease(c) ==
    /\ session[c].is_call_transaction_in_progress
    /\ session' = [session EXCEPT ![c] = Call(@, IF @.policy = "alloc_for_each_call" THEN NoMemory ELSE @.memory,
                                              FALSE, 0)]
    /\ served' = [served EXCEPT ![c] = NotCalled]
    /\ UNCHANGED <<w, caller>>

rpc_caller_session_end(c) ==
    /\ session[c].is_call_transaction_in_progress
    /\ session[c].request_length # 0 => session[c].memory.size # 0
    /\ IF session[c].policy = "alloc_for_each_call"
       THEN \E o \in release_shared_memory(w, caller[c], c, session[c].memory.id) :
              /\ w' = o.w
              /\ session' = IF o.status = "RPC_SUCCESS"
                            THEN [session EXCEPT ![c] = Call(session[c], NoMemory, FALSE, 0)] ELSE session
       ELSE session' = [session EXCEPT ![c] = Call(session[c], session[c].memory, FALSE, 0)] /\ UNCHANGED w
    /\ served' = [served EXCEPT ![c] = NotCalled]
    /\ UNCHANGED caller

(***************************************************************************)
(* Frees the context of an open session (that of a closed one is kept, as  *)
(* closing it once more fails); ts_rpc_caller_sp_init then makes a new one *)
(* with an empty table.                                                    *)
(***************************************************************************)
ts_rpc_caller_sp_deinit(c) ==
    /\ caller[c].has_opened_session
    /\ caller' = [caller EXCEPT ![c] = ClosedCaller]
    /\ w' = [w EXCEPT !.memories[c] = [i \in 1 .. MAX_SHM_NUM |-> FFA_MEM_HANDLE_INVALID]]
    /\ session' = [session EXCEPT ![c] = NewSession]
    /\ served' = [served EXCEPT ![c] = NotCalled]

UUIDs == UNION {Range(Services[e]) : e \in Hosts}

Next ==
    \E c \in Clients :
        \/ \E uuid \in UUIDs, size \in Lengths :
             \/ \E e \in Hosts : rpc_caller_session_open(c, e, uuid, size)
             \/ rpc_caller_session_find_and_open(c, uuid, size)
        \/ rpc_caller_session_close(c)
        \/ \E length, response_max_length \in Lengths : rpc_caller_session_begin(c, length, response_max_length)
        \/ rpc_caller_session_invoke(c)
        \/ rpc_caller_session_end(c)
        \/ ts_rpc_caller_sp_deinit(c)

Spec == Init /\ [][Next]_vars

-----------------------------------------------------------------------------
(* Properties. *)

Statuses == {"RPC_SUCCESS", "RPC_ERROR_INTERNAL", "RPC_ERROR_INVALID_VALUE", "RPC_ERROR_NOT_FOUND",
             "RPC_ERROR_INVALID_STATE"}
UsedSlot == [used : {TRUE}, owner : Clients, handle : Handles, size : Nat \ {0}]

Memories ==
    [memories : [Clients -> [1 .. MAX_SHM_NUM -> Handles \cup {FFA_MEM_HANDLE_INVALID}]],
     slots    : [Hosts -> [1 .. shared_memory_count -> UsedSlot \cup {FreeSlot}]],
     shares   : [Handles -> [state : {"none", "shared", "retrieved"}, owner : Clients \cup {NULL},
                             receiver : Hosts \cup {NULL}, size : Nat]],
     buffers  : SUBSET Handles]
Callers == [has_opened_session : BOOLEAN, endpoint_id : Hosts \cup {NULL}, interface_id : Nat]
Sessions == [opened : BOOLEAN, uuid : UUIDs \cup {NULL}, policy : {"alloc_for_each_call", "alloc_for_session"},
             memory : [id : Handles \cup {FFA_MEM_HANDLE_INVALID, NULL}, size : Nat],
             is_call_transaction_in_progress : BOOLEAN, request_length : Lengths \cup {0}]

\* Type invariant: in particular, nothing is left of a memory in a slot that is not used.
TypeOK ==
    /\ w \in Memories
    /\ caller \in [Clients -> Callers]
    /\ session \in [Clients -> Sessions]
    /\ served \in [Clients -> [status : Statuses \cup {"lost", NULL}, service : UUIDs \cup {NULL}]]

\* What is mapped is shared and allocated, and in one slot.
Mapped(v) ==
    \A e \in Hosts, i \in 1 .. shared_memory_count :
        v.slots[e][i].used =>
            /\ v.shares[v.slots[e][i].handle] = [state |-> "retrieved", owner |-> v.slots[e][i].owner,
                                                receiver |-> e, size |-> v.slots[e][i].size]
            /\ v.slots[e][i].handle \in v.buffers
            /\ \A j \in 1 .. shared_memory_count :
                 v.slots[e][j].used /\ v.slots[e][j].handle = v.slots[e][i].handle => i = j

(***************************************************************************)
(* What an endpoint has mapped is memory that its owner still shares with  *)
(* it, and each share is in one slot of one endpoint: the endpoint never   *)
(* reads or writes a buffer that the caller has freed, though any step of  *)
(* creating or releasing it may fail.                                      *)
(***************************************************************************)
EndpointMemoryValid == Mapped(w)

(***************************************************************************)
(* A call that rpc_caller_session_begin has started is served by the       *)
(* service the client asked for, unless its request is lost: caller and    *)
(* endpoint both know its memory, it is large enough, and the interface ID *)
(* means the same to both.                                                 *)
(***************************************************************************)
BegunCallsAreServed ==
    \A c \in Clients :
        served[c] \in {NotCalled, Lost, [status |-> "RPC_SUCCESS", service |-> session[c].uuid]}

(***************************************************************************)
(* "It either creates the memory on session open and keeps it while the    *)
(* session is open, or it creates the shared buffer for each call and      *)
(* releases it when the call ends": between calls a caller shares no       *)
(* memory but its session's, and none once its session is closed.          *)
(***************************************************************************)
SessionOwnsMemory ==
    \A c \in Clients, i \in 1 .. MAX_SHM_NUM :
        LET h == w.memories[c][i] IN
        h # FFA_MEM_HANDLE_INVALID =>
            /\ session[c].opened /\ session[c].memory.id = h
            /\ session[c].policy = "alloc_for_session" \/ session[c].is_call_transaction_in_progress

(***************************************************************************)
(* Closing a session returns everything: no memory in the caller's table   *)
(* stays shared, mapped by the endpoint or allocated.                      *)
(***************************************************************************)
CloseReturnsMemory ==
    [][\A c \in Clients :
         session[c].opened /\ session' = [session EXCEPT ![c].opened = FALSE] =>
             \A i \in 1 .. MAX_SHM_NUM :
                 LET h == w.memories[c][i] IN
                 h # FFA_MEM_HANDLE_INVALID => w'.shares[h] = NoShare /\ h \notin w'.buffers]_vars
=============================================================================
