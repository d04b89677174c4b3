---------------------------- MODULE TsRpcProofs ----------------------------
(***************************************************************************)
(* Proofs about the sessions of TsRpc, for every number of clients,        *)
(* endpoints, handles and slots, and for every set of failures.            *)
(*                                                                         *)
(* Inv says of each client that the table of its caller holds the memory   *)
(* of its session, if it has any, and nothing else; with EndpointMemory-   *)
(* Valid it is inductive: a step is on behalf of one client, and leaves    *)
(* the table and the slots of the others as they are (StepFor).  From it   *)
(* follow EndpointMemoryValid, SessionOwnsMemory and CloseReturnsMemory.   *)
(* Agreement adds that the endpoint has mapped that memory, at its size,   *)
(* and that the interface is the one of the service; it holds as long as   *)
(* the SPMC lets a caller reclaim what its endpoint gave up, and gives     *)
(* BegunCallsAreServed.                                                    *)
(***************************************************************************)
EXTENDS TsRpc, WellFoundedInduction, TLAPS

\* The entries of the table of a caller, and the slots of an endpoint.
Indices == 1 .. MAX_SHM_NUM
Slots == 1 .. shared_memory_count

\* What the SPMC knows of a handle.
Shares == [state : {"none", "shared", "retrieved"}, owner : Clients \cup {NULL}, receiver : Hosts \cup {NULL},
           size : Nat]

\* A memory with one slot, table entry or share changed.
WithSlot(v, e, i, slot) == [v EXCEPT !.slots[e][i] = slot]
WithEntry(v, c, i, h) == [v EXCEPT !.memories[c][i] = h]
WithShare(v, h, share) == [v EXCEPT !.shares[h] = share]

\* The table of a caller is empty.
EmptyTable(v, c) == \A i \in Indices : v.memories[c][i] = FFA_MEM_HANDLE_INVALID

\* At most one entry of the table of a caller is in use, and it is `h'.
OnlyEntry(v, c, h) ==
    /\ \A i \in Indices : v.memories[c][i] \in {FFA_MEM_HANDLE_INVALID, h}
    /\ \A i, j \in Indices : v.memories[c][i] = h /\ v.memories[c][j] = h /\ h # FFA_MEM_HANDLE_INVALID => i = j

\* The endpoint `e' has mapped the memory `h' of caller `c', of this size.
Maps(v, e, c, h, size) ==
    \E i \in Slots : v.slots[e][i] = [used |-> TRUE, owner |-> c, handle |-> h, size |-> size]

\* A step on behalf of caller `c' keeps the memories sound, and those of the other callers as they are.
StepFor(c, u, v) ==
    /\ v \in Memories /\ Mapped(v)
    /\ \A d \in Clients \ {c} : v.memories[d] = u.memories[d]
    /\ \A e \in Hosts, i \in Slots :
         u.slots[e][i].used /\ u.slots[e][i].owner # c => v.slots[e][i] = u.slots[e][i]

\* A set of numbers that is not empty has a least one.
LEMMA LeastExists ==
    ASSUME NEW S \in SUBSET Nat, S # {}
    PROVE  \E x \in S : \A y \in S : x <= y
<1> DEFINE R == {ss \in Nat \X Nat : ss[1] < ss[2]}
<1>1. IsWellFoundedOn(R, Nat)
  BY NatLessThanWellFounded, Zenon DEF OpToRel
<1> HIDE DEF R
<1>2. PICK x \in S : \A y \in S : ~(<<y, x>> \in R)
  BY <1>1, WFMin, Zenon
<1>3. \A y \in S : ~(y < x)
  BY <1>2, Zenon DEF R
<1> QED
  BY <1>3

\* Min gives a member of such a set: the first slot or entry that a search finds is one it looks for.
LEMMA MinIsMember ==
    ASSUME NEW S \in SUBSET Nat, S # {}
    PROVE  Min(S) \in S
BY LeastExists, Zenon DEF Min

\* A size rounded up to pages is not 0 and is not below the size.
LEMMA RoundedUp ==
    ASSUME NEW n \in Nat \ {0}
    PROVE  ROUNDUP(n) \in Nat \ {0} /\ ROUNDUP(n) >= n
<1>1. PAGE_SIZE \in Nat \ {0}
  BY RpcAssumption, Zenon
<1> DEFINE m == n + PAGE_SIZE - 1
           q == m \div PAGE_SIZE
           r == m % PAGE_SIZE
<1>2. m \in Nat
  BY <1>1
<1> HIDE DEF m
<1>3. q \in Nat /\ r \in Nat /\ r < PAGE_SIZE /\ m = q * PAGE_SIZE + r
  BY <1>1, <1>2
<1>4. q * PAGE_SIZE \in Nat
  BY <1>1, <1>3
<1>5. q * PAGE_SIZE >= n
  <2> HIDE DEF q, r
  <2> DEFINE x == q * PAGE_SIZE
  <2>1. x \in Nat /\ m = x + r
    BY <1>3, <1>4, Zenon
  <2> HIDE DEF x
  <2>2. x >= n
    BY <1>1, <1>3, <2>1 DEF m
  <2> QED
    BY <2>2, Zenon DEF x
<1>6. ROUNDUP(n) = q * PAGE_SIZE
  BY Zenon DEF ROUNDUP, m
<1> HIDE DEF q
<1> QED
  BY <1>4, <1>5, <1>6

\* What a memory is made of.
LEMMA FieldsMake ==
    ASSUME NEW a \in [Clients -> [Indices -> Handles \cup {FFA_MEM_HANDLE_INVALID}]],
           NEW b \in [Hosts -> [Slots -> UsedSlot \cup {FreeSlot}]],
           NEW c \in [Handles -> Shares],
           NEW d \in SUBSET Handles
    PROVE  [memories |-> a, slots |-> b, shares |-> c, buffers |-> d] \in Memories
BY Zenon DEF Memories, Indices, Slots, Shares

\* The type of each field.
LEMMA FieldTypes ==
    ASSUME NEW v \in Memories
    PROVE  /\ v = [memories |-> v.memories, slots |-> v.slots, shares |-> v.shares, buffers |-> v.buffers]
           /\ v.memories \in [Clients -> [Indices -> Handles \cup {FFA_MEM_HANDLE_INVALID}]]
           /\ v.slots \in [Hosts -> [Slots -> UsedSlot \cup {FreeSlot}]]
           /\ v.shares \in [Handles -> Shares]
           /\ v.buffers \in SUBSET Handles
BY Zenon DEF Memories, Indices, Slots, Shares

\* A change of one slot of an endpoint.
LEMMA SlotSet ==
    ASSUME NEW v \in Memories, NEW e \in Hosts, NEW i \in Slots, NEW slot \in UsedSlot \cup {FreeSlot},
           NEW x, x = WithSlot(v, e, i, slot)
    PROVE  /\ x \in Memories
           /\ x.memories = v.memories /\ x.shares = v.shares /\ x.buffers = v.buffers
           /\ \A f \in Hosts, j \in Slots : x.slots[f][j] = IF f = e /\ j = i THEN slot ELSE v.slots[f][j]
<1> DEFINE t == [v.slots EXCEPT ![e] = [v.slots[e] EXCEPT ![i] = slot]]
<1>1. x = [memories |-> v.memories, slots |-> t, shares |-> v.shares, buffers |-> v.buffers]
  BY Zenon DEF Memories, WithSlot
<1>2. v.slots \in [Hosts -> [Slots -> UsedSlot \cup {FreeSlot}]]
  BY FieldTypes, Zenon
<1>3. t \in [Hosts -> [Slots -> UsedSlot \cup {FreeSlot}]]
  BY ONLY <1>2, e \in Hosts, i \in Slots, slot \in UsedSlot \cup {FreeSlot}, Zenon
<1>4. \A f \in Hosts, j \in Slots : t[f][j] = IF f = e /\ j = i THEN slot ELSE v.slots[f][j]
  BY ONLY <1>2, e \in Hosts, i \in Slots, Zenon
<1> HIDE DEF t
<1>6. v.memories \in [Clients -> [Indices -> Handles \cup {FFA_MEM_HANDLE_INVALID}]] /\ v.slots \in [Hosts -> [Slots -> UsedSlot \cup {FreeSlot}]]
      /\ v.shares \in [Handles -> Shares] /\ v.buffers \in SUBSET Handles
  BY FieldTypes, Zenon
<1>7. x \in Memories
  BY ONLY <1>1, <1>3, <1>6, FieldsMake, Zenon
<1>8. x.memories = v.memories /\ x.slots = t /\ x.shares = v.shares /\ x.buffers = v.buffers
  BY ONLY <1>1, Zenon
<1> QED
  BY ONLY <1>4, <1>7, <1>8, Zenon

\* A change of one entry of the table of a caller.
LEMMA EntrySet ==
    ASSUME NEW v \in Memories, NEW c \in Clients, NEW i \in Indices, NEW h \in Handles \cup {FFA_MEM_HANDLE_INVALID},
           NEW x, x = WithEntry(v, c, i, h)
    PROVE  /\ x \in Memories
           /\ x.slots = v.slots /\ x.shares = v.shares /\ x.buffers = v.buffers
           /\ \A d \in Clients \ {c} : x.memories[d] = v.memories[d]
           /\ \A j \in Indices : x.memories[c][j] = IF j = i THEN h ELSE v.memories[c][j]
<1> DEFINE t == [v.memories EXCEPT ![c] = [v.memories[c] EXCEPT ![i] = h]]
           Entries == Handles \cup {FFA_MEM_HANDLE_INVALID}
<1>1. x = [memories |-> t, slots |-> v.slots, shares |-> v.shares, buffers |-> v.buffers]
  BY Zenon DEF Memories, WithEntry
<1>2. v.memories \in [Clients -> [Indices -> Entries]]
  BY FieldTypes, Zenon
<1>3. t \in [Clients -> [Indices -> Entries]]
  <2> HIDE DEF Entries
  <2>1. h \in Entries
    BY Zenon DEF Entries
  <2> QED
    BY ONLY <1>2, <2>1, c \in Clients, i \in Indices, Zenon
<1>4. \A d \in Clients \ {c} : t[d] = v.memories[d]
  BY ONLY <1>2, Zenon
<1>5. \A j \in Indices : t[c][j] = IF j = i THEN h ELSE v.memories[c][j]
  BY ONLY <1>2, c \in Clients, i \in Indices, Zenon
<1> HIDE DEF t
<1>6. v.memories \in [Clients -> [Indices -> Handles \cup {FFA_MEM_HANDLE_INVALID}]] /\ v.slots \in [Hosts -> [Slots -> UsedSlot \cup {FreeSlot}]]
      /\ v.shares \in [Handles -> Shares] /\ v.buffers \in SUBSET Handles
  BY FieldTypes, Zenon
<1>7. x \in Memories
  BY ONLY <1>1, <1>3, <1>6, FieldsMake, Zenon
<1>8. x.memories = t /\ x.slots = v.slots /\ x.shares = v.shares /\ x.buffers = v.buffers
  BY ONLY <1>1, Zenon
<1> QED
  BY ONLY <1>4, <1>5, <1>7, <1>8, Zenon

\* A change of one share of the SPMC.
LEMMA ShareSet ==
    ASSUME NEW v \in Memories, NEW h \in Handles, NEW share \in Shares,
           NEW x, x = WithShare(v, h, share)
    PROVE  /\ x \in Memories
           /\ x.memories = v.memories /\ x.slots = v.slots /\ x.buffers = v.buffers
           /\ x.shares[h] = share /\ \A g \in Handles \ {h} : x.shares[g] = v.shares[g]
<1> DEFINE t == [v.shares EXCEPT ![h] = share]
<1>1. x = [memories |-> v.memories, slots |-> v.slots, shares |-> t, buffers |-> v.buffers]
  BY Zenon DEF Memories, WithShare
<1>2. v.shares \in [Handles -> Shares]
  BY FieldTypes, Zenon
<1>3. t \in [Handles -> Shares] /\ t[h] = share /\ \A g \in Handles \ {h} : t[g] = v.shares[g]
  BY ONLY <1>2, h \in Handles, share \in Shares, Zenon
<1> HIDE DEF t
<1>6. v.memories \in [Clients -> [Indices -> Handles \cup {FFA_MEM_HANDLE_INVALID}]] /\ v.slots \in [Hosts -> [Slots -> UsedSlot \cup {FreeSlot}]]
      /\ v.shares \in [Handles -> Shares] /\ v.buffers \in SUBSET Handles
  BY FieldTypes, Zenon
<1>7. x \in Memories
  BY ONLY <1>1, <1>3, <1>6, FieldsMake, Zenon
<1>8. x.memories = v.memories /\ x.slots = v.slots /\ x.shares = t /\ x.buffers = v.buffers
  BY ONLY <1>1, Zenon
<1> QED
  BY ONLY <1>3, <1>7, <1>8, Zenon

\* Freeing a buffer, and allocating one.
LEMMA BufferSet ==
    ASSUME NEW v \in Memories, NEW h \in Handles, NEW x,
           x = Freed(v, h) \/ x = Allocated(v, h)
    PROVE  /\ x \in Memories
           /\ x.memories = v.memories /\ x.slots = v.slots /\ x.shares = v.shares
           /\ x.buffers = IF x = Freed(v, h) THEN v.buffers \ {h} ELSE v.buffers \cup {h}
<1>1. CASE x = Freed(v, h)
  <2>1. x = [memories |-> v.memories, slots |-> v.slots, shares |-> v.shares, buffers |-> v.buffers \ {h}]
    BY <1>1, Zenon DEF Memories, Freed
  <2> QED
    BY <1>1, <2>1 DEF Memories
<1>2. CASE x # Freed(v, h)
  <2>1. x = [memories |-> v.memories, slots |-> v.slots, shares |-> v.shares, buffers |-> v.buffers \cup {h}]
    BY <1>2, Zenon DEF Memories, Allocated
  <2> QED
    BY <1>2, <2>1, Zenon DEF Memories
<1> QED
  BY <1>1, <1>2, Zenon

\* What EndpointMemoryValid says of one slot.
LEMMA SlotFacts ==
    ASSUME NEW v \in Memories, Mapped(v), NEW e \in Hosts, NEW i \in Slots, v.slots[e][i].used
    PROVE  /\ v.slots[e][i] \in UsedSlot
           /\ v.shares[v.slots[e][i].handle] = [state |-> "retrieved", owner |-> v.slots[e][i].owner,
                                                receiver |-> e, size |-> v.slots[e][i].size]
           /\ v.slots[e][i].handle \in v.buffers
           /\ \A j \in Slots : v.slots[e][j].used /\ v.slots[e][j].handle = v.slots[e][i].handle => i = j
<1>1. v.slots[e][i] \in UsedSlot \cup {FreeSlot}
  <2>1. v.slots \in [Hosts -> [Slots -> UsedSlot \cup {FreeSlot}]]
    BY Zenon DEF Memories, Slots
  <2> QED
    BY ONLY <2>1, e \in Hosts, i \in Slots, Zenon
<1>2. v.slots[e][i] \in UsedSlot
  <2>1. FreeSlot.used = FALSE
    BY Zenon DEF FreeSlot
  <2> QED
    BY <1>1, <2>1, Zenon
<1> QED
  BY <1>2, Zenon DEF Mapped, Slots

\* Memory that is not retrieved is in no slot.
LEMMA NotInSlots ==
    ASSUME NEW v \in Memories, Mapped(v), NEW h \in Handles, v.shares[h].state # "retrieved",
           NEW e \in Hosts, NEW i \in Slots, v.slots[e][i].used
    PROVE  v.slots[e][i].handle # h
<1>1. v.shares[v.slots[e][i].handle] = [state |-> "retrieved", owner |-> v.slots[e][i].owner,
                                        receiver |-> e, size |-> v.slots[e][i].size]
  BY SlotFacts, Zenon
<1>2. v.shares[v.slots[e][i].handle].state = "retrieved"
  BY ONLY <1>1
<1> QED
  BY <1>2, Zenon

(***************************************************************************)
(* A step from `u' to `v' that changes the share and the buffer of one     *)
(* handle `h' only, and leaves `h' in no slot but perhaps slot `i' of `e', *)
(* which then maps it as it is shared.                                     *)
(***************************************************************************)
ChangesOnly(u, v, h, e, i) ==
    /\ \A g \in Handles \ {h} : v.shares[g] = u.shares[g] /\ (g \in u.buffers => g \in v.buffers)
    /\ \A f \in Hosts, j \in Slots :
         v.slots[f][j].used =>
           \/ v.slots[f][j] = u.slots[f][j] /\ v.slots[f][j].handle # h
           \/ /\ f = e /\ j = i /\ v.slots[e][i].handle = h /\ h \in v.buffers
              /\ v.shares[h] = [state |-> "retrieved", owner |-> v.slots[e][i].owner, receiver |-> e,
                                size |-> v.slots[e][i].size]

\* Such a step keeps EndpointMemoryValid.
LEMMA MappedAfter ==
    ASSUME NEW u \in Memories, Mapped(u), NEW v \in Memories, NEW h \in Handles,
           NEW e \in Hosts, NEW i \in Slots, ChangesOnly(u, v, h, e, i)
    PROVE  Mapped(v)
<1> SUFFICES ASSUME NEW f \in Hosts, NEW j \in Slots, v.slots[f][j].used
             PROVE  /\ v.shares[v.slots[f][j].handle] =
                         [state |-> "retrieved", owner |-> v.slots[f][j].owner,
                          receiver |-> f, size |-> v.slots[f][j].size]
                    /\ v.slots[f][j].handle \in v.buffers
                    /\ \A l \in Slots :
                         v.slots[f][l].used /\ v.slots[f][l].handle = v.slots[f][j].handle => j = l
  BY Zenon DEF Mapped, Slots
<1>1. CASE v.slots[f][j] = u.slots[f][j] /\ v.slots[f][j].handle # h
  <2>1. u.slots[f][j].used
    BY <1>1, Zenon
  <2>2. /\ u.slots[f][j] \in UsedSlot
        /\ u.shares[u.slots[f][j].handle] = [state |-> "retrieved", owner |-> u.slots[f][j].owner,
                                             receiver |-> f, size |-> u.slots[f][j].size]
        /\ u.slots[f][j].handle \in u.buffers
        /\ \A l \in Slots : u.slots[f][l].used /\ u.slots[f][l].handle = u.slots[f][j].handle => j = l
    BY ONLY <2>1, u \in Memories, Mapped(u), f \in Hosts, j \in Slots, SlotFacts, Zenon
  <2>3. u.slots[f][j].handle \in Handles \ {h}
    BY <1>1, <2>2, Zenon DEF UsedSlot
  <2>4. ASSUME NEW l \in Slots, v.slots[f][l].used, v.slots[f][l].handle = v.slots[f][j].handle
        PROVE  j = l
    <3>1. v.slots[f][l] = u.slots[f][l]
      BY <1>1, <2>4, Zenon DEF ChangesOnly
    <3> QED
      BY <1>1, <2>2, <2>4, <3>1, Zenon
  <2> QED
    BY <1>1, <2>2, <2>3, <2>4, Zenon DEF ChangesOnly
<1>2. CASE f = e /\ j = i /\ v.slots[e][i].handle = h /\ h \in v.buffers
           /\ v.shares[h] = [state |-> "retrieved", owner |-> v.slots[e][i].owner, receiver |-> e,
                             size |-> v.slots[e][i].size]
  <2>1. ASSUME NEW l \in Slots, v.slots[f][l].used, v.slots[f][l].handle = v.slots[f][j].handle
        PROVE  j = l
    BY <1>2, <2>1, Zenon DEF ChangesOnly
  <2> QED
    BY <1>2, <2>1, Zenon
<1> QED
  BY <1>1, <1>2, Zenon DEF ChangesOnly

\* handle_memory_retrieve of memory that was just shared with the endpoint.
LEMMA RetrieveKeeps ==
    ASSUME NEW v \in Memories, Mapped(v), NEW c \in Clients, NEW e \in Hosts, NEW h \in Handles,
           NEW size \in Nat \ {0}, h \in v.buffers,
           v.shares[h] = [state |-> "shared", owner |-> c, receiver |-> e, size |-> size],
           NEW o \in handle_memory_retrieve(v, e, c, h)
    PROVE  \/ o.status # "RPC_SUCCESS" /\ o.w = v
           \/ /\ o.status = "RPC_SUCCESS"
              /\ StepFor(c, v, o.w) /\ o.w.memories = v.memories
              /\ Maps(o.w, e, c, h, size)
<1> DEFINE i == Min(FreeSlots(v, e))
<1>1. PICK slot : slot = [used |-> TRUE, owner |-> c, handle |-> h, size |-> size]
  BY Zenon
<1>2. PICK u : u = Share(v, h, "retrieved")
  BY Zenon
<1>3. PICK x : x = WithSlot(u, e, i, slot)
  BY Zenon
<1>4. \/ o \in {Out("RPC_ERROR_NOT_FOUND", v), Out("RPC_ERROR_TRANSPORT_LAYER", v)}
      \/ FreeSlots(v, e) # {} /\ o = Out("RPC_SUCCESS", x)
  <2>1. v.shares[h].size = size
    OBVIOUS
  <2> QED
    BY <1>1, <1>2, <1>3, <2>1, Zenon DEF handle_memory_retrieve, May, WithSlot
<1>5. CASE o \in {Out("RPC_ERROR_NOT_FOUND", v), Out("RPC_ERROR_TRANSPORT_LAYER", v)}
  BY <1>5 DEF Out
<1>6. CASE FreeSlots(v, e) # {} /\ o = Out("RPC_SUCCESS", x)
  <2>1. i \in Slots /\ ~v.slots[e][i].used
    <3>1. FreeSlots(v, e) \in SUBSET Nat
      BY DEF FreeSlots
    <3>2. i \in FreeSlots(v, e)
      BY <1>6, <3>1, MinIsMember, Zenon
    <3> QED
      BY <3>2, Zenon DEF FreeSlots, Slots
  <2> HIDE DEF i
  <2>2. PICK share : share = [state |-> "retrieved", owner |-> c, receiver |-> e, size |-> size]
    BY Zenon
  <2>3. share \in Shares /\ u = WithShare(v, h, share)
    <3>1. [v.shares[h] EXCEPT !.state = "retrieved"] = share
      BY <2>2
    <3> QED
      BY <1>2, <2>2, <3>1 DEF Share, WithShare, Shares
  <2>4. /\ u \in Memories /\ u.memories = v.memories /\ u.slots = v.slots /\ u.buffers = v.buffers
        /\ u.shares[h] = share /\ \A g \in Handles \ {h} : u.shares[g] = v.shares[g]
    BY ONLY <2>3, v \in Memories, h \in Handles, ShareSet
  <2>5. slot \in UsedSlot \cup {FreeSlot}
    BY <1>1, Zenon DEF UsedSlot
  <2>6. /\ x \in Memories /\ x.memories = u.memories /\ x.shares = u.shares /\ x.buffers = u.buffers
        /\ \A f \in Hosts, j \in Slots : x.slots[f][j] = IF f = e /\ j = i THEN slot ELSE u.slots[f][j]
    BY ONLY <1>3, <2>1, <2>4, <2>5, e \in Hosts, SlotSet
  <2>7. /\ x.memories = v.memories /\ x.buffers = v.buffers
        /\ x.shares[h] = share /\ \A g \in Handles \ {h} : x.shares[g] = v.shares[g]
        /\ x.slots[e][i] = slot
        /\ \A f \in Hosts, j \in Slots : ~(f = e /\ j = i) => x.slots[f][j] = v.slots[f][j]
    BY ONLY <2>1, <2>4, <2>6, e \in Hosts, Zenon
  <2>8. slot.used = TRUE /\ slot.owner = c /\ slot.handle = h /\ slot.size = size
    BY <1>1, Zenon
  <2>9. v.shares[h].state # "retrieved"
    OBVIOUS
  <2>10. ChangesOnly(v, x, h, e, i)
    <3> SUFFICES ASSUME NEW f \in Hosts, NEW j \in Slots, x.slots[f][j].used
                 PROVE  \/ x.slots[f][j] = v.slots[f][j] /\ x.slots[f][j].handle # h
                        \/ /\ f = e /\ j = i /\ x.slots[e][i].handle = h /\ h \in x.buffers
                           /\ x.shares[h] = [state |-> "retrieved", owner |-> x.slots[e][i].owner,
                                             receiver |-> e, size |-> x.slots[e][i].size]
      BY <2>7, Zenon DEF ChangesOnly
    <3>1. CASE f = e /\ j = i
      BY <2>2, <2>7, <2>8, <3>1, Zenon
    <3>2. CASE ~(f = e /\ j = i)
      <4>1. x.slots[f][j] = v.slots[f][j]
        BY <2>7, <3>2, Zenon
      <4>2. v.slots[f][j].handle # h
        BY <2>9, <4>1, NotInSlots, Zenon
      <4> QED
        BY <4>1, <4>2, Zenon
    <3> QED
      BY <3>1, <3>2, Zenon
  <2>11. Mapped(x)
    BY <2>1, <2>6, <2>10, MappedAfter, Zenon
  <2>12. StepFor(c, v, x)
    <3>1. \A f \in Hosts, j \in Slots : v.slots[f][j].used => x.slots[f][j] = v.slots[f][j]
      BY <2>1, <2>7, Zenon
    <3> QED
      BY <2>6, <2>7, <2>11, <3>1, Zenon DEF StepFor
  <2>13. Maps(x, e, c, h, size)
    BY <1>1, <2>1, <2>7, Zenon DEF Maps
  <2>14. o.status = "RPC_SUCCESS" /\ o.w = x
    BY <1>6, Zenon DEF Out
  <2> QED
    BY <2>7, <2>12, <2>13, <2>14, Zenon
<1> QED
  BY <1>4, <1>5, <1>6, Zenon

\* A change of the share and the buffer of memory that is in no slot, while the slots stay.
LEMMA MappedSame ==
    ASSUME NEW u \in Memories, Mapped(u), NEW v \in Memories, NEW h \in Handles, NEW e \in Hosts,
           u.shares[h].state # "retrieved", v.slots = u.slots,
           \A g \in Handles \ {h} : v.shares[g] = u.shares[g] /\ (g \in u.buffers => g \in v.buffers)
    PROVE  Mapped(v)
<1>1. 1 \in Slots
  BY RpcAssumption DEF Slots
<1>2. ASSUME NEW f \in Hosts, NEW j \in Slots, v.slots[f][j].used
      PROVE  v.slots[f][j] = u.slots[f][j] /\ v.slots[f][j].handle # h
  <2>1. u.slots[f][j].used
    BY <1>2, Zenon
  <2>2. u.slots[f][j].handle # h
    BY ONLY <2>1, u \in Memories, Mapped(u), h \in Handles, u.shares[h].state # "retrieved", NotInSlots, Zenon
  <2> QED
    BY <2>2, Zenon
<1>3. ChangesOnly(u, v, h, e, 1)
  BY <1>2, Zenon DEF ChangesOnly
<1> QED
  BY <1>1, <1>3, MappedAfter, Zenon

\* sp_memory_reclaim succeeds only for memory that is in no slot.
LEMMA ReclaimKeeps ==
    ASSUME NEW v \in Memories, Mapped(v), NEW h \in Handles, NEW e \in Hosts,
           NEW r \in sp_memory_reclaim(v, h)
    PROVE  \/ /\ r.status = "RPC_ERROR_INTERNAL" /\ r.w = v
              /\ "reclaim" \in Faults \/ v.shares[h].state # "shared"
           \/ /\ r.status = "RPC_SUCCESS" /\ v.shares[h].state = "shared"
              /\ r.w \in Memories /\ Mapped(r.w) /\ r.w.shares[h] = NoShare
              /\ r.w.memories = v.memories /\ r.w.slots = v.slots /\ r.w.buffers = v.buffers
<1>1. PICK x : x = WithShare(v, h, NoShare)
  BY Zenon
<1>2. \/ /\ r = Out("RPC_ERROR_INTERNAL", v)
         /\ "reclaim" \in Faults \/ v.shares[h].state # "shared"
      \/ r = Out("RPC_SUCCESS", x) /\ v.shares[h].state = "shared"
  BY <1>1, Zenon DEF sp_memory_reclaim, May, WithShare
<1>3. NoShare \in Shares
  BY Zenon DEF NoShare, Shares
<1>4. /\ x \in Memories
      /\ x.memories = v.memories /\ x.slots = v.slots /\ x.buffers = v.buffers
      /\ x.shares[h] = NoShare /\ \A g \in Handles \ {h} : x.shares[g] = v.shares[g]
  BY ONLY <1>1, <1>3, v \in Memories, h \in Handles, ShareSet
<1>5. v.shares[h].state = "shared" => Mapped(x)
  BY <1>4, MappedSame, Zenon
<1> QED
  BY <1>2, <1>4, <1>5 DEF Out

\* A buffer that is freed when its memory is in no slot.
LEMMA FreedKeeps ==
    ASSUME NEW v \in Memories, Mapped(v), NEW h \in Handles, NEW e \in Hosts, v.shares[h].state # "retrieved",
           NEW x, x = Freed(v, h)
    PROVE  /\ x \in Memories /\ Mapped(x) /\ h \notin x.buffers
           /\ x.memories = v.memories /\ x.slots = v.slots /\ x.shares = v.shares
<1>1. /\ x \in Memories
      /\ x.memories = v.memories /\ x.slots = v.slots /\ x.shares = v.shares
      /\ x.buffers = v.buffers \ {h}
  BY BufferSet, Zenon
<1>2. Mapped(x)
  BY <1>1, MappedSame, Zenon
<1> QED
  BY <1>1, <1>2, Zenon

\* handle_memory_relinquish: the endpoint gives up the slot, and the memory is shared but not retrieved.
LEMMA RelinquishKeeps ==
    ASSUME NEW v \in Memories, Mapped(v), NEW c \in Clients, NEW e \in Hosts, NEW h \in Handles,
           NEW o \in handle_memory_relinquish(v, e, c, h)
    PROVE  \/ o.status # "RPC_SUCCESS" /\ o.w = v
           \/ /\ o.status = "RPC_SUCCESS"
              /\ StepFor(c, v, o.w) /\ o.w.memories = v.memories
              /\ o.w.shares[h].state = "shared"
<1> DEFINE i == Min(SlotsOf(v, e, c, h))
<1>1. PICK u : u = Share(v, h, "shared")
  BY Zenon
<1>2. PICK x : x = WithSlot(u, e, i, FreeSlot)
  BY Zenon
<1>3. \/ o \in {Out("RPC_ERROR_NOT_FOUND", v), Out("RPC_ERROR_TRANSPORT_LAYER", v)}
      \/ SlotsOf(v, e, c, h) # {} /\ o = Out("RPC_SUCCESS", x)
  BY <1>1, <1>2, Zenon DEF handle_memory_relinquish, May, WithSlot
<1>4. CASE o \in {Out("RPC_ERROR_NOT_FOUND", v), Out("RPC_ERROR_TRANSPORT_LAYER", v)}
  BY <1>4 DEF Out
<1>5. CASE SlotsOf(v, e, c, h) # {} /\ o = Out("RPC_SUCCESS", x)
  <2>1. i \in Slots /\ v.slots[e][i].used /\ v.slots[e][i].owner = c /\ v.slots[e][i].handle = h
    <3>1. SlotsOf(v, e, c, h) \in SUBSET Nat
      BY DEF SlotsOf
    <3>2. i \in SlotsOf(v, e, c, h)
      BY <1>5, <3>1, MinIsMember, Zenon
    <3> QED
      BY <3>2, Zenon DEF SlotsOf, Slots
  <2> HIDE DEF i
  <2>2. /\ v.shares[h] = [state |-> "retrieved", owner |-> v.slots[e][i].owner, receiver |-> e,
                          size |-> v.slots[e][i].size]
        /\ \A j \in Slots : v.slots[e][j].used /\ v.slots[e][j].handle = h => i = j
    BY ONLY <2>1, v \in Memories, Mapped(v), e \in Hosts, SlotFacts, Zenon
  <2>3. PICK share : share = [v.shares[h] EXCEPT !.state = "shared"]
    BY Zenon
  <2>4. share \in Shares /\ share.state = "shared" /\ u = WithShare(v, h, share)
    <3>1. v.shares[h] \in Shares
      BY FieldTypes, Zenon
    <3> QED
      BY <1>1, <2>3, <3>1, Zenon DEF Share, WithShare, Shares
  <2>5. /\ u \in Memories /\ u.memories = v.memories /\ u.slots = v.slots /\ u.buffers = v.buffers
        /\ u.shares[h] = share /\ \A g \in Handles \ {h} : u.shares[g] = v.shares[g]
    BY ONLY <2>4, v \in Memories, h \in Handles, ShareSet
  <2>6. /\ x \in Memories /\ x.memories = u.memories /\ x.shares = u.shares /\ x.buffers = u.buffers
        /\ \A f \in Hosts, j \in Slots : x.slots[f][j] = IF f = e /\ j = i THEN FreeSlot ELSE u.slots[f][j]
    BY ONLY <1>2, <2>1, <2>5, e \in Hosts, SlotSet
  <2>7. /\ x.memories = v.memories /\ x.buffers = v.buffers
        /\ x.shares[h] = share /\ \A g \in Handles \ {h} : x.shares[g] = v.shares[g]
        /\ x.slots[e][i] = FreeSlot
        /\ \A f \in Hosts, j \in Slots : ~(f = e /\ j = i) => x.slots[f][j] = v.slots[f][j]
    BY ONLY <2>1, <2>5, <2>6, e \in Hosts
  <2>8. ASSUME NEW f \in Hosts, NEW j \in Slots, v.slots[f][j].used, v.slots[f][j].handle = h
        PROVE  f = e /\ j = i
    <3>1. v.shares[h] = [state |-> "retrieved", owner |-> v.slots[f][j].owner, receiver |-> f,
                         size |-> v.slots[f][j].size]
      BY ONLY <2>8, v \in Memories, Mapped(v), SlotFacts, Zenon
    <3>2. f = e
      BY ONLY <2>2, <3>1
    <3> QED
      BY <2>2, <2>8, <3>2, Zenon
  <2>9. ChangesOnly(v, x, h, e, i)
    <3> SUFFICES ASSUME NEW f \in Hosts, NEW j \in Slots, x.slots[f][j].used
                 PROVE  x.slots[f][j] = v.slots[f][j] /\ x.slots[f][j].handle # h
      BY <2>7, Zenon DEF ChangesOnly
    <3>1. ~(f = e /\ j = i)
      <4>1. FreeSlot.used = FALSE
        BY Zenon DEF FreeSlot
      <4> QED
        BY <2>7, <4>1, Zenon
    <3>2. x.slots[f][j] = v.slots[f][j]
      BY <2>7, <3>1, Zenon
    <3> QED
      BY <2>8, <3>1, <3>2, Zenon
  <2>10. Mapped(x)
    BY <2>1, <2>6, <2>9, MappedAfter, Zenon
  <2>11. StepFor(c, v, x)
    <3>1. \A f \in Hosts, j \in Slots : v.slots[f][j].used /\ v.slots[f][j].owner # c => x.slots[f][j] = v.slots[f][j]
      BY <2>1, <2>7, Zenon
    <3> QED
      BY <2>6, <2>7, <2>10, <3>1, Zenon DEF StepFor
  <2>12. o.status = "RPC_SUCCESS" /\ o.w = x
    BY <1>5, Zenon DEF Out
  <2> QED
    BY <2>4, <2>7, <2>11, <2>12, Zenon
<1> QED
  BY <1>3, <1>4, <1>5, Zenon


\* Steps on behalf of a caller, one after the other.
LEMMA StepsCompose ==
    ASSUME NEW u, NEW v, NEW x, NEW c, StepFor(c, u, v), StepFor(c, v, x)
    PROVE  StepFor(c, u, x)
<1>1. ASSUME NEW e \in Hosts, NEW i \in Slots, u.slots[e][i].used, u.slots[e][i].owner # c
      PROVE  x.slots[e][i] = u.slots[e][i]
  <2>1. v.slots[e][i] = u.slots[e][i]
    BY <1>1, Zenon DEF StepFor
  <2>2. v.slots[e][i].used /\ v.slots[e][i].owner # c
    BY <1>1, <2>1, Zenon
  <2>3. x.slots[e][i] = v.slots[e][i]
    BY <2>2, Zenon DEF StepFor
  <2> QED
    BY <2>1, <2>3, Zenon
<1>2. \A d \in Clients \ {c} : x.memories[d] = u.memories[d]
  BY Zenon DEF StepFor
<1> QED
  BY <1>1, <1>2, Zenon DEF StepFor

\* A step that leaves the slots and the tables alone.
LEMMA StepSame ==
    ASSUME NEW u \in Memories, NEW v \in Memories, Mapped(v), NEW c, v.memories = u.memories, v.slots = u.slots
    PROVE  StepFor(c, u, v)
BY Zenon DEF StepFor

\* EndpointMemoryValid is about the slots, the shares and the buffers.
LEMMA SlotsEqual ==
    ASSUME NEW u, NEW v, Mapped(u), v.slots = u.slots, v.shares = u.shares, v.buffers = u.buffers
    PROVE  Mapped(v)
<1> DEFINE valid(slots, shares, buffers) ==
             \A e \in Hosts, i \in Slots :
               slots[e][i].used =>
                 /\ shares[slots[e][i].handle] = [state |-> "retrieved", owner |-> slots[e][i].owner,
                                                  receiver |-> e, size |-> slots[e][i].size]
                 /\ slots[e][i].handle \in buffers
                 /\ \A j \in Slots : slots[e][j].used /\ slots[e][j].handle = slots[e][i].handle => i = j
<1>1. Mapped(u) <=> valid(u.slots, u.shares, u.buffers)
  BY Zenon DEF Mapped, Slots
<1>2. Mapped(v) <=> valid(v.slots, v.shares, v.buffers)
  BY Zenon DEF Mapped, Slots
<1> HIDE DEF valid
<1> QED
  BY <1>1, <1>2, Zenon

\* memalign and sp_memory_share.
LEMMA SharedKeeps ==
    ASSUME NEW v \in Memories, Mapped(v), NEW c \in Clients, NEW e \in Hosts, NEW size \in Nat \ {0},
           NEW s \in Shared(v, c, e, size)
    PROVE  /\ s.handle \in Handles /\ s.w \in Memories /\ Mapped(s.w)
           /\ s.handle \in s.w.buffers
           /\ s.w.shares[s.handle] = [state |-> "shared", owner |-> c, receiver |-> e, size |-> ROUNDUP(size)]
           /\ s.w.memories = v.memories /\ s.w.slots = v.slots
<1>1. PICK h \in Unused(v) :
        s = [handle |-> h,
             w |-> [Allocated(v, h) EXCEPT !.shares[h] =
                      [state |-> "shared", owner |-> c, receiver |-> e, size |-> ROUNDUP(size)]]]
  BY Zenon DEF Shared
<1>2. h \in Handles /\ v.shares[h].state # "retrieved"
  BY Zenon DEF Unused
<1>3. PICK share : share = [state |-> "shared", owner |-> c, receiver |-> e, size |-> ROUNDUP(size)]
  BY Zenon
<1>4. share \in Shares
  BY <1>3, RoundedUp, Zenon DEF Shares
<1>5. PICK u : u = Allocated(v, h)
  BY Zenon
<1>6. /\ u \in Memories
      /\ u.memories = v.memories /\ u.slots = v.slots /\ u.shares = v.shares /\ v.buffers \cup {h} = u.buffers
  <2>1. u = [memories |-> v.memories, slots |-> v.slots, shares |-> v.shares, buffers |-> v.buffers \cup {h}]
    BY <1>5, Zenon DEF Memories, Allocated
  <2> QED
    BY <1>2, <2>1, Zenon DEF Memories
<1>7. PICK x : x = WithShare(u, h, share)
  BY Zenon
<1>8. s.handle = h /\ s.w = x
  BY <1>1, <1>3, <1>5, <1>7, Zenon DEF WithShare
<1>9. /\ x \in Memories
      /\ x.memories = u.memories /\ x.slots = u.slots /\ x.buffers = u.buffers
      /\ x.shares[h] = share /\ \A g \in Handles \ {h} : x.shares[g] = u.shares[g]
  BY ONLY <1>2, <1>4, <1>6, <1>7, ShareSet
<1>10. \A g \in Handles \ {h} : x.shares[g] = v.shares[g] /\ (g \in v.buffers => g \in x.buffers)
  BY <1>6, <1>9, Zenon
<1>11. x.slots = v.slots
  BY <1>6, <1>9, Zenon
<1>12. Mapped(x)
  BY ONLY <1>2, <1>9, <1>10, <1>11, v \in Memories, Mapped(v), e \in Hosts, MappedSame, Zenon
<1> QED
  BY <1>2, <1>3, <1>6, <1>8, <1>9, <1>12, Zenon

\* A share that was not retrieved is reclaimed, if it can be, and its buffer is freed.
LEMMA NotRetrievedKeeps ==
    ASSUME NEW v \in Memories, Mapped(v), NEW h \in Handles, NEW e \in Hosts, v.shares[h].state = "shared",
           NEW o \in NotRetrieved(v, h)
    PROVE  /\ o.status = "RPC_ERROR_INTERNAL" /\ o.w \in Memories /\ Mapped(o.w)
           /\ o.w.memories = v.memories /\ o.w.slots = v.slots
<1>1. PICK r \in sp_memory_reclaim(v, h) : o = Out("RPC_ERROR_INTERNAL", Freed(r.w, h))
  BY Zenon DEF NotRetrieved
<1>2. /\ r.w \in Memories /\ Mapped(r.w) /\ r.w.shares[h].state # "retrieved"
      /\ r.w.memories = v.memories /\ r.w.slots = v.slots
  BY ReclaimKeeps DEF NoShare
<1>3. PICK x : x = Freed(r.w, h)
  BY Zenon
<1>4. x \in Memories /\ Mapped(x) /\ x.memories = r.w.memories /\ x.slots = r.w.slots
  BY <1>2, <1>3, FreedKeeps
<1> QED
  BY <1>1, <1>2, <1>3, <1>4, Zenon DEF Out

\* The request to retrieve new memory: it is mapped and in the table, or gone.
LEMMA RetrievedKeeps ==
    ASSUME NEW c \in Clients, NEW e \in Hosts, NEW size \in Nat \ {0}, NEW s,
           s.w \in Memories, Mapped(s.w), s.handle \in Handles, s.handle \in s.w.buffers,
           s.w.shares[s.handle] = [state |-> "shared", owner |-> c, receiver |-> e, size |-> size],
           EmptyTable(s.w, c),
           NEW o \in Retrieved(c, e, s)
    PROVE  /\ StepFor(c, s.w, o.w)
           /\ o.status # "RPC_SUCCESS" => o.w.memories = s.w.memories
           /\ o.status = "RPC_SUCCESS" =>
                /\ OnlyEntry(o.w, c, s.handle)
                /\ find_shared_memory_descriptor(o.w, c, s.handle) # {}
                /\ Maps(o.w, e, c, s.handle, size)
<1>1. s.w.shares[s.handle].state = "shared"
  OBVIOUS
<1>2. ASSUME o = Out("RPC_ERROR_INTERNAL", Freed(s.w, s.handle))
      PROVE  StepFor(c, s.w, o.w) /\ o.status # "RPC_SUCCESS" /\ o.w.memories = s.w.memories
  <2>1. PICK x : x = Freed(s.w, s.handle)
    BY Zenon
  <2>2. x \in Memories /\ Mapped(x) /\ x.memories = s.w.memories /\ x.slots = s.w.slots
    BY <1>1, <2>1, FreedKeeps
  <2>3. o.w = x /\ o.status # "RPC_SUCCESS"
    BY <1>2, <2>1, Zenon DEF Out
  <2> QED
    BY <2>2, <2>3, StepSame, Zenon
<1>3. ASSUME NEW r \in handle_memory_retrieve(s.w, e, c, s.handle), r.status # "RPC_SUCCESS",
             o \in NotRetrieved(r.w, s.handle)
      PROVE  o.status # "RPC_SUCCESS" /\ StepFor(c, s.w, o.w) /\ o.w.memories = s.w.memories
  <2>1. r.w = s.w
    BY <1>3, RetrieveKeeps
  <2>2. /\ o.status = "RPC_ERROR_INTERNAL" /\ o.w \in Memories /\ Mapped(o.w)
        /\ o.w.memories = s.w.memories /\ o.w.slots = s.w.slots
    BY <1>1, <1>3, <2>1, NotRetrievedKeeps
  <2> QED
    BY <2>2, StepSame, Zenon
<1>4. ASSUME NEW r \in handle_memory_retrieve(s.w, e, c, s.handle), r.status = "RPC_SUCCESS",
             o = Out("RPC_SUCCESS",
                     [r.w EXCEPT !.memories[c][Min(find_shared_memory_descriptor(r.w, c, FFA_MEM_HANDLE_INVALID))]
                                     = s.handle])
      PROVE  /\ StepFor(c, s.w, o.w) /\ OnlyEntry(o.w, c, s.handle)
             /\ find_shared_memory_descriptor(o.w, c, s.handle) # {}
             /\ Maps(o.w, e, c, s.handle, size)
  <2> DEFINE free == find_shared_memory_descriptor(r.w, c, FFA_MEM_HANDLE_INVALID)
             i == Min(free)
  <2>1. StepFor(c, s.w, r.w) /\ r.w.memories = s.w.memories /\ Maps(r.w, e, c, s.handle, size)
    BY <1>4, RetrieveKeeps
  <2>2. r.w \in Memories /\ Mapped(r.w)
    BY <2>1, Zenon DEF StepFor
  <2>3. i \in Indices
    <3>1. free \in SUBSET Nat
      BY DEF find_shared_memory_descriptor
    <3>2. 1 \in free
      BY <2>1, RpcAssumption DEF find_shared_memory_descriptor, EmptyTable, Indices
    <3>3. i \in free
      BY <3>1, <3>2, MinIsMember, Zenon
    <3> QED
      BY <3>3, Zenon DEF find_shared_memory_descriptor, Indices
  <2> HIDE DEF i
  <2>4. PICK x : x = WithEntry(r.w, c, i, s.handle)
    BY Zenon
  <2>5. o.w = x
    BY <1>4, <2>4, Zenon DEF Out, WithEntry, i
  <2>6. /\ x \in Memories
        /\ x.slots = r.w.slots /\ x.shares = r.w.shares /\ x.buffers = r.w.buffers
        /\ \A d \in Clients \ {c} : x.memories[d] = r.w.memories[d]
        /\ \A j \in Indices : x.memories[c][j] = IF j = i THEN s.handle ELSE r.w.memories[c][j]
    BY <2>2, <2>3, <2>4, EntrySet
  <2>7. Mapped(x)
    BY ONLY <2>2, <2>6, SlotsEqual, Zenon
  <2>8. StepFor(c, s.w, x)
    <3>1. StepFor(c, r.w, x)
      BY ONLY <2>6, <2>7, Zenon DEF StepFor
    <3> QED
      BY <2>1, <3>1, StepsCompose, Zenon
  <2>9. OnlyEntry(x, c, s.handle)
    BY <2>1, <2>6, RpcAssumption DEF OnlyEntry, EmptyTable
  <2>10. find_shared_memory_descriptor(x, c, s.handle) # {}
    BY <2>3, <2>6, Zenon DEF find_shared_memory_descriptor, Indices
  <2>11. Maps(x, e, c, s.handle, size)
    BY <2>1, <2>6, Zenon DEF Maps
  <2> QED
    BY <2>5, <2>8, <2>9, <2>10, <2>11, Zenon
<1>5. \/ o = Out("RPC_ERROR_INTERNAL", Freed(s.w, s.handle))
      \/ \E r \in handle_memory_retrieve(s.w, e, c, s.handle) :
           \/ r.status # "RPC_SUCCESS" /\ o \in NotRetrieved(r.w, s.handle)
           \/ /\ r.status = "RPC_SUCCESS"
              /\ o = Out("RPC_SUCCESS",
                     [r.w EXCEPT !.memories[c][Min(find_shared_memory_descriptor(r.w, c, FFA_MEM_HANDLE_INVALID))]
                                     = s.handle])
  BY Zenon DEF Retrieved, May
<1>6. ASSUME NEW r \in handle_memory_retrieve(s.w, e, c, s.handle),
             \/ r.status # "RPC_SUCCESS" /\ o \in NotRetrieved(r.w, s.handle)
             \/ /\ r.status = "RPC_SUCCESS"
                /\ o = Out("RPC_SUCCESS",
                     [r.w EXCEPT !.memories[c][Min(find_shared_memory_descriptor(r.w, c, FFA_MEM_HANDLE_INVALID))]
                                     = s.handle])
      PROVE  /\ StepFor(c, s.w, o.w)
             /\ o.status # "RPC_SUCCESS" => o.w.memories = s.w.memories
             /\ o.status = "RPC_SUCCESS" =>
                  /\ OnlyEntry(o.w, c, s.handle)
                  /\ find_shared_memory_descriptor(o.w, c, s.handle) # {}
                  /\ Maps(o.w, e, c, s.handle, size)
  <2>1. CASE r.status # "RPC_SUCCESS" /\ o \in NotRetrieved(r.w, s.handle)
    BY <1>3, <2>1, Zenon
  <2>2. CASE /\ r.status = "RPC_SUCCESS"
             /\ o = Out("RPC_SUCCESS",
                     [r.w EXCEPT !.memories[c][Min(find_shared_memory_descriptor(r.w, c, FFA_MEM_HANDLE_INVALID))]
                                     = s.handle])
    <3>1. o.status = "RPC_SUCCESS"
      BY <2>2, Zenon DEF Out
    <3> QED
      BY <1>4, <2>2, <3>1, Zenon
  <2> QED
    BY <1>6, <2>1, <2>2, Zenon
<1> QED
  BY ONLY <1>2, <1>5, <1>6, Zenon

\* create_shared_memory, when the table of the caller is empty.
LEMMA CreateKeeps ==
    ASSUME NEW v \in Memories, Mapped(v), NEW c \in Clients, EmptyTable(v, c), NEW size \in Nat,
           NEW k, k.has_opened_session \in BOOLEAN, k.has_opened_session => k.endpoint_id \in Hosts,
           NEW o \in create_shared_memory(v, k, c, size)
    PROVE  /\ StepFor(c, v, o.w)
           /\ o.status # "RPC_SUCCESS" => o.w.memories = v.memories
           /\ o.status = "RPC_SUCCESS" => k.has_opened_session
           /\ o.status = "RPC_SUCCESS" /\ size = 0 =>
                o.w = v /\ o.memory = [id |-> FFA_MEM_HANDLE_INVALID, size |-> 0]
           /\ o.status = "RPC_SUCCESS" /\ size # 0 =>
                /\ o.memory.id \in Handles /\ o.memory = [id |-> o.memory.id, size |-> ROUNDUP(size)]
                /\ OnlyEntry(o.w, c, o.memory.id)
                /\ find_shared_memory_descriptor(o.w, c, o.memory.id) # {}
                /\ Maps(o.w, k.endpoint_id, c, o.memory.id, ROUNDUP(size))
<1> DEFINE made(s, r) == [status |-> r.status, w |-> r.w,
                          memory |-> IF r.status = "RPC_SUCCESS" THEN [id |-> s.handle, size |-> ROUNDUP(size)]
                                     ELSE NoMemory]
<1>1. StepFor(c, v, v)
  BY StepSame, Zenon
<1>2. CASE ~k.has_opened_session
  <2>1. o = [status |-> "RPC_ERROR_INVALID_STATE", w |-> v, memory |-> NoMemory]
    BY <1>2, Zenon DEF create_shared_memory
  <2>2. o.status # "RPC_SUCCESS" /\ o.w = v
    BY ONLY <2>1, Zenon
  <2> QED
    BY <1>1, <2>2, Zenon
<1>3. CASE k.has_opened_session /\ size = 0
  <2>1. o = [status |-> "RPC_SUCCESS", w |-> v, memory |-> [id |-> FFA_MEM_HANDLE_INVALID, size |-> 0]]
    BY <1>3, Zenon DEF create_shared_memory
  <2>2. o.status = "RPC_SUCCESS" /\ o.w = v /\ o.memory = [id |-> FFA_MEM_HANDLE_INVALID, size |-> 0]
    BY ONLY <2>1, Zenon
  <2> QED
    BY <1>1, <1>3, <2>2, Zenon
<1>4. CASE k.has_opened_session /\ size # 0
  <2>1. \/ o = [status |-> "RPC_ERROR_INTERNAL", w |-> v, memory |-> NoMemory]
        \/ \E s \in Shared(v, c, k.endpoint_id, size) : \E r \in Retrieved(c, k.endpoint_id, s) : o = made(s, r)
    BY <1>4, Zenon DEF create_shared_memory
  <2>2. CASE o = [status |-> "RPC_ERROR_INTERNAL", w |-> v, memory |-> NoMemory]
    <3>1. o.status # "RPC_SUCCESS" /\ o.w = v
      BY ONLY <2>2, Zenon
    <3> QED
      BY <1>1, <3>1, Zenon
  <2>3. ASSUME NEW s \in Shared(v, c, k.endpoint_id, size), NEW r \in Retrieved(c, k.endpoint_id, s),
               o = made(s, r)
        PROVE  /\ StepFor(c, v, o.w)
               /\ o.status # "RPC_SUCCESS" => o.w.memories = v.memories
               /\ o.status = "RPC_SUCCESS" =>
                    /\ o.memory.id \in Handles /\ o.memory = [id |-> o.memory.id, size |-> ROUNDUP(size)]
                    /\ OnlyEntry(o.w, c, o.memory.id)
                    /\ find_shared_memory_descriptor(o.w, c, o.memory.id) # {}
                    /\ Maps(o.w, k.endpoint_id, c, o.memory.id, ROUNDUP(size))
    <3>1. /\ s.handle \in Handles /\ s.w \in Memories /\ Mapped(s.w)
          /\ s.handle \in s.w.buffers
          /\ s.w.shares[s.handle] = [state |-> "shared", owner |-> c, receiver |-> k.endpoint_id,
                                     size |-> ROUNDUP(size)]
          /\ s.w.memories = v.memories /\ s.w.slots = v.slots
      BY <1>4, SharedKeeps
    <3>2. EmptyTable(s.w, c)
      BY <3>1, Zenon DEF EmptyTable
    <3>3. ROUNDUP(size) \in Nat \ {0}
      BY <1>4, RoundedUp, Zenon
    <3>4. /\ StepFor(c, s.w, r.w)
          /\ r.status # "RPC_SUCCESS" => r.w.memories = s.w.memories
          /\ r.status = "RPC_SUCCESS" =>
               /\ OnlyEntry(r.w, c, s.handle)
               /\ find_shared_memory_descriptor(r.w, c, s.handle) # {}
               /\ Maps(r.w, k.endpoint_id, c, s.handle, ROUNDUP(size))
      BY <1>4, <3>1, <3>2, <3>3, RetrievedKeeps, Zenon
    <3>5. StepFor(c, v, r.w)
      BY <3>1, <3>4, StepSame, StepsCompose, Zenon
    <3>6. /\ o.status = r.status /\ o.w = r.w
          /\ r.status = "RPC_SUCCESS" => o.memory = [id |-> s.handle, size |-> ROUNDUP(size)]
      BY <2>3, Zenon
    <3>7. r.status = "RPC_SUCCESS" => o.memory.id = s.handle
      BY <3>6
    <3> QED
      BY <3>1, <3>4, <3>5, <3>6, <3>7, Zenon
  <2> QED
    BY ONLY <1>4, <2>1, <2>2, <2>3, Zenon
<1> QED
  BY <1>2, <1>3, <1>4, Zenon

(***************************************************************************)
(* The end of release_shared_memory: the entry goes, and with it the share *)
(* and the buffer, only when the endpoint has given up the memory and the  *)
(* SPMC has taken it back.                                                 *)
(***************************************************************************)
LEMMA ReleasedKeeps ==
    ASSUME NEW v \in Memories, Mapped(v), NEW c \in Clients, NEW h \in Handles, NEW e \in Hosts,
           OnlyEntry(v, c, h), find_shared_memory_descriptor(v, c, h) # {},
           NEW relinquished, NEW o \in Released(v, c, h, relinquished)
    PROVE  /\ StepFor(c, v, o.w)
           /\ o.status # "RPC_SUCCESS" => o.w.memories = v.memories
           /\ o.status = "RPC_SUCCESS" =>
                relinquished = "RPC_SUCCESS" /\ EmptyTable(o.w, c) /\ o.w.shares[h] = NoShare /\ h \notin o.w.buffers
           /\ v.shares[h].state = "retrieved" => o.status # "RPC_SUCCESS" /\ o.w = v
           /\ v.shares[h].state = "shared" /\ "reclaim" \notin Faults /\ relinquished = "RPC_SUCCESS" =>
                o.status = "RPC_SUCCESS"
<1> DEFINE i(x) == Min(find_shared_memory_descriptor(x, c, h))
<1>1. PICK r \in sp_memory_reclaim(v, h) :
        \/ r.status # "RPC_SUCCESS" /\ o = r
        \/ /\ r.status = "RPC_SUCCESS"
           /\ \/ relinquished # "RPC_SUCCESS" /\ o = Out(relinquished, r.w)
              \/ /\ relinquished = "RPC_SUCCESS"
                 /\ o = Out("RPC_SUCCESS", [Freed(r.w, h) EXCEPT !.memories[c][i(r.w)] = FFA_MEM_HANDLE_INVALID])
  BY Zenon DEF Released
<1>2. \/ /\ r.status = "RPC_ERROR_INTERNAL" /\ r.w = v
         /\ "reclaim" \in Faults \/ v.shares[h].state # "shared"
      \/ /\ r.status = "RPC_SUCCESS" /\ v.shares[h].state = "shared"
         /\ r.w \in Memories /\ Mapped(r.w) /\ r.w.shares[h] = NoShare
         /\ r.w.memories = v.memories /\ r.w.slots = v.slots /\ r.w.buffers = v.buffers
  BY ReclaimKeeps
<1>3. CASE r.status # "RPC_SUCCESS"
  <2>1. o = r /\ r.w = v /\ ("reclaim" \in Faults \/ v.shares[h].state # "shared")
    BY <1>1, <1>2, <1>3, Zenon
  <2> QED
    BY <1>3, <2>1, StepSame, Zenon
<1>4. CASE r.status = "RPC_SUCCESS" /\ relinquished # "RPC_SUCCESS"
  <2>1. o.status = relinquished /\ o.w = r.w
    BY <1>1, <1>4 DEF Out
  <2>2. v.shares[h].state = "shared" /\ StepFor(c, v, r.w) /\ r.w.memories = v.memories
    BY <1>2, <1>4, StepSame, Zenon
  <2> QED
    BY <1>4, <2>1, <2>2, Zenon
<1>5. CASE r.status = "RPC_SUCCESS" /\ relinquished = "RPC_SUCCESS"
  <2>1. /\ v.shares[h].state = "shared" /\ r.w \in Memories /\ Mapped(r.w) /\ r.w.shares[h] = NoShare
        /\ r.w.memories = v.memories /\ r.w.slots = v.slots
    BY <1>2, <1>5, Zenon
  <2>2. NoShare.state # "retrieved"
    BY Zenon DEF NoShare
  <2>3. PICK u : u = Freed(r.w, h)
    BY Zenon
  <2>4. /\ u \in Memories /\ Mapped(u) /\ h \notin u.buffers
        /\ u.memories = v.memories /\ u.slots = v.slots /\ u.shares[h] = NoShare
    BY <2>1, <2>2, <2>3, FreedKeeps
  <2>5. PICK j : j = i(r.w)
    BY Zenon
  <2>6. j \in Indices /\ v.memories[c][j] = h
    <3>1. find_shared_memory_descriptor(r.w, c, h) = find_shared_memory_descriptor(v, c, h)
      BY <2>1, Zenon DEF find_shared_memory_descriptor
    <3>2. find_shared_memory_descriptor(v, c, h) \in SUBSET Nat
      BY DEF find_shared_memory_descriptor
    <3>3. j \in find_shared_memory_descriptor(v, c, h)
      BY <2>5, <3>1, <3>2, MinIsMember, Zenon
    <3> QED
      BY <3>3, Zenon DEF find_shared_memory_descriptor, Indices
  <2>7. PICK x : x = WithEntry(u, c, j, FFA_MEM_HANDLE_INVALID)
    BY Zenon
  <2>8. o = Out("RPC_SUCCESS", x)
    BY <1>1, <1>5, <2>3, <2>5, <2>7, Zenon DEF WithEntry
  <2>9. /\ x \in Memories
        /\ x.slots = u.slots /\ x.shares = u.shares /\ x.buffers = u.buffers
        /\ \A d \in Clients \ {c} : x.memories[d] = u.memories[d]
        /\ \A l \in Indices : x.memories[c][l] = IF l = j THEN FFA_MEM_HANDLE_INVALID ELSE u.memories[c][l]
    BY <2>4, <2>6, <2>7, EntrySet
  <2>10. Mapped(x)
    BY ONLY <2>4, <2>9, SlotsEqual, Zenon
  <2>11. StepFor(c, v, x)
    <3>1. StepFor(c, u, x)
      BY ONLY <2>9, <2>10, Zenon DEF StepFor
    <3>2. StepFor(c, v, u)
      BY <2>4, StepSame, Zenon
    <3> QED
      BY <3>1, <3>2, StepsCompose, Zenon
  <2>12. EmptyTable(x, c)
    <3>1. h # FFA_MEM_HANDLE_INVALID
      BY RpcAssumption, Zenon
    <3> QED
      BY <2>4, <2>6, <2>9, <3>1 DEF EmptyTable, OnlyEntry
  <2>13. o.status = "RPC_SUCCESS" /\ o.w = x
    BY <2>8, Zenon DEF Out
  <2> QED
    BY <1>5, <2>1, <2>4, <2>9, <2>11, <2>12, <2>13, Zenon
<1> QED
  BY <1>3, <1>4, <1>5, Zenon

\* release_shared_memory, when the memory is the only one in the table of the caller.
LEMMA ReleaseKeeps ==
    ASSUME NEW v \in Memories, Mapped(v), NEW c \in Clients, NEW k, k.endpoint_id \in Hosts,
           NEW h \in Handles \cup {FFA_MEM_HANDLE_INVALID}, OnlyEntry(v, c, h),
           NEW o \in release_shared_memory(v, k, c, h)
    PROVE  /\ StepFor(c, v, o.w)
           /\ o.status # "RPC_SUCCESS" => o.w.memories = v.memories
           /\ o.status = "RPC_SUCCESS" =>
                /\ EmptyTable(o.w, c)
                /\ h # FFA_MEM_HANDLE_INVALID => o.w.shares[h] = NoShare /\ h \notin o.w.buffers
                /\ h = FFA_MEM_HANDLE_INVALID => o.w = v
           /\ "reclaim" \notin Faults /\ o.status # "RPC_SUCCESS" =>
                \A size : Maps(v, k.endpoint_id, c, h, size) => o.w = v
<1> DEFINE e == k.endpoint_id
<1>1. StepFor(c, v, v)
  BY StepSame, Zenon
<1>2. CASE h = FFA_MEM_HANDLE_INVALID
  <2>1. o.status = "RPC_SUCCESS" /\ o.w = v
    BY <1>2 DEF release_shared_memory, Out
  <2>2. EmptyTable(v, c)
    BY <1>2, Zenon DEF EmptyTable, OnlyEntry
  <2> QED
    BY <1>1, <1>2, <2>1, <2>2, Zenon
<1>3. CASE o = Out("RPC_ERROR_INTERNAL", v)
  BY <1>1, <1>3, Zenon DEF Out
<1>4. ASSUME h # FFA_MEM_HANDLE_INVALID, find_shared_memory_descriptor(v, c, h) # {},
             NEW r \in handle_memory_relinquish(v, e, c, h), o \in Released(r.w, c, h, r.status)
      PROVE  /\ StepFor(c, v, o.w)
             /\ o.status # "RPC_SUCCESS" => o.w.memories = v.memories
             /\ o.status = "RPC_SUCCESS" => EmptyTable(o.w, c) /\ o.w.shares[h] = NoShare /\ h \notin o.w.buffers
             /\ "reclaim" \notin Faults /\ o.status # "RPC_SUCCESS" =>
                  \A size : Maps(v, e, c, h, size) => o.w = v
  <2>1. h \in Handles
    BY <1>4, Zenon
  <2>2. \/ r.status # "RPC_SUCCESS" /\ r.w = v
        \/ /\ r.status = "RPC_SUCCESS"
           /\ StepFor(c, v, r.w) /\ r.w.memories = v.memories
           /\ r.w.shares[h].state = "shared"
    BY <2>1, RelinquishKeeps
  <2>3. r.w \in Memories /\ Mapped(r.w) /\ r.w.memories = v.memories /\ StepFor(c, v, r.w)
    BY <1>1, <2>2, Zenon DEF StepFor
  <2>4. OnlyEntry(r.w, c, h) /\ find_shared_memory_descriptor(r.w, c, h) # {}
    BY <1>4, <2>3, Zenon DEF OnlyEntry, find_shared_memory_descriptor
  <2>5. /\ StepFor(c, r.w, o.w)
        /\ o.status # "RPC_SUCCESS" => o.w.memories = r.w.memories
        /\ o.status = "RPC_SUCCESS" =>
             r.status = "RPC_SUCCESS" /\ EmptyTable(o.w, c) /\ o.w.shares[h] = NoShare /\ h \notin o.w.buffers
        /\ r.w.shares[h].state = "retrieved" => o.status # "RPC_SUCCESS" /\ o.w = r.w
        /\ r.w.shares[h].state = "shared" /\ "reclaim" \notin Faults /\ r.status = "RPC_SUCCESS" =>
             o.status = "RPC_SUCCESS"
    BY <1>4, <2>1, <2>3, <2>4, ReleasedKeeps
  <2>6. StepFor(c, v, o.w)
    BY <2>3, <2>5, StepsCompose, Zenon
  <2>7. ASSUME "reclaim" \notin Faults, o.status # "RPC_SUCCESS", NEW size, Maps(v, e, c, h, size)
        PROVE  o.w = v
    <3>1. PICK i \in Slots : v.slots[e][i] = [used |-> TRUE, owner |-> c, handle |-> h, size |-> size]
      BY <2>7, Zenon DEF Maps
    <3>2. v.slots[e][i].used /\ v.slots[e][i].handle = h
      BY ONLY <3>1
    <3>3. v.shares[h].state = "retrieved"
      BY <2>1, <3>2, NotInSlots, Zenon
    <3>4. r.w = v
      BY <2>2, <2>5, <2>7, Zenon
    <3> QED
      BY <2>5, <3>3, <3>4, Zenon
  <2> QED
    BY <2>3, <2>5, <2>6, <2>7, Zenon
<1>5. \/ h = FFA_MEM_HANDLE_INVALID
      \/ o = Out("RPC_ERROR_INTERNAL", v)
      \/ /\ h # FFA_MEM_HANDLE_INVALID /\ find_shared_memory_descriptor(v, c, h) # {}
         /\ \E r \in handle_memory_relinquish(v, e, c, h) : o \in Released(r.w, c, h, r.status)
  BY Zenon DEF release_shared_memory, May
<1>6. CASE /\ h # FFA_MEM_HANDLE_INVALID /\ find_shared_memory_descriptor(v, c, h) # {}
           /\ \E r \in handle_memory_relinquish(v, e, c, h) : o \in Released(r.w, c, h, r.status)
  BY ONLY <1>4, <1>6, Zenon
<1> QED
  BY ONLY <1>2, <1>3, <1>5, <1>6, Zenon

(***************************************************************************)
(* close_session of an empty table releases nothing.  By the invariant     *)
(* below the table is empty whenever the code closes a session, so the     *)
(* loop of close_session never meets an entry in use.                      *)
(***************************************************************************)
LEMMA CloseNothing ==
    ASSUME NEW v, NEW c, NEW k, EmptyTable(v, c), k.has_opened_session \in BOOLEAN
    PROVE  close_session(v, k, c) = {Out(IF k.has_opened_session THEN "RPC_SUCCESS" ELSE "RPC_ERROR_INVALID_STATE", v)}
<1>1. CASE ~k.has_opened_session
  BY <1>1, Zenon DEF close_session
<1>2. CASE k.has_opened_session
  <2> DEFINE N == MAX_SHM_NUM
             all == {Out("RPC_SUCCESS", v)}
             step(prev, i) == UNION {IF o.status # "RPC_SUCCESS" THEN {o}
                                     ELSE release_shared_memory(o.w, k, c, o.w.memories[c][i]) : o \in prev}
             After[i \in 0 .. N] == IF i = 0 THEN all ELSE step(After[i - 1], i)
             G == [i \in 0 .. N |-> all]
  <2>1. N \in Nat
    BY RpcAssumption, Zenon
  <2>2. close_session(v, k, c) = After[N]
    BY <1>2, Zenon DEF close_session
  <2>3. \A i \in Indices : step(all, i) = all
    <3> SUFFICES ASSUME NEW i \in Indices PROVE step(all, i) = all
      BY Zenon
    <3>1. release_shared_memory(v, k, c, v.memories[c][i]) = all
      BY Zenon DEF release_shared_memory, EmptyTable
    <3>2. Out("RPC_SUCCESS", v).status = "RPC_SUCCESS" /\ Out("RPC_SUCCESS", v).w = v
      BY Zenon DEF Out
    <3> QED
      BY <3>1, <3>2, Zenon
  <2> HIDE DEF step, all
  <2>4. G = [i \in 0 .. N |-> IF i = 0 THEN all ELSE step(G[i - 1], i)]
    BY <2>1, <2>3 DEF Indices
  <2> HIDE DEF G
  <2>5. After = [i \in 0 .. N |-> IF i = 0 THEN all ELSE step(After[i - 1], i)]
    BY <2>4, Zenon
  <2> HIDE DEF After
  <2>6. {i \in 0 .. N : After[i] # all} = {}
    <3> DEFINE S == {i \in 0 .. N : After[i] # all}
    <3> SUFFICES ASSUME S # {} PROVE FALSE
      BY Zenon
    <3>1. S \in SUBSET Nat
      BY <2>1
    <3>2. PICK m \in S : \A j \in S : m <= j
      BY ONLY <3>1, S # {}, LeastExists, Zenon
    <3>3. m # 0
      BY <2>1, <2>5, <3>2, Zenon
    <3>4. m \in Indices /\ m - 1 \in 0 .. N /\ After[m - 1] = all
      BY <2>1, <3>2, <3>3 DEF Indices
    <3>5. After[m] = step(After[m - 1], m)
      BY <2>5, <3>2, <3>3, Zenon
    <3> QED
      BY <2>3, <3>2, <3>4, <3>5, Zenon
  <2>7. After[N] = all
    BY <2>1, <2>6
  <2> QED
    BY <1>2, <2>2, <2>7, Zenon DEF all
<1> QED
  BY <1>1, <1>2, Zenon

\* The session has memory of its own, or its call has.
UsesMemory(s) == s.opened /\ (s.policy = "alloc_for_session" \/ s.is_call_transaction_in_progress)

\* What the table of caller `k' of client `c' holds is the memory of its session `s'.
Sound(v, k, s, c) ==
    /\ k.has_opened_session => k.endpoint_id \in Hosts
    /\ s.is_call_transaction_in_progress => s.opened
    /\ UsesMemory(s) => k.has_opened_session /\ s.memory.id # NULL /\ OnlyEntry(v, c, s.memory.id)
    /\ ~UsesMemory(s) => EmptyTable(v, c)

\* The caller and the endpoint know the memory of the session, and mean the same service.
Agreed(v, k, s, r, c) ==
    /\ r \in {NotCalled, Lost, [status |-> "RPC_SUCCESS", service |-> s.uuid]}
    /\ r # NotCalled => s.is_call_transaction_in_progress
    /\ k.has_opened_session /\ s.opened =>
         k.interface_id # 0 /\ k.interface_id = handle_interface_id_query(k.endpoint_id, s.uuid)
    /\ UsesMemory(s) /\ s.memory.id = FFA_MEM_HANDLE_INVALID => s.request_length = 0 /\ s.memory.size = 0
    /\ UsesMemory(s) /\ s.memory.id # FFA_MEM_HANDLE_INVALID =>
         /\ find_shared_memory_descriptor(v, c, s.memory.id) # {}
         /\ Maps(v, k.endpoint_id, c, s.memory.id, s.memory.size)
         /\ s.request_length <= s.memory.size

\* The inductive invariant.
Inv == TypeOK /\ EndpointMemoryValid /\ \A c \in Clients : Sound(w, caller[c], session[c], c)

\* Both sides agree, for every client.
Agreement == \A c \in Clients : Agreed(w, caller[c], session[c], served[c], c)

\* A step of client `c' that leaves it with caller `k' and session `s'.
Effect(c, k, s) ==
    /\ StepFor(c, w, w')
    /\ caller' = [caller EXCEPT ![c] = k] /\ k \in Callers
    /\ session' = [session EXCEPT ![c] = s] /\ s \in Sessions
    /\ Sound(w', k, s, c)
    /\ "reclaim" \notin Faults /\ Agreement => Agreed(w', k, s, served'[c], c)

\* The state of the other clients.
LEMMA OthersSound ==
    ASSUME NEW u, NEW v, NEW c, NEW d \in Clients, d # c, StepFor(c, u, v), NEW k, NEW s, Sound(u, k, s, d)
    PROVE  Sound(v, k, s, d)
<1>1. v.memories[d] = u.memories[d]
  BY Zenon DEF StepFor
<1>2. \A h : OnlyEntry(u, d, h) => OnlyEntry(v, d, h)
  BY <1>1, Zenon DEF OnlyEntry
<1>3. EmptyTable(u, d) => EmptyTable(v, d)
  BY <1>1, Zenon DEF EmptyTable
<1> QED
  BY <1>2, <1>3, Zenon DEF Sound

\* What the other clients agree on with their endpoints is not touched either.
LEMMA OthersAgreed ==
    ASSUME NEW u, NEW v, NEW c, NEW d \in Clients, d # c, StepFor(c, u, v), NEW k, NEW s, NEW r,
           Sound(u, k, s, d), Agreed(u, k, s, r, d)
    PROVE  Agreed(v, k, s, r, d)
<1>1. v.memories[d] = u.memories[d]
  BY Zenon DEF StepFor
<1>2. \A h : find_shared_memory_descriptor(v, d, h) = find_shared_memory_descriptor(u, d, h)
  BY <1>1, Zenon DEF find_shared_memory_descriptor
<1>3. ASSUME NEW e \in Hosts, NEW h, NEW size, Maps(u, e, d, h, size)
      PROVE  Maps(v, e, d, h, size)
  <2>1. PICK i \in Slots : u.slots[e][i] = [used |-> TRUE, owner |-> d, handle |-> h, size |-> size]
    BY <1>3, Zenon DEF Maps
  <2>2. u.slots[e][i].used = TRUE /\ u.slots[e][i].owner = d
    BY ONLY <2>1
  <2>3. v.slots[e][i] = u.slots[e][i]
    BY <2>2, Zenon DEF StepFor
  <2> QED
    BY <2>1, <2>3, Zenon DEF Maps
<1>4. UsesMemory(s) => k.endpoint_id \in Hosts
  BY Zenon DEF Sound
<1> QED
  BY <1>2, <1>3, <1>4, Zenon DEF Agreed

\* What an action has to establish for the client that takes it.
LEMMA EffectKeeps ==
    ASSUME Inv, NEW c \in Clients, NEW k, NEW s, Effect(c, k, s),
           served' \in [Clients -> [status : Statuses \cup {"lost", NULL}, service : UUIDs \cup {NULL}]],
           \A d \in Clients \ {c} : served'[d] = served[d]
    PROVE  Inv' /\ ("reclaim" \notin Faults /\ Agreement => Agreement')
<1>1. /\ caller \in [Clients -> Callers] /\ session \in [Clients -> Sessions]
  BY Zenon DEF Inv, TypeOK
<1>2. /\ caller' \in [Clients -> Callers] /\ caller'[c] = k /\ \A d \in Clients \ {c} : caller'[d] = caller[d]
  BY <1>1, Zenon DEF Effect
<1>3. /\ session' \in [Clients -> Sessions] /\ session'[c] = s /\ \A d \in Clients \ {c} : session'[d] = session[d]
  BY <1>1, Zenon DEF Effect
<1>4. w' \in Memories /\ EndpointMemoryValid'
  BY Zenon DEF Effect, StepFor, EndpointMemoryValid
<1>5. TypeOK'
  BY <1>2, <1>3, <1>4, Zenon DEF TypeOK
<1>6. ASSUME NEW d \in Clients PROVE Sound(w', caller'[d], session'[d], d)
  <2>1. CASE d = c
    BY <1>2, <1>3, <2>1, Zenon DEF Effect
  <2>2. CASE d # c
    BY <1>2, <1>3, <2>2, OthersSound, Zenon DEF Effect, Inv
  <2> QED
    BY <2>1, <2>2, Zenon
<1>7. ASSUME "reclaim" \notin Faults, Agreement, NEW d \in Clients
      PROVE  Agreed(w', caller'[d], session'[d], served'[d], d)
  <2>1. CASE d = c
    BY <1>2, <1>3, <1>7, <2>1, Zenon DEF Effect
  <2>2. CASE d # c
    BY <1>2, <1>3, <1>7, <2>2, OthersAgreed, Zenon DEF Effect, Inv, Agreement
  <2> QED
    BY <2>1, <2>2, Zenon
<1> QED
  BY <1>4, <1>5, <1>6, <1>7, Zenon DEF Inv, Agreement

\* What the invariant says of one client.
LEMMA InvFor ==
    ASSUME Inv, NEW c \in Clients
    PROVE  /\ w \in Memories /\ Mapped(w)
           /\ caller[c] \in Callers /\ session[c] \in Sessions
           /\ Sound(w, caller[c], session[c], c)
           /\ StepFor(c, w, w)
           /\ caller = [caller EXCEPT ![c] = caller[c]] /\ session = [session EXCEPT ![c] = session[c]]
<1>1. w \in Memories /\ Mapped(w) /\ Sound(w, caller[c], session[c], c)
  BY Zenon DEF Inv, TypeOK, EndpointMemoryValid
<1>2. StepFor(c, w, w)
  BY <1>1, StepSame, Zenon
<1> QED
  BY <1>1, <1>2, Zenon DEF Inv, TypeOK

\* The interface ID that an endpoint gives for a service is a number.
LEMMA InterfaceId ==
    ASSUME NEW e \in Hosts, NEW uuid
    PROVE  /\ handle_interface_id_query(e, uuid) \in Nat
           /\ handle_interface_id_query(e, uuid) # 0 =>
                /\ handle_interface_id_query(e, uuid) \in DOMAIN Services[e]
                /\ Services[e][handle_interface_id_query(e, uuid)] = uuid
<1> DEFINE found == {i \in DOMAIN Services[e] : Services[e][i] = uuid}
<1>1. e \in DOMAIN Services
  BY RpcAssumption, Zenon DEF Hosts, Range
<1>2. found \in SUBSET Nat
  BY <1>1, RpcAssumption, Zenon
<1>3. found # {} => Min(found) \in found
  BY <1>2, MinIsMember, Zenon
<1> QED
  BY <1>2, <1>3, Zenon DEF handle_interface_id_query

\* rpc_caller_session_open and rpc_caller_session_find_and_open, once the caller has opened its session (or not).
LEMMA SessionOpenedKeeps ==
    ASSUME Inv, NEW c \in Clients, NEW uuid \in UUIDs, NEW size \in Lengths, NEW k \in Callers,
           k.has_opened_session =>
             /\ k.endpoint_id \in Hosts /\ k.interface_id # 0
             /\ k.interface_id = handle_interface_id_query(k.endpoint_id, uuid),
           ~session[c].opened, UNCHANGED served, SessionOpened(c, k, uuid, size)
    PROVE  \E k2, s2 : Effect(c, k2, s2)
<1>1. /\ w \in Memories /\ Mapped(w)
      /\ caller[c] \in Callers /\ session[c] \in Sessions
      /\ Sound(w, caller[c], session[c], c)
      /\ StepFor(c, w, w)
      /\ caller = [caller EXCEPT ![c] = caller[c]] /\ session = [session EXCEPT ![c] = session[c]]
  BY InvFor, Zenon
<1>2. ~UsesMemory(session[c]) /\ ~session[c].is_call_transaction_in_progress /\ EmptyTable(w, c)
  BY <1>1, Zenon DEF Sound, UsesMemory
<1>3. Agreement => served'[c] = NotCalled
  BY <1>2, Zenon DEF Agreement, Agreed
<1>4. size \in Nat /\ k.has_opened_session \in BOOLEAN
  BY RpcAssumption, Zenon DEF Callers
<1>5. CASE size = 0
  <2>1. PICK s : s = OpenSession(uuid, "alloc_for_each_call", NoMemory)
    BY Zenon
  <2>2. /\ caller' = [caller EXCEPT ![c] = k] /\ session' = [session EXCEPT ![c] = s] /\ w' = w
    BY <1>5, <2>1, Zenon DEF SessionOpened
  <2>3. s \in Sessions
    BY <2>1, Zenon DEF Sessions, OpenSession, NoMemory
  <2>4. s.opened = TRUE /\ s.is_call_transaction_in_progress = FALSE /\ s.policy = "alloc_for_each_call" /\ s.uuid = uuid
    BY <2>1, Zenon DEF OpenSession
  <2>5. ~UsesMemory(s)
    BY <2>4, Zenon DEF UsesMemory
  <2>6. Sound(w', k, s, c)
    BY <1>2, <2>2, <2>4, <2>5, Zenon DEF Sound
  <2>7. Agreement => Agreed(w', k, s, served'[c], c)
    BY <1>3, <2>4, <2>5, Zenon DEF Agreed
  <2> QED
    BY <1>1, <2>2, <2>3, <2>6, <2>7, Zenon DEF Effect
<1>6. CASE size # 0
  <2>1. PICK o \in create_shared_memory(w, k, c, size) :
          IF o.status = "RPC_SUCCESS"
          THEN /\ caller' = [caller EXCEPT ![c] = k]
               /\ session' = [session EXCEPT ![c] = OpenSession(uuid, "alloc_for_session", o.memory)]
               /\ w' = o.w
          ELSE /\ \E d \in close_session(o.w, k, c) :
                    /\ w' = d.w
                    /\ caller' = [caller EXCEPT ![c] = IF d.status = "RPC_SUCCESS" THEN ClosedCaller ELSE k]
               /\ UNCHANGED session
    BY <1>6, Zenon DEF SessionOpened
  <2>2. /\ StepFor(c, w, o.w)
        /\ o.status # "RPC_SUCCESS" => o.w.memories = w.memories
        /\ o.status = "RPC_SUCCESS" => k.has_opened_session
        /\ o.status = "RPC_SUCCESS" =>
             /\ o.memory.id \in Handles /\ o.memory = [id |-> o.memory.id, size |-> ROUNDUP(size)]
             /\ OnlyEntry(o.w, c, o.memory.id)
             /\ find_shared_memory_descriptor(o.w, c, o.memory.id) # {}
             /\ Maps(o.w, k.endpoint_id, c, o.memory.id, ROUNDUP(size))
    <3>1. k.has_opened_session => k.endpoint_id \in Hosts
      BY Zenon
    <3> QED
      BY ONLY <1>1, <1>2, <1>4, <1>6, <2>1, <3>1, c \in Clients, CreateKeeps
  <2>3. CASE o.status = "RPC_SUCCESS"
    <3>1. PICK s : s = OpenSession(uuid, "alloc_for_session", o.memory)
      BY Zenon
    <3>2. /\ caller' = [caller EXCEPT ![c] = k] /\ session' = [session EXCEPT ![c] = s] /\ w' = o.w
      BY <2>1, <2>3, <3>1, Zenon
    <3>3. ROUNDUP(size) \in Nat
      BY <1>4, <1>6, RoundedUp, Zenon
    <3>4. s \in Sessions
      BY <2>2, <2>3, <3>1, <3>3 DEF Sessions, OpenSession
    <3>5. /\ s.opened = TRUE /\ s.is_call_transaction_in_progress = FALSE /\ s.policy = "alloc_for_session"
          /\ s.uuid = uuid /\ s.memory = o.memory /\ s.request_length = 0
      BY <3>1, Zenon DEF OpenSession
    <3>6. UsesMemory(s)
      BY <3>5, Zenon DEF UsesMemory
    <3>7. o.memory.id # NULL /\ o.memory.id # FFA_MEM_HANDLE_INVALID
      BY <2>2, <2>3, RpcAssumption, Zenon
    <3>8. Sound(w', k, s, c)
      BY <2>2, <2>3, <3>2, <3>5, <3>6, <3>7, Zenon DEF Sound
    <3>9. o.memory.size = ROUNDUP(size) /\ s.request_length <= o.memory.size
      BY <2>2, <2>3, <3>3, <3>5
    <3>10. Agreement => Agreed(w', k, s, served'[c], c)
      BY <1>3, <2>2, <2>3, <3>2, <3>5, <3>7, <3>9, Zenon DEF Agreed
    <3> QED
      BY <2>2, <3>2, <3>4, <3>8, <3>10, Zenon DEF Effect
  <2>4. CASE o.status # "RPC_SUCCESS"
    <3>1. EmptyTable(o.w, c)
      BY <1>2, <2>2, <2>4, Zenon DEF EmptyTable
    <3>2. PICK d \in close_session(o.w, k, c) :
                    /\ w' = d.w
                    /\ caller' = [caller EXCEPT ![c] = IF d.status = "RPC_SUCCESS" THEN ClosedCaller ELSE k]
                    /\ UNCHANGED session
      BY <2>1, <2>4, Zenon
    <3>3. d.w = o.w
      BY <1>4, <3>1, <3>2, CloseNothing DEF Out
    <3>4. PICK k2 : k2 = IF d.status = "RPC_SUCCESS" THEN ClosedCaller ELSE k
      BY Zenon
    <3>5. ClosedCaller \in Callers /\ ClosedCaller.has_opened_session = FALSE
      BY Zenon DEF ClosedCaller, Callers
    <3>6. k2 \in Callers /\ (k2.has_opened_session => k2.endpoint_id \in Hosts)
      BY <3>4, <3>5, Zenon
    <3>7. w' = o.w /\ caller' = [caller EXCEPT ![c] = k2] /\ session' = [session EXCEPT ![c] = session[c]]
      BY <1>1, <3>2, <3>3, <3>4, Zenon
    <3>8. Sound(w', k2, session[c], c)
      BY <1>2, <3>1, <3>6, <3>7, Zenon DEF Sound
    <3>9. Agreement => Agreed(w', k2, session[c], served'[c], c)
      BY <1>2, <1>3, Zenon DEF Agreed
    <3> QED
      BY <1>1, <2>2, <3>6, <3>7, <3>8, <3>9, Zenon DEF Effect
  <2> QED
    BY <2>3, <2>4, Zenon
<1> QED
  BY <1>5, <1>6, Zenon

\* The session that open_session makes.
LEMMA OpenedIs ==
    ASSUME NEW e \in Hosts, NEW uuid, handle_interface_id_query(e, uuid) # 0
    PROVE  /\ Opened(e, uuid) \in Callers
           /\ Opened(e, uuid).endpoint_id \in Hosts /\ Opened(e, uuid).interface_id # 0
           /\ Opened(e, uuid).interface_id = handle_interface_id_query(Opened(e, uuid).endpoint_id, uuid)
<1>1. handle_interface_id_query(e, uuid) \in Nat
  BY InterfaceId, Zenon
<1> QED
  BY <1>1, Zenon DEF Opened, Callers

\* rpc_caller_session_open: the session it opens owns what it allocated, or nothing is left.
LEMMA OpenEffect ==
    ASSUME Inv, NEW c \in Clients, NEW e \in Hosts, NEW uuid \in UUIDs, NEW size \in Lengths,
           rpc_caller_session_open(c, e, uuid, size)
    PROVE  \E k, s : Effect(c, k, s)
<1>1. /\ ~session[c].opened /\ handle_interface_id_query(e, uuid) # 0
      /\ SessionOpened(c, Opened(e, uuid), uuid, size) /\ UNCHANGED served
  BY Zenon DEF rpc_caller_session_open
<1>2. PICK k : k = Opened(e, uuid)
  BY Zenon
<1>3. /\ k \in Callers /\ k.endpoint_id \in Hosts /\ k.interface_id # 0
      /\ k.interface_id = handle_interface_id_query(k.endpoint_id, uuid)
  BY <1>1, <1>2, OpenedIs, Zenon
<1> QED
  BY <1>1, <1>2, <1>3, SessionOpenedKeeps, Zenon

\* rpc_caller_session_find_and_open: the same, with the endpoint that offers the service.
LEMMA FindAndOpenEffect ==
    ASSUME Inv, NEW c \in Clients, NEW uuid \in UUIDs, NEW size \in Lengths,
           rpc_caller_session_find_and_open(c, uuid, size)
    PROVE  \E k, s : Effect(c, k, s)
<1>1. PICK k \in {Opened(e, uuid) : e \in Found(uuid)} \cup May("rx_release", ClosedCaller) :
        SessionOpened(c, k, uuid, size)
  BY Zenon DEF rpc_caller_session_find_and_open
<1>2. ~session[c].opened /\ UNCHANGED served
  BY Zenon DEF rpc_caller_session_find_and_open
<1>3. CASE k \in {Opened(e, uuid) : e \in Found(uuid)}
  <2>1. PICK e \in Found(uuid) : k = Opened(e, uuid)
    BY <1>3, Zenon
  <2>2. e \in Hosts /\ handle_interface_id_query(e, uuid) # 0
    BY Zenon DEF Found, Having, Hosts, Range
  <2>3. /\ k \in Callers /\ k.endpoint_id \in Hosts /\ k.interface_id # 0
        /\ k.interface_id = handle_interface_id_query(k.endpoint_id, uuid)
    BY <2>1, <2>2, OpenedIs, Zenon
  <2> QED
    BY <1>1, <1>2, <2>3, SessionOpenedKeeps, Zenon
<1>4. CASE k \in May("rx_release", ClosedCaller)
  <2>1. k \in Callers /\ k.has_opened_session = FALSE
    <3>1. k = ClosedCaller
      BY <1>4, Zenon DEF May
    <3> QED
      BY ONLY <3>1, Zenon DEF ClosedCaller, Callers
  <2> QED
    BY <1>1, <1>2, <2>1, SessionOpenedKeeps, Zenon
<1> QED
  BY <1>1, <1>3, <1>4, Zenon

(***************************************************************************)
(* rpc_caller_session_close.  A session that it closes had one memory at   *)
(* most, which is no longer shared, mapped or allocated; one that it       *)
(* cannot close keeps everything, unless the SPMC did not reclaim.         *)
(***************************************************************************)
LEMMA CloseEffect ==
    ASSUME Inv, NEW c \in Clients, rpc_caller_session_close(c)
    PROVE  /\ \E k, s : Effect(c, k, s)
           /\ ~session'[c].opened =>
                \A i \in Indices : w.memories[c][i] # FFA_MEM_HANDLE_INVALID =>
                  w'.shares[w.memories[c][i]] = NoShare /\ w.memories[c][i] \notin w'.buffers
<1> DEFINE k == caller[c]
           s == session[c]
           h == s.memory.id
<1>1. /\ w \in Memories /\ Mapped(w) /\ k \in Callers /\ s \in Sessions
      /\ Sound(w, k, s, c) /\ StepFor(c, w, w)
      /\ caller = [caller EXCEPT ![c] = k] /\ session = [session EXCEPT ![c] = s]
  BY InvFor, Zenon
<1>2. s.opened /\ ~s.is_call_transaction_in_progress /\ UNCHANGED served
  BY Zenon DEF rpc_caller_session_close
<1>3. UsesMemory(s) <=> s.policy = "alloc_for_session"
  BY <1>2, Zenon DEF UsesMemory
<1>4. PICK o \in IF s.policy = "alloc_for_session" THEN release_shared_memory(w, k, c, h)
                 ELSE {Out("RPC_SUCCESS", w)} :
        IF o.status = "RPC_SUCCESS"
        THEN \E d \in close_session(o.w, k, c) :
               /\ w' = d.w
               /\ IF d.status = "RPC_SUCCESS"
                  THEN /\ caller' = [caller EXCEPT ![c] = ClosedCaller]
                       /\ session' = [session EXCEPT ![c].opened = FALSE]
                  ELSE UNCHANGED <<caller, session>>
        ELSE w' = o.w /\ UNCHANGED <<caller, session>>
  BY Zenon DEF rpc_caller_session_close
<1>5. k.has_opened_session \in BOOLEAN /\ session \in [Clients -> Sessions] /\ h \in Handles \cup {FFA_MEM_HANDLE_INVALID, NULL}
  BY <1>1, Zenon DEF Callers, Sessions, Inv, TypeOK
<1>6. /\ StepFor(c, w, o.w)
      /\ o.status # "RPC_SUCCESS" =>
           UsesMemory(s) /\ o.w.memories = w.memories
      /\ o.status = "RPC_SUCCESS" =>
           /\ EmptyTable(o.w, c)
           /\ \A i \in Indices : w.memories[c][i] # FFA_MEM_HANDLE_INVALID =>
                o.w.shares[w.memories[c][i]] = NoShare /\ w.memories[c][i] \notin o.w.buffers
      /\ "reclaim" \notin Faults /\ o.status # "RPC_SUCCESS" =>
           \A size : Maps(w, k.endpoint_id, c, h, size) => o.w = w
  <2>1. CASE s.policy = "alloc_for_session"
    <3>1. k.endpoint_id \in Hosts /\ h \in Handles \cup {FFA_MEM_HANDLE_INVALID} /\ OnlyEntry(w, c, h)
      BY <1>1, <1>3, <1>5, <2>1, Zenon DEF Sound
    <3>2. o \in release_shared_memory(w, k, c, h)
      BY <1>4, <2>1, Zenon
    <3>3. /\ StepFor(c, w, o.w)
          /\ o.status # "RPC_SUCCESS" => o.w.memories = w.memories
          /\ o.status = "RPC_SUCCESS" =>
               /\ EmptyTable(o.w, c)
               /\ h # FFA_MEM_HANDLE_INVALID => o.w.shares[h] = NoShare /\ h \notin o.w.buffers
          /\ "reclaim" \notin Faults /\ o.status # "RPC_SUCCESS" =>
               \A size : Maps(w, k.endpoint_id, c, h, size) => o.w = w
      <4> HIDE DEF h, k
      <4> QED
        BY <1>1, <3>1, <3>2, ReleaseKeeps
    <3>4. \A i \in Indices : w.memories[c][i] # FFA_MEM_HANDLE_INVALID => w.memories[c][i] = h
      BY <3>1, Zenon DEF OnlyEntry
    <3> QED
      BY <1>3, <2>1, <3>3, <3>4, Zenon
  <2>2. CASE s.policy # "alloc_for_session"
    <3>1. o.status = "RPC_SUCCESS" /\ o.w = w
      BY <1>4, <2>2 DEF Out
    <3>2. EmptyTable(w, c)
      BY <1>1, <1>3, <2>2, Zenon DEF Sound
    <3> QED
      BY <1>1, <3>1, <3>2, Zenon DEF EmptyTable
  <2> QED
    BY <2>1, <2>2, Zenon
<1>7. CASE o.status # "RPC_SUCCESS"
  <2>1. /\ w' = o.w /\ caller' = [caller EXCEPT ![c] = k] /\ session' = [session EXCEPT ![c] = s]
        /\ session'[c] = s
    BY <1>1, <1>4, <1>7, Zenon
  <2>2. Sound(w', k, s, c)
    <3>1. OnlyEntry(w, c, h) => OnlyEntry(w', c, h)
      BY <1>6, <1>7, <2>1, Zenon DEF OnlyEntry
    <3> QED
      BY <1>1, <1>6, <1>7, <3>1, Zenon DEF Sound
  <2>3. "reclaim" \notin Faults /\ Agreement => Agreed(w', k, s, served'[c], c)
    <3> SUFFICES ASSUME "reclaim" \notin Faults, Agreement PROVE Agreed(w', k, s, served'[c], c)
      BY Zenon
    <3>1. Agreed(w, k, s, served[c], c)
      BY Zenon DEF Agreement
    <3>2. h # FFA_MEM_HANDLE_INVALID => w' = w
      BY <1>6, <1>7, <2>1, <3>1, Zenon DEF Agreed
    <3> QED
      BY <1>2, <1>6, <1>7, <3>1, <3>2, Zenon DEF Agreed
  <2> QED
    BY <1>1, <1>2, <1>6, <2>1, <2>2, <2>3, Zenon DEF Effect
<1>8. CASE o.status = "RPC_SUCCESS"
  <2>1. PICK d \in close_session(o.w, k, c) :
               /\ w' = d.w
               /\ IF d.status = "RPC_SUCCESS"
                  THEN /\ caller' = [caller EXCEPT ![c] = ClosedCaller]
                       /\ session' = [session EXCEPT ![c].opened = FALSE]
                  ELSE UNCHANGED <<caller, session>>
    BY <1>4, <1>8, Zenon
  <2>2. d = Out(IF k.has_opened_session THEN "RPC_SUCCESS" ELSE "RPC_ERROR_INVALID_STATE", o.w)
    BY <1>5, <1>6, <1>8, <2>1, CloseNothing
  <2>3. d.w = o.w /\ (d.status = "RPC_SUCCESS" <=> k.has_opened_session)
    BY <1>5, <2>2, Zenon DEF Out
  <2>4. CASE d.status = "RPC_SUCCESS"
    <3>1. PICK s2 : s2 = [s EXCEPT !.opened = FALSE]
      BY Zenon
    <3>2. s2 \in Sessions /\ s2.opened = FALSE /\ s2.is_call_transaction_in_progress = s.is_call_transaction_in_progress
      BY <1>1, <3>1, Zenon DEF Sessions
    <3>3. session' = [session EXCEPT ![c] = s2] /\ caller' = [caller EXCEPT ![c] = ClosedCaller] /\ w' = o.w
      BY <2>1, <2>3, <2>4, <3>1, Zenon
    <3>4. ClosedCaller \in Callers /\ ClosedCaller.has_opened_session = FALSE
      BY Zenon DEF ClosedCaller, Callers
    <3>5. ~UsesMemory(s2)
      BY <3>2, Zenon DEF UsesMemory
    <3>6. Sound(w', ClosedCaller, s2, c)
      BY <1>2, <1>6, <1>8, <3>2, <3>3, <3>4, <3>5, Zenon DEF Sound
    <3>7. Agreement => Agreed(w', ClosedCaller, s2, served'[c], c)
      <4>1. Agreement => served[c] = NotCalled
        BY <1>2, Zenon DEF Agreement, Agreed
      <4> QED
        BY <1>2, <3>4, <3>5, <4>1, Zenon DEF Agreed
    <3> QED
      BY <1>6, <1>8, <3>2, <3>3, <3>4, <3>6, <3>7, Zenon DEF Effect
  <2>5. CASE d.status # "RPC_SUCCESS"
    <3>1. ~UsesMemory(s) /\ o.w = w
      <4>1. ~UsesMemory(s)
        BY <1>1, <2>3, <2>5, Zenon DEF Sound
      <4> QED
        BY <1>3, <1>4, <4>1 DEF Out
    <3>2. w' = w /\ caller' = caller /\ session' = session
      BY <2>1, <2>3, <2>5, <3>1, Zenon
    <3>3. Agreement => Agreed(w', k, s, served'[c], c)
      BY <1>2, <3>2, Zenon DEF Agreement
    <3>4. session'[c].opened
      BY <1>2, <3>2, Zenon
    <3> QED
      BY <1>1, <3>2, <3>3, <3>4, Zenon DEF Effect
  <2> QED
    BY <2>4, <2>5, Zenon
<1> QED
  BY <1>7, <1>8, Zenon

\* rpc_caller_session_begin: the call has the memory of the session, or memory of its own.
LEMMA BeginEffect ==
    ASSUME Inv, NEW c \in Clients, NEW length \in Lengths, NEW response_max_length \in Lengths,
           rpc_caller_session_begin(c, length, response_max_length)
    PROVE  \E k, s : Effect(c, k, s)
<1> DEFINE k == caller[c]
           s == session[c]
           required == IF length > response_max_length THEN length ELSE response_max_length
<1>1. /\ w \in Memories /\ Mapped(w) /\ k \in Callers /\ s \in Sessions
      /\ Sound(w, k, s, c) /\ StepFor(c, w, w)
      /\ caller = [caller EXCEPT ![c] = k] /\ session = [session EXCEPT ![c] = s]
  BY InvFor, Zenon
<1>2. /\ s.opened /\ ~s.is_call_transaction_in_progress /\ UNCHANGED <<caller, served>>
      /\ IF s.policy = "alloc_for_each_call"
         THEN /\ s.memory.size = 0
              /\ \E o \in create_shared_memory(w, k, c, required) :
                   /\ w' = o.w
                   /\ IF o.status = "RPC_SUCCESS" THEN Begun(c, o.memory, length) ELSE UNCHANGED session
         ELSE /\ s.memory.size # 0 /\ s.memory.size >= required
              /\ Begun(c, s.memory, length)
              /\ UNCHANGED w
  BY Zenon DEF rpc_caller_session_begin
<1>3. /\ length \in Nat /\ required \in Nat /\ length <= required
  BY RpcAssumption
<1>4. k.has_opened_session \in BOOLEAN /\ s.memory \in [id : Handles \cup {FFA_MEM_HANDLE_INVALID, NULL}, size : Nat]
  BY <1>1, Zenon DEF Callers, Sessions
<1>5. Agreement => Agreed(w, k, s, served[c], c) /\ served'[c] = NotCalled
  BY <1>2, Zenon DEF Agreement, Agreed
<1>6. ASSUME NEW m \in [id : Handles \cup {FFA_MEM_HANDLE_INVALID, NULL}, size : Nat], Begun(c, m, length)
      PROVE  \E s2 \in Sessions :
               /\ session' = [session EXCEPT ![c] = s2]
               /\ s2.opened = s.opened /\ s2.is_call_transaction_in_progress = TRUE /\ s2.policy = s.policy
               /\ s2.uuid = s.uuid /\ s2.memory = m /\ s2.request_length = length
               /\ UsesMemory(s2)
  <2>1. PICK s2 : s2 = Call(s, m, TRUE, length)
    BY Zenon
  <2>2. s2 \in Sessions
    BY <1>1, <2>1, Zenon DEF Sessions, Call
  <2>3. /\ s2.opened = s.opened /\ s2.is_call_transaction_in_progress = TRUE /\ s2.policy = s.policy
        /\ s2.uuid = s.uuid /\ s2.memory = m /\ s2.request_length = length
    BY <2>1, Zenon DEF Call
  <2>4. UsesMemory(s2)
    BY <1>2, <2>3, Zenon DEF UsesMemory
  <2>5. session' = [session EXCEPT ![c] = s2]
    BY <1>6, <2>1, Zenon DEF Begun
  <2> QED
    BY <2>2, <2>3, <2>4, <2>5, Zenon
<1>7. CASE s.policy = "alloc_for_each_call"
  <2>1. PICK o \in create_shared_memory(w, k, c, required) :
          /\ w' = o.w
          /\ IF o.status = "RPC_SUCCESS" THEN Begun(c, o.memory, length) ELSE UNCHANGED session
    BY <1>2, <1>7, Zenon
  <2>2. ~UsesMemory(s)
    BY <1>2, <1>7, Zenon DEF UsesMemory
  <2>3. EmptyTable(w, c) /\ (k.has_opened_session => k.endpoint_id \in Hosts)
    BY <1>1, <2>2, Zenon DEF Sound
  <2>4. /\ StepFor(c, w, o.w)
        /\ o.status # "RPC_SUCCESS" => o.w.memories = w.memories
        /\ o.status = "RPC_SUCCESS" => k.has_opened_session
        /\ o.status = "RPC_SUCCESS" /\ required = 0 =>
             o.w = w /\ o.memory = [id |-> FFA_MEM_HANDLE_INVALID, size |-> 0]
        /\ o.status = "RPC_SUCCESS" /\ required # 0 =>
             /\ o.memory.id \in Handles /\ o.memory = [id |-> o.memory.id, size |-> ROUNDUP(required)]
             /\ OnlyEntry(o.w, c, o.memory.id)
             /\ find_shared_memory_descriptor(o.w, c, o.memory.id) # {}
             /\ Maps(o.w, k.endpoint_id, c, o.memory.id, ROUNDUP(required))
    <3> HIDE DEF k, required
    <3> QED
      BY ONLY <1>1, <1>3, <1>4, <2>1, <2>3, c \in Clients, CreateKeeps
  <2>5. CASE o.status # "RPC_SUCCESS"
    <3>1. EmptyTable(o.w, c)
      BY <2>3, <2>4, <2>5, Zenon DEF EmptyTable
    <3>2. w' = o.w /\ caller' = [caller EXCEPT ![c] = k] /\ session' = [session EXCEPT ![c] = s]
      BY <1>1, <1>2, <2>1, <2>5, Zenon
    <3>3. Sound(w', k, s, c)
      BY <1>1, <2>2, <3>1, <3>2, Zenon DEF Sound
    <3>4. Agreement => Agreed(w', k, s, served'[c], c)
      BY <1>2, <1>5, <2>2, Zenon DEF Agreed
    <3> QED
      BY <1>1, <2>4, <3>2, <3>3, <3>4, Zenon DEF Effect
  <2>6. CASE o.status = "RPC_SUCCESS" /\ required = 0
    <3>1. o.w = w /\ o.memory = [id |-> FFA_MEM_HANDLE_INVALID, size |-> 0] /\ k.has_opened_session
      BY <2>4, <2>6, Zenon
    <3>2. o.memory \in [id : Handles \cup {FFA_MEM_HANDLE_INVALID, NULL}, size : Nat]
          /\ o.memory.id = FFA_MEM_HANDLE_INVALID /\ o.memory.size = 0
      BY <3>1
    <3>3. PICK s2 \in Sessions :
               /\ session' = [session EXCEPT ![c] = s2]
               /\ s2.opened = s.opened /\ s2.is_call_transaction_in_progress = TRUE /\ s2.policy = s.policy
               /\ s2.uuid = s.uuid /\ s2.memory = o.memory /\ s2.request_length = length
               /\ UsesMemory(s2)
      BY <1>6, <2>1, <2>6, <3>2, Zenon
    <3>4. length = 0
      BY <1>3, <2>6
    <3>5. OnlyEntry(w, c, FFA_MEM_HANDLE_INVALID)
      BY <2>3, Zenon DEF EmptyTable, OnlyEntry
    <3>6. FFA_MEM_HANDLE_INVALID # NULL
      BY Zenon DEF FFA_MEM_HANDLE_INVALID, NULL
    <3>7. w' = w /\ caller' = [caller EXCEPT ![c] = k]
      BY <1>1, <1>2, <2>1, <3>1, Zenon
    <3>8. Sound(w', k, s2, c)
      BY <1>2, <2>3, <3>1, <3>2, <3>3, <3>5, <3>6, <3>7, Zenon DEF Sound
    <3>9. Agreement => Agreed(w', k, s2, served'[c], c)
      BY <1>2, <1>5, <3>2, <3>3, <3>4, Zenon DEF Agreed
    <3> QED
      BY <1>1, <3>3, <3>7, <3>8, <3>9, Zenon DEF Effect
  <2>7. CASE o.status = "RPC_SUCCESS" /\ required # 0
    <3> DEFINE size == ROUNDUP(required)
    <3>1. /\ o.memory.id \in Handles /\ o.memory = [id |-> o.memory.id, size |-> size]
          /\ OnlyEntry(o.w, c, o.memory.id)
          /\ find_shared_memory_descriptor(o.w, c, o.memory.id) # {}
          /\ Maps(o.w, k.endpoint_id, c, o.memory.id, size) /\ k.has_opened_session
      BY <2>4, <2>7, Zenon
    <3>2. size \in Nat /\ length <= size
      <4> HIDE DEF required
      <4>1. size \in Nat /\ size >= required
        BY <1>3, <2>7, RoundedUp, Zenon
      <4> HIDE DEF size
      <4> QED
        BY <1>3, <4>1
    <3> HIDE DEF size
    <3>3. /\ o.memory \in [id : Handles \cup {FFA_MEM_HANDLE_INVALID, NULL}, size : Nat]
          /\ o.memory.size = size
      BY <3>1, <3>2
    <3>4. o.memory.id # FFA_MEM_HANDLE_INVALID /\ o.memory.id # NULL
      BY <3>1, RpcAssumption, Zenon
    <3>5. PICK s2 \in Sessions :
               /\ session' = [session EXCEPT ![c] = s2]
               /\ s2.opened = s.opened /\ s2.is_call_transaction_in_progress = TRUE /\ s2.policy = s.policy
               /\ s2.uuid = s.uuid /\ s2.memory = o.memory /\ s2.request_length = length
               /\ UsesMemory(s2)
      BY <1>6, <2>1, <2>7, <3>3, Zenon
    <3>6. w' = o.w /\ caller' = [caller EXCEPT ![c] = k]
      BY <1>1, <1>2, <2>1, Zenon
    <3>7. Sound(w', k, s2, c)
      BY <1>2, <2>3, <3>1, <3>4, <3>5, <3>6, Zenon DEF Sound
    <3>8. Agreement => Agreed(w', k, s2, served'[c], c)
      BY <1>2, <1>5, <3>1, <3>2, <3>3, <3>4, <3>5, <3>6, Zenon DEF Agreed
    <3> QED
      BY <1>1, <2>4, <3>5, <3>6, <3>7, <3>8, Zenon DEF Effect
  <2> QED
    BY <2>5, <2>6, <2>7, Zenon
<1>8. CASE s.policy # "alloc_for_each_call"
  <2>1. s.memory.size # 0 /\ s.memory.size >= required /\ Begun(c, s.memory, length) /\ w' = w
    BY <1>2, <1>8, Zenon
  <2>2. PICK s2 \in Sessions :
               /\ session' = [session EXCEPT ![c] = s2]
               /\ s2.opened = s.opened /\ s2.is_call_transaction_in_progress = TRUE /\ s2.policy = s.policy
               /\ s2.uuid = s.uuid /\ s2.memory = s.memory /\ s2.request_length = length
               /\ UsesMemory(s2)
    BY <1>4, <1>6, <2>1, Zenon
  <2>3. UsesMemory(s)
    BY <1>1, <1>2, <1>8, Zenon DEF UsesMemory, Sessions
  <2>4. length <= s.memory.size
    <3>1. s.memory.size \in Nat
      BY <1>4, Zenon
    <3> QED
      BY <1>3, <2>1, <3>1
  <2>5. caller' = [caller EXCEPT ![c] = k]
    BY <1>1, <1>2, Zenon
  <2>6. Sound(w', k, s2, c)
    BY <1>1, <1>2, <2>1, <2>2, <2>3, Zenon DEF Sound
  <2>7. ASSUME "reclaim" \notin Faults, Agreement PROVE Agreed(w', k, s2, served'[c], c)
    <3>1. Agreed(w, k, s, served[c], c) /\ served'[c] = NotCalled
      BY <1>5, <2>7, Zenon
    <3>2. ASSUME s.memory.id # FFA_MEM_HANDLE_INVALID PROVE Agreed(w', k, s2, served'[c], c)
      BY <1>2, <2>1, <2>2, <2>3, <2>4, <3>1, <3>2, Zenon DEF Agreed
    <3>3. s.memory.id # FFA_MEM_HANDLE_INVALID
      BY <2>1, <2>3, <3>1, Zenon DEF Agreed
    <3> QED
      BY <3>2, <3>3, Zenon
  <2> QED
    BY <1>1, <2>1, <2>2, <2>5, <2>6, <2>7, Zenon DEF Effect
<1> QED
  BY <1>7, <1>8, Zenon

\* Serving a call whose memory both sides know.
LEMMA ServedIs ==
    ASSUME NEW v, NEW k, NEW s, NEW r, NEW c, Sound(v, k, s, c), Agreed(v, k, s, r, c), v \in Memories, Mapped(v),
           s \in Sessions, s.is_call_transaction_in_progress
    PROVE  /\ Served(v, k, c, s.memory, s.request_length) = "RPC_SUCCESS"
           /\ Services[k.endpoint_id][k.interface_id] = s.uuid
<1> DEFINE e == k.endpoint_id
           h == s.memory.id
<1>1. s.opened /\ UsesMemory(s)
  BY Zenon DEF Sound, UsesMemory
<1>2. k.has_opened_session /\ e \in Hosts /\ h # NULL
  BY <1>1, Zenon DEF Sound
<1>3. k.interface_id # 0 /\ k.interface_id = handle_interface_id_query(e, s.uuid)
  BY <1>1, <1>2, Zenon DEF Agreed
<1>4. k.interface_id \in DOMAIN Services[e] /\ Services[e][k.interface_id] = s.uuid
  BY <1>2, <1>3, InterfaceId
<1>5. h \in Handles \cup {FFA_MEM_HANDLE_INVALID} /\ s.memory.size \in Nat /\ s.request_length \in Nat
  <2>1. /\ s.memory \in [id : Handles \cup {FFA_MEM_HANDLE_INVALID, NULL}, size : Nat]
        /\ s.request_length \in Lengths \cup {0}
    BY ONLY s \in Sessions, Zenon DEF Sessions
  <2>2. h # NULL
    BY <1>2, Zenon
  <2>3. h \in Handles \cup {FFA_MEM_HANDLE_INVALID} /\ s.memory.size \in Nat
    BY ONLY <2>1, <2>2, Zenon
  <2>4. Lengths \cup {0} \subseteq Nat
    BY RpcAssumption
  <2>5. s.request_length \in Nat
    BY ONLY <2>1, <2>4, Zenon
  <2> QED
    BY <2>3, <2>5, Zenon
<1>6. CASE h = FFA_MEM_HANDLE_INVALID
  <2>1. s.request_length = 0
    BY <1>1, <1>6, Zenon DEF Agreed
  <2>2. handle_service_interfaces(v, e, c, k.interface_id, h, s.request_length) = "RPC_SUCCESS"
    BY <1>4, <1>6, <2>1 DEF handle_service_interfaces
  <2> QED
    BY <1>2, <1>4, <1>6, <2>1, <2>2, Zenon DEF Served
<1>7. CASE h # FFA_MEM_HANDLE_INVALID
  <2>1. /\ find_shared_memory_descriptor(v, c, h) # {} /\ Maps(v, e, c, h, s.memory.size)
        /\ s.request_length <= s.memory.size
    BY <1>1, <1>7, Zenon DEF Agreed
  <2>2. PICK i \in Slots : v.slots[e][i] = [used |-> TRUE, owner |-> c, handle |-> h, size |-> s.memory.size]
    BY <2>1, Zenon DEF Maps
  <2>3. /\ v.slots[e][i].used /\ v.slots[e][i].owner = c /\ v.slots[e][i].handle = h
        /\ v.slots[e][i].size = s.memory.size
    BY ONLY <2>2
  <2>4. SlotsOf(v, e, c, h) = {i}
    <3>1. i \in SlotsOf(v, e, c, h)
      BY <2>3, Zenon DEF SlotsOf, Slots
    <3>2. ASSUME NEW j \in SlotsOf(v, e, c, h) PROVE j = i
      <4>1. j \in Slots /\ v.slots[e][j].used /\ v.slots[e][j].handle = h
        BY Zenon DEF SlotsOf, Slots
      <4>2. \A l \in Slots : v.slots[e][l].used /\ v.slots[e][l].handle = v.slots[e][i].handle => i = l
        BY ONLY <1>2, <2>3, v \in Memories, Mapped(v), SlotFacts, Zenon
      <4> QED
        BY ONLY <2>3, <4>1, <4>2, Zenon
    <3> QED
      BY <3>1, <3>2, Zenon
  <2>5. Min(SlotsOf(v, e, c, h)) = i
    <3>1. SlotsOf(v, e, c, h) \in SUBSET Nat
      BY DEF SlotsOf
    <3> QED
      BY <2>4, <3>1, MinIsMember, Zenon
  <2>6. handle_service_interfaces(v, e, c, k.interface_id, h, s.request_length) = "RPC_SUCCESS"
    <3>1. ~(s.request_length > s.memory.size)
      BY <1>5, <2>1
    <3>2. SlotsOf(v, e, c, h) # {}
      BY <2>4, Zenon
    <3>3. v.slots[e][Min(SlotsOf(v, e, c, h))].size = s.memory.size
      BY <2>3, <2>5, Zenon
    <3> QED
      BY <1>4, <1>7, <3>1, <3>2, <3>3, Zenon DEF handle_service_interfaces
  <2> QED
    BY <1>2, <1>4, <1>7, <2>1, <2>6, Zenon DEF Served
<1> QED
  BY <1>6, <1>7, Zenon

\* The types of what rpc_caller_session_invoke reports.
LEMMA ServedType ==
    ASSUME NEW v, NEW k, NEW c, NEW m, NEW length, k.has_opened_session => k.endpoint_id \in Hosts,
           k.has_opened_session \in BOOLEAN
    PROVE  /\ Served(v, k, c, m, length) \in Statuses
           /\ Served(v, k, c, m, length) = "RPC_SUCCESS" => Services[k.endpoint_id][k.interface_id] \in UUIDs
<1>1. Served(v, k, c, m, length) \in Statuses
  BY Zenon DEF Served, handle_service_interfaces, Statuses
<1>2. ASSUME Served(v, k, c, m, length) = "RPC_SUCCESS"
      PROVE  k.has_opened_session /\ k.interface_id \in DOMAIN Services[k.endpoint_id]
  BY <1>2, Zenon DEF Served, handle_service_interfaces
<1> QED
  BY <1>1, <1>2 DEF UUIDs, Range

\* rpc_caller_session_invoke changes only what was served; a call whose sides agree is served.
LEMMA InvokeEffect ==
    ASSUME Inv, NEW c \in Clients, rpc_caller_session_invoke(c)
    PROVE  /\ Effect(c, caller[c], session[c])
           /\ \E r \in [status : Statuses \cup {"lost", NULL}, service : UUIDs \cup {NULL}] :
                served' = [served EXCEPT ![c] = r]
<1> DEFINE k == caller[c]
           s == session[c]
           status == Served(w, k, c, s.memory, s.request_length)
           answer == [status |-> status,
                      service |-> IF status = "RPC_SUCCESS" THEN Services[k.endpoint_id][k.interface_id] ELSE NULL]
<1>1. /\ w \in Memories /\ Mapped(w) /\ k \in Callers /\ s \in Sessions
      /\ Sound(w, k, s, c) /\ StepFor(c, w, w)
      /\ caller = [caller EXCEPT ![c] = k] /\ session = [session EXCEPT ![c] = s]
  BY InvFor, Zenon
<1>2. s.is_call_transaction_in_progress /\ w' = w /\ caller' = caller /\ session' = session
  BY Zenon DEF rpc_caller_session_invoke
<1>3. PICK r \in {answer} \cup May("request", Lost) : served' = [served EXCEPT ![c] = r]
  BY Zenon DEF rpc_caller_session_invoke
<1>4. r = answer \/ r = Lost
  BY <1>3, Zenon DEF May
<1>5. status \in Statuses /\ (status = "RPC_SUCCESS" => Services[k.endpoint_id][k.interface_id] \in UUIDs)
  <2>1. k.has_opened_session \in BOOLEAN /\ (k.has_opened_session => k.endpoint_id \in Hosts)
    BY <1>1, Zenon DEF Callers, Sound
  <2> HIDE DEF k, s
  <2> QED
    BY <2>1, ServedType, Zenon
<1>6. r \in [status : Statuses \cup {"lost", NULL}, service : UUIDs \cup {NULL}]
  <2> HIDE DEF status
  <2> QED
    BY <1>4, <1>5 DEF Lost
<1>7. served'[c] = r
  BY <1>3, Zenon DEF Inv, TypeOK
<1>8. ASSUME Agreement PROVE Agreed(w', k, s, served'[c], c)
  <2>1. Agreed(w, k, s, served[c], c)
    BY <1>8, Zenon DEF Agreement
  <2>2. status = "RPC_SUCCESS" /\ Services[k.endpoint_id][k.interface_id] = s.uuid
    BY <1>1, <1>2, <2>1, ServedIs, Zenon
  <2>3. r \in {Lost, [status |-> "RPC_SUCCESS", service |-> s.uuid]}
    BY <1>4, <2>2, Zenon
  <2> QED
    BY <1>2, <1>7, <2>1, <2>3, Zenon DEF Agreed
<1>9. Effect(c, k, s)
  BY <1>1, <1>2, <1>8, Zenon DEF Effect
<1> QED
  BY <1>3, <1>6, <1>9, Zenon

\* rpc_caller_session_end: the memory of the call is released, or the call stays in progress.
LEMMA EndEffect ==
    ASSUME Inv, NEW c \in Clients, rpc_caller_session_end(c)
    PROVE  \E k, s : Effect(c, k, s)
<1> DEFINE k == caller[c]
           s == session[c]
           h == s.memory.id
<1>1. /\ w \in Memories /\ Mapped(w) /\ k \in Callers /\ s \in Sessions
      /\ Sound(w, k, s, c) /\ StepFor(c, w, w)
      /\ caller = [caller EXCEPT ![c] = k] /\ session = [session EXCEPT ![c] = s]
  BY InvFor, Zenon
<1>2. /\ s.is_call_transaction_in_progress /\ caller' = caller
      /\ served' = [served EXCEPT ![c] = NotCalled]
      /\ IF s.policy = "alloc_for_each_call"
         THEN \E o \in release_shared_memory(w, k, c, h) :
                /\ w' = o.w
                /\ session' = IF o.status = "RPC_SUCCESS"
                              THEN [session EXCEPT ![c] = Call(s, NoMemory, FALSE, 0)] ELSE session
         ELSE session' = [session EXCEPT ![c] = Call(s, s.memory, FALSE, 0)] /\ w' = w
  BY Zenon DEF rpc_caller_session_end
<1>3. s.opened /\ UsesMemory(s) /\ k.has_opened_session
  BY <1>1, <1>2, Zenon DEF Sound, UsesMemory
<1>4. /\ k.endpoint_id \in Hosts /\ h # NULL /\ OnlyEntry(w, c, h)
  BY <1>1, <1>3, Zenon DEF Sound
<1>5. /\ s.memory \in [id : Handles \cup {FFA_MEM_HANDLE_INVALID, NULL}, size : Nat]
      /\ h \in Handles \cup {FFA_MEM_HANDLE_INVALID}
  BY <1>1, <1>4, Zenon DEF Sessions
<1>6. served'[c] = NotCalled
  BY <1>2, Zenon DEF Inv, TypeOK
<1>7. Agreement => Agreed(w, k, s, served[c], c)
  BY Zenon DEF Agreement
<1>8. ASSUME NEW m \in [id : Handles \cup {FFA_MEM_HANDLE_INVALID, NULL}, size : Nat],
             session' = [session EXCEPT ![c] = Call(s, m, FALSE, 0)]
      PROVE  \E s2 \in Sessions :
               /\ session' = [session EXCEPT ![c] = s2]
               /\ s2.opened = s.opened /\ s2.is_call_transaction_in_progress = FALSE /\ s2.policy = s.policy
               /\ s2.uuid = s.uuid /\ s2.memory = m /\ s2.request_length = 0
  <2>1. PICK s2 : s2 = Call(s, m, FALSE, 0)
    BY Zenon
  <2>2. s2 \in Sessions
    BY <1>1, <2>1, Zenon DEF Sessions, Call
  <2>3. /\ s2.opened = s.opened /\ s2.is_call_transaction_in_progress = FALSE /\ s2.policy = s.policy
        /\ s2.uuid = s.uuid /\ s2.memory = m /\ s2.request_length = 0
    BY <2>1, Zenon DEF Call
  <2> QED
    BY <1>8, <2>1, <2>2, <2>3, Zenon
<1>9. CASE s.policy = "alloc_for_each_call"
  <2>1. PICK o \in release_shared_memory(w, k, c, h) :
          /\ w' = o.w
          /\ session' = IF o.status = "RPC_SUCCESS"
                        THEN [session EXCEPT ![c] = Call(s, NoMemory, FALSE, 0)] ELSE session
    BY <1>2, <1>9, Zenon
  <2>2. /\ StepFor(c, w, o.w)
        /\ o.status # "RPC_SUCCESS" => o.w.memories = w.memories
        /\ o.status = "RPC_SUCCESS" => EmptyTable(o.w, c)
        /\ "reclaim" \notin Faults /\ o.status # "RPC_SUCCESS" =>
             \A size : Maps(w, k.endpoint_id, c, h, size) => o.w = w
        /\ h = FFA_MEM_HANDLE_INVALID => o.status = "RPC_SUCCESS"
    <3>1. h = FFA_MEM_HANDLE_INVALID => o.status = "RPC_SUCCESS"
      BY <2>1 DEF release_shared_memory, Out
    <3> HIDE DEF h, k
    <3> QED
      BY <1>1, <1>4, <1>5, <2>1, <3>1, ReleaseKeeps
  <2>3. caller' = [caller EXCEPT ![c] = k]
    BY <1>1, <1>2, Zenon
  <2>4. CASE o.status = "RPC_SUCCESS"
    <3>1. NoMemory \in [id : Handles \cup {FFA_MEM_HANDLE_INVALID, NULL}, size : Nat]
      BY Zenon DEF NoMemory
    <3>2. PICK s2 \in Sessions :
               /\ session' = [session EXCEPT ![c] = s2]
               /\ s2.opened = s.opened /\ s2.is_call_transaction_in_progress = FALSE /\ s2.policy = s.policy
               /\ s2.uuid = s.uuid /\ s2.memory = NoMemory /\ s2.request_length = 0
      BY <1>8, <2>1, <2>4, <3>1, Zenon
    <3>3. ~UsesMemory(s2)
      BY <1>9, <3>2, Zenon DEF UsesMemory
    <3>4. Sound(w', k, s2, c)
      BY <1>4, <2>1, <2>2, <2>4, <3>2, <3>3, Zenon DEF Sound
    <3>5. Agreement => Agreed(w', k, s2, served'[c], c)
      BY <1>6, <1>7, <3>2, <3>3, Zenon DEF Agreed
    <3> QED
      BY <1>1, <2>1, <2>2, <2>3, <3>2, <3>4, <3>5, Zenon DEF Effect
  <2>5. CASE o.status # "RPC_SUCCESS"
    <3>1. w' = o.w /\ session' = [session EXCEPT ![c] = s]
      BY <1>1, <2>1, <2>5, Zenon
    <3>2. OnlyEntry(w', c, h)
      BY <1>4, <2>2, <2>5, <3>1, Zenon DEF OnlyEntry
    <3>3. Sound(w', k, s, c)
      BY <1>1, <1>3, <3>2, Zenon DEF Sound
    <3>4. ASSUME "reclaim" \notin Faults, Agreement PROVE Agreed(w', k, s, served'[c], c)
      <4>1. Agreed(w, k, s, served[c], c)
        BY <1>7, <3>4, Zenon
      <4>2. w' = w
        BY <1>3, <2>2, <2>5, <3>1, <3>4, <4>1, Zenon DEF Agreed
      <4> QED
        BY <1>6, <4>1, <4>2, Zenon DEF Agreed
    <3> QED
      BY <1>1, <2>2, <2>3, <3>1, <3>3, <3>4, Zenon DEF Effect
  <2> QED
    BY <2>4, <2>5, Zenon
<1>10. CASE s.policy # "alloc_for_each_call"
  <2>1. session' = [session EXCEPT ![c] = Call(s, s.memory, FALSE, 0)] /\ w' = w
    BY <1>2, <1>10, Zenon
  <2>2. PICK s2 \in Sessions :
               /\ session' = [session EXCEPT ![c] = s2]
               /\ s2.opened = s.opened /\ s2.is_call_transaction_in_progress = FALSE /\ s2.policy = s.policy
               /\ s2.uuid = s.uuid /\ s2.memory = s.memory /\ s2.request_length = 0
    BY <1>5, <1>8, <2>1, Zenon
  <2>3. UsesMemory(s2)
    BY <1>1, <1>3, <1>10, <2>2, Zenon DEF UsesMemory, Sessions
  <2>4. Sound(w', k, s2, c)
    BY <1>3, <1>4, <2>1, <2>2, <2>3, Zenon DEF Sound
  <2>5. 0 <= s.memory.size
    BY <1>5
  <2>6. Agreement => Agreed(w', k, s2, served'[c], c)
    BY <1>3, <1>6, <1>7, <2>1, <2>2, <2>3, <2>5, Zenon DEF Agreed
  <2>7. caller' = [caller EXCEPT ![c] = k]
    BY <1>1, <1>2, Zenon
  <2> QED
    BY <1>1, <2>1, <2>2, <2>4, <2>6, <2>7, Zenon DEF Effect
<1> QED
  BY <1>9, <1>10, Zenon

\* ts_rpc_caller_sp_deinit of an open session: a new context, with an empty table and no session.
LEMMA DeinitEffect ==
    ASSUME Inv, NEW c \in Clients, ts_rpc_caller_sp_deinit(c)
    PROVE  Effect(c, ClosedCaller, NewSession)
<1> DEFINE none == [i \in 1 .. MAX_SHM_NUM |-> FFA_MEM_HANDLE_INVALID]
<1>1. /\ caller' = [caller EXCEPT ![c] = ClosedCaller] /\ session' = [session EXCEPT ![c] = NewSession]
      /\ served' = [served EXCEPT ![c] = NotCalled] /\ w' = [w EXCEPT !.memories[c] = none]
  BY Zenon DEF ts_rpc_caller_sp_deinit
<1>2. w \in Memories /\ Mapped(w)
  BY InvFor, Zenon
<1>3. w' = [memories |-> [w.memories EXCEPT ![c] = none], slots |-> w.slots, shares |-> w.shares,
            buffers |-> w.buffers]
  BY <1>1, <1>2, Zenon DEF Memories
<1>4. none \in [Indices -> Handles \cup {FFA_MEM_HANDLE_INVALID}]
  BY Zenon DEF Indices
<1>5. /\ w.memories \in [Clients -> [Indices -> Handles \cup {FFA_MEM_HANDLE_INVALID}]]
      /\ w.slots \in [Hosts -> [Slots -> UsedSlot \cup {FreeSlot}]]
      /\ w.shares \in [Handles -> Shares] /\ w.buffers \in SUBSET Handles
  BY <1>2, FieldTypes, Zenon
<1>6. PICK t : t = [w.memories EXCEPT ![c] = none]
  BY Zenon
<1>7. /\ t \in [Clients -> [Indices -> Handles \cup {FFA_MEM_HANDLE_INVALID}]]
      /\ \A i \in Indices : t[c][i] = FFA_MEM_HANDLE_INVALID
      /\ \A d \in Clients \ {c} : t[d] = w.memories[d]
  BY <1>4, <1>5, <1>6, Zenon DEF Indices
<1>8. w' = [memories |-> t, slots |-> w.slots, shares |-> w.shares, buffers |-> w.buffers]
  BY <1>3, <1>6, Zenon
<1>9. w' \in Memories
  BY ONLY <1>5, <1>7, <1>8, FieldsMake, Zenon
<1>10. w'.memories = t /\ w'.slots = w.slots /\ w'.shares = w.shares /\ w'.buffers = w.buffers
  BY ONLY <1>8, Zenon
<1>11. Mapped(w')
  BY ONLY <1>2, <1>10, SlotsEqual, Zenon
<1>12. StepFor(c, w, w')
  BY <1>7, <1>9, <1>10, <1>11, Zenon DEF StepFor
<1>13. /\ ClosedCaller \in Callers /\ NewSession \in Sessions /\ ClosedCaller.has_opened_session = FALSE
       /\ NewSession.opened = FALSE /\ NewSession.is_call_transaction_in_progress = FALSE
  BY Zenon DEF ClosedCaller, Callers, NewSession, NoMemory, Sessions
<1>14. Sound(w', ClosedCaller, NewSession, c)
  BY <1>7, <1>10, <1>13, Zenon DEF Sound, UsesMemory, EmptyTable
<1>15. Agreed(w', ClosedCaller, NewSession, served'[c], c)
  <2>1. served'[c] = NotCalled
    BY <1>1, Zenon DEF Inv, TypeOK
  <2> QED
    BY <1>13, <2>1, Zenon DEF Agreed, UsesMemory
<1> QED
  BY <1>1, <1>12, <1>13, <1>14, <1>15, Zenon DEF Effect

\* The reports of rpc_caller_session_invoke.
ServedTypes == [status : Statuses \cup {"lost", NULL}, service : UUIDs \cup {NULL}]

\* The invariant holds at the start.
LEMMA InitInv ==
    ASSUME Init
    PROVE  Inv /\ Agreement
<1>1. /\ w.memories = [c \in Clients |-> [i \in Indices |-> FFA_MEM_HANDLE_INVALID]]
      /\ w.slots = [e \in Hosts |-> [i \in Slots |-> FreeSlot]]
      /\ w = [memories |-> w.memories, slots |-> w.slots, shares |-> [h \in Handles |-> NoShare], buffers |-> {}]
  BY Zenon DEF Init, Indices, Slots
<1>2. w \in Memories
  <2>1. NoShare \in Shares
    BY Zenon DEF NoShare, Shares
  <2>2. w.memories \in [Clients -> [Indices -> Handles \cup {FFA_MEM_HANDLE_INVALID}]]
    BY <1>1
  <2>3. w.slots \in [Hosts -> [Slots -> UsedSlot \cup {FreeSlot}]]
    BY <1>1
  <2>4. [h \in Handles |-> NoShare] \in [Handles -> Shares]
    BY <2>1, Zenon
  <2> QED
    BY ONLY <1>1, <2>2, <2>3, <2>4, FieldsMake
<1>3. Mapped(w)
  <2>1. FreeSlot.used = FALSE
    BY Zenon DEF FreeSlot
  <2>2. \A e \in Hosts, i \in Slots : w.slots[e][i] = FreeSlot
    BY <1>1
  <2> QED
    BY <2>1, <2>2, Zenon DEF Mapped, Slots
<1>4. /\ ClosedCaller \in Callers /\ NewSession \in Sessions /\ ClosedCaller.has_opened_session = FALSE
      /\ NewSession.opened = FALSE /\ NewSession.is_call_transaction_in_progress = FALSE /\ NotCalled \in ServedTypes
  BY Zenon DEF ClosedCaller, Callers, NewSession, NoMemory, Sessions, NotCalled, ServedTypes
<1>5. TypeOK
  BY <1>2, <1>4, Zenon DEF Init, TypeOK, ServedTypes
<1>6. ASSUME NEW c \in Clients
      PROVE  Sound(w, caller[c], session[c], c) /\ Agreed(w, caller[c], session[c], served[c], c)
  <2>1. caller[c] = ClosedCaller /\ session[c] = NewSession /\ served[c] = NotCalled
    BY Zenon DEF Init
  <2>2. EmptyTable(w, c)
    BY <1>1 DEF EmptyTable
  <2>3. ~UsesMemory(NewSession)
    BY <1>4, Zenon DEF UsesMemory
  <2> QED
    BY <1>4, <2>1, <2>2, <2>3, Zenon DEF Sound, Agreed
<1> QED
  BY <1>3, <1>5, <1>6, Zenon DEF Inv, Agreement, EndpointMemoryValid

\* Every call of the session interface keeps the invariant.
LEMMA NextInv ==
    ASSUME Inv, [Next]_vars
    PROVE  Inv' /\ ("reclaim" \notin Faults /\ Agreement => Agreement')
<1>1. served \in [Clients -> ServedTypes] /\ NotCalled \in ServedTypes
  BY Zenon DEF Inv, TypeOK, ServedTypes, NotCalled
<1>2. ASSUME NEW c \in Clients, \E k, s : Effect(c, k, s), UNCHANGED served \/ served' = [served EXCEPT ![c] = NotCalled]
      PROVE  Inv' /\ ("reclaim" \notin Faults /\ Agreement => Agreement')
  <2>1. PICK k, s : Effect(c, k, s)
    BY <1>2, Zenon
  <2>2. served' \in [Clients -> ServedTypes] /\ \A d \in Clients \ {c} : served'[d] = served[d]
    BY <1>1, <1>2, Zenon
  <2> QED
    BY <2>1, <2>2, EffectKeeps, Zenon DEF ServedTypes
<1>3. ASSUME NEW c \in Clients, NEW uuid \in UUIDs, NEW size \in Lengths, NEW e \in Hosts,
             rpc_caller_session_open(c, e, uuid, size)
      PROVE  Inv' /\ ("reclaim" \notin Faults /\ Agreement => Agreement')
  BY <1>2, <1>3, OpenEffect, Zenon DEF rpc_caller_session_open
<1>4. ASSUME NEW c \in Clients, NEW uuid \in UUIDs, NEW size \in Lengths,
             rpc_caller_session_find_and_open(c, uuid, size)
      PROVE  Inv' /\ ("reclaim" \notin Faults /\ Agreement => Agreement')
  BY <1>2, <1>4, FindAndOpenEffect, Zenon DEF rpc_caller_session_find_and_open
<1>5. ASSUME NEW c \in Clients, rpc_caller_session_close(c)
      PROVE  Inv' /\ ("reclaim" \notin Faults /\ Agreement => Agreement')
  BY <1>2, <1>5, CloseEffect, Zenon DEF rpc_caller_session_close
<1>6. ASSUME NEW c \in Clients, NEW length \in Lengths, NEW response_max_length \in Lengths,
             rpc_caller_session_begin(c, length, response_max_length)
      PROVE  Inv' /\ ("reclaim" \notin Faults /\ Agreement => Agreement')
  BY <1>2, <1>6, BeginEffect, Zenon DEF rpc_caller_session_begin
<1>7. ASSUME NEW c \in Clients, rpc_caller_session_invoke(c)
      PROVE  Inv' /\ ("reclaim" \notin Faults /\ Agreement => Agreement')
  <2>1. Effect(c, caller[c], session[c])
    BY <1>7, InvokeEffect, Zenon
  <2>2. PICK r \in ServedTypes : served' = [served EXCEPT ![c] = r]
    BY <1>7, InvokeEffect, Zenon DEF ServedTypes
  <2>3. served' \in [Clients -> ServedTypes] /\ \A d \in Clients \ {c} : served'[d] = served[d]
    BY <1>1, <2>2, Zenon
  <2> QED
    BY <2>1, <2>3, EffectKeeps, Zenon DEF ServedTypes
<1>8. ASSUME NEW c \in Clients, rpc_caller_session_end(c)
      PROVE  Inv' /\ ("reclaim" \notin Faults /\ Agreement => Agreement')
  BY <1>2, <1>8, EndEffect, Zenon DEF rpc_caller_session_end
<1>9. ASSUME NEW c \in Clients, ts_rpc_caller_sp_deinit(c)
      PROVE  Inv' /\ ("reclaim" \notin Faults /\ Agreement => Agreement')
  BY <1>2, <1>9, DeinitEffect, Zenon DEF ts_rpc_caller_sp_deinit
<1>10. CASE UNCHANGED vars
  BY <1>10, Zenon DEF vars, Inv, Agreement, TypeOK, EndpointMemoryValid, Sound, Agreed
<1> QED
  BY <1>3, <1>4, <1>5, <1>6, <1>7, <1>8, <1>9, <1>10, Zenon DEF Next

(***************************************************************************)
(* Whatever fails, an endpoint only ever reads and writes memory that its  *)
(* owner has allocated and still shares with it, for any clients,          *)
(* endpoints, services and sizes of the tables.                            *)
(***************************************************************************)
THEOREM MemoryStaysValid == Spec => []EndpointMemoryValid
<1>1. Init => Inv
  BY InitInv, Zenon
<1>2. Inv /\ [Next]_vars => Inv'
  BY NextInv, Zenon
<1>3. Inv => EndpointMemoryValid
  BY Zenon DEF Inv
<1> QED
  BY <1>1, <1>2, <1>3, PTL DEF Spec

\* What `Sound' says of the tables.
LEMMA SoundOwns ==
    ASSUME Inv
    PROVE  SessionOwnsMemory
<1> SUFFICES ASSUME NEW c \in Clients, NEW i \in Indices, w.memories[c][i] # FFA_MEM_HANDLE_INVALID
             PROVE  /\ session[c].opened /\ session[c].memory.id = w.memories[c][i]
                    /\ session[c].policy = "alloc_for_session" \/ session[c].is_call_transaction_in_progress
  BY Zenon DEF SessionOwnsMemory, Indices
<1>1. Sound(w, caller[c], session[c], c)
  BY Zenon DEF Inv
<1>2. UsesMemory(session[c])
  BY <1>1, Zenon DEF Sound, EmptyTable
<1>3. OnlyEntry(w, c, session[c].memory.id)
  BY <1>1, <1>2, Zenon DEF Sound
<1>4. session[c].memory.id = w.memories[c][i]
  BY <1>3, Zenon DEF OnlyEntry
<1> QED
  BY <1>2, <1>4, Zenon DEF UsesMemory

(***************************************************************************)
(* A caller never shares memory beyond that of its session, or of the call *)
(* in progress, whatever fails.                                            *)
(***************************************************************************)
THEOREM SessionsOwnTheirMemory == Spec => []SessionOwnsMemory
<1>1. Init => Inv
  BY InitInv, Zenon
<1>2. Inv /\ [Next]_vars => Inv'
  BY NextInv, Zenon
<1>3. Inv => SessionOwnsMemory
  BY SoundOwns, Zenon
<1> QED
  BY <1>1, <1>2, <1>3, PTL DEF Spec

(***************************************************************************)
(* Where the SPMC takes back what nobody holds, a call that was begun is   *)
(* served by the service that the client asked for.                        *)
(***************************************************************************)
THEOREM CallsReachTheirService == "reclaim" \notin Faults => (Spec => []BegunCallsAreServed)
<1> SUFFICES ASSUME "reclaim" \notin Faults PROVE Spec => []BegunCallsAreServed
  BY Zenon
<1>1. Init => Inv /\ Agreement
  BY InitInv, Zenon
<1>2. Inv /\ Agreement /\ [Next]_vars => (Inv /\ Agreement)'
  BY NextInv, Zenon
<1>3. Agreement => BegunCallsAreServed
  BY Zenon DEF Agreement, Agreed, BegunCallsAreServed
<1> QED
  BY <1>1, <1>2, <1>3, PTL DEF Spec

\* Beginning, making and ending a call keep the session open.
LEMMA CallsKeepOpen ==
    ASSUME Inv, NEW c \in Clients,
           \/ \E length, response_max_length \in Lengths : rpc_caller_session_begin(c, length, response_max_length)
           \/ rpc_caller_session_invoke(c)
           \/ rpc_caller_session_end(c)
    PROVE  session'[c].opened = session[c].opened
<1>1. session \in [Clients -> Sessions]
  BY Zenon DEF Inv, TypeOK
<1>2. \A m, active, length : Call(session[c], m, active, length).opened = session[c].opened
  BY Zenon DEF Call
<1>3. session' = session \/ \E m, active, length : session' = [session EXCEPT ![c] = Call(session[c], m, active, length)]
  <2>1. ASSUME NEW length \in Lengths, NEW response_max_length \in Lengths,
               rpc_caller_session_begin(c, length, response_max_length)
        PROVE  session' = session \/ \E m, l : session' = [session EXCEPT ![c] = Call(session[c], m, TRUE, l)]
    <3>1. session' = session \/ \E m : Begun(c, m, length)
      BY ONLY <2>1, Zenon DEF rpc_caller_session_begin
    <3> QED
      BY ONLY <3>1, Zenon DEF Begun
  <2>2. ASSUME rpc_caller_session_invoke(c) PROVE session' = session
    BY ONLY <2>2, Zenon DEF rpc_caller_session_invoke
  <2>3. ASSUME rpc_caller_session_end(c)
        PROVE  session' = session \/ \E m : session' = [session EXCEPT ![c] = Call(session[c], m, FALSE, 0)]
    BY ONLY <2>3, Zenon DEF rpc_caller_session_end
  <2> QED
    BY <2>1, <2>2, <2>3, Zenon
<1>4. CASE session' = session
  BY <1>4, Zenon
<1>5. ASSUME NEW m, NEW active, NEW length, session' = [session EXCEPT ![c] = Call(session[c], m, active, length)]
      PROVE  session'[c].opened = session[c].opened
  <2>1. session'[c] = Call(session[c], m, active, length)
    BY ONLY <1>1, <1>5, c \in Clients, Zenon
  <2> QED
    BY <1>2, <2>1, Zenon
<1> QED
  BY <1>3, <1>4, <1>5, Zenon

(***************************************************************************)
(* Closing a session leaves nothing of what the caller's table held:       *)
(* neither shared, nor mapped, nor allocated, whatever failed before.      *)
(***************************************************************************)
THEOREM CloseLeavesNothing == Spec => CloseReturnsMemory
<1> DEFINE Returned(c) == \A i \in 1 .. MAX_SHM_NUM :
                            w.memories[c][i] # FFA_MEM_HANDLE_INVALID =>
                              w'.shares[w.memories[c][i]] = NoShare /\ w.memories[c][i] \notin w'.buffers
           Closes(c) == session[c].opened /\ session' = [session EXCEPT ![c].opened = FALSE]
<1>1. Init => Inv
  BY InitInv, Zenon
<1>2. Inv /\ [Next]_vars => Inv'
  BY NextInv, Zenon
<1>3. ASSUME Inv, Next, NEW c \in Clients, Closes(c) PROVE Returned(c)
  <2>1. session \in [Clients -> Sessions]
    BY <1>3, Zenon DEF Inv, TypeOK
  <2>2. session'[c] = [session[c] EXCEPT !.opened = FALSE]
    BY <1>3, <2>1, Zenon
  <2>3. session'[c].opened = FALSE /\ session'[c].policy = session[c].policy
        /\ session'[c].is_call_transaction_in_progress = session[c].is_call_transaction_in_progress
    <3>1. session[c] \in Sessions
      BY <2>1, Zenon
    <3> QED
      BY ONLY <2>2, <3>1, Zenon DEF Sessions
  <2>4. ASSUME NEW d \in Clients, NEW k, NEW s, Effect(d, k, s) PROVE d = c
    <3>1. d # c => session'[c] = session[c]
      BY ONLY <2>1, <2>4, c \in Clients, Zenon DEF Effect
    <3> QED
      BY <1>3, <2>3, <3>1, Zenon
  <2>5. ASSUME NEW d \in Clients, NEW uuid \in UUIDs, NEW size \in Lengths, NEW e \in Hosts,
               rpc_caller_session_open(d, e, uuid, size)
        PROVE  FALSE
    <3>1. d = c
      BY <1>3, <2>4, <2>5, OpenEffect, Zenon
    <3> QED
      BY <1>3, <2>5, <3>1, Zenon DEF rpc_caller_session_open
  <2>6. ASSUME NEW d \in Clients, NEW uuid \in UUIDs, NEW size \in Lengths,
               rpc_caller_session_find_and_open(d, uuid, size)
        PROVE  FALSE
    <3>1. d = c
      BY <1>3, <2>4, <2>6, FindAndOpenEffect, Zenon
    <3> QED
      BY <1>3, <2>6, <3>1, Zenon DEF rpc_caller_session_find_and_open
  <2>7. ASSUME NEW d \in Clients, rpc_caller_session_close(d) PROVE Returned(c)
    <3>1. d = c
      BY <1>3, <2>4, <2>7, CloseEffect, Zenon
    <3>2. ~session'[d].opened
      BY <2>3, <3>1, Zenon
    <3> QED
      BY <1>3, <2>7, <3>1, <3>2, CloseEffect, Zenon DEF Indices
  <2>8. ASSUME NEW d \in Clients,
               \/ \E length, response_max_length \in Lengths :
                    rpc_caller_session_begin(d, length, response_max_length)
               \/ rpc_caller_session_invoke(d)
               \/ rpc_caller_session_end(d)
        PROVE  FALSE
    <3>1. d = c
      BY <1>3, <2>4, <2>8, BeginEffect, InvokeEffect, EndEffect, Zenon
    <3>2. session'[c].opened = session[c].opened
      BY <1>3, <2>8, <3>1, CallsKeepOpen, Zenon
    <3> QED
      BY <1>3, <2>3, <3>2, Zenon
  <2>9. ASSUME NEW d \in Clients, ts_rpc_caller_sp_deinit(d) PROVE Returned(c)
    <3>1. d = c
      BY <1>3, <2>4, <2>9, DeinitEffect, Zenon
    <3>2. session' = [session EXCEPT ![c] = NewSession]
      BY <2>9, <3>1, Zenon DEF ts_rpc_caller_sp_deinit
    <3>3. session'[c] = NewSession
      BY <2>1, <3>2, Zenon
    <3>4. NewSession.policy # "alloc_for_session" /\ NewSession.is_call_transaction_in_progress = FALSE
      BY Zenon DEF NewSession
    <3>5. ~UsesMemory(session[c])
      BY <2>3, <3>3, <3>4, Zenon DEF UsesMemory
    <3>6. EmptyTable(w, c)
      BY <1>3, <3>5, Zenon DEF Inv, Sound
    <3> QED
      BY <3>6, Zenon DEF EmptyTable, Indices
  <2> QED
    BY <1>3, <2>5, <2>6, <2>7, <2>8, <2>9, Zenon DEF Next
<1>4. ASSUME Inv, UNCHANGED vars, NEW c \in Clients, Closes(c) PROVE FALSE
  <2>1. session \in [Clients -> Sessions]
    BY <1>4, Zenon DEF Inv, TypeOK
  <2>2. session'[c] = session[c]
    BY <1>4, Zenon DEF vars
  <2>3. session'[c] = [session[c] EXCEPT !.opened = FALSE]
    BY <1>4, <2>1, Zenon
  <2>4. session'[c].opened = FALSE
    <3>1. session[c] \in Sessions
      BY <2>1, Zenon
    <3> QED
      BY ONLY <2>3, <3>1, Zenon DEF Sessions
  <2> QED
    BY <1>4, <2>2, <2>4, Zenon
<1>5. Inv /\ [Next]_vars => [\A c \in Clients : Closes(c) => Returned(c)]_vars
  BY <1>3, Zenon
<1>6. CloseReturnsMemory <=> [][\A c \in Clients : Closes(c) => Returned(c)]_vars
  BY Zenon DEF CloseReturnsMemory
<1> HIDE DEF Closes, Returned
<1> QED
  BY <1>1, <1>2, <1>5, <1>6, PTL DEF Spec

=============================================================================
