------------------------- MODULE LuaProviderProofs -------------------------
(***************************************************************************)
(* Proofs about LuaProvider, for any number of environments, clients and   *)
(* references, for scripts of any length, whatever the clients send and    *)
(* whether or not answers are lost.                                        *)
(***************************************************************************)
EXTENDS LuaProvider, TLAPS

\* Every answer the client library returns has a status of the list.
LEMMA AnswerTypes ==
    ASSUME NEW s \in Statuses, Answer(s) \/ AnswerWithMessage(s)
    PROVE  /\ status' \in Statuses
           /\ got' \in [status : Statuses, message : BOOLEAN]
<1>1. status' = s
  BY DEF Answer, AnswerWithMessage
<1>2. \/ got' = [status |-> s, message |-> FALSE]
      \/ got' = [status |-> s, message |-> TRUE]
      \/ got' = [status |-> "PSA_ERROR_BUFFER_TOO_SMALL", message |-> FALSE]
      \/ got' = [status |-> "LUA_ERROR_GENERIC_ERROR", message |-> FALSE]
  BY DEF Answer, AnswerWithMessage, LostAnswer
<1>3. "PSA_ERROR_BUFFER_TOO_SMALL" \in Statuses /\ "LUA_ERROR_GENERIC_ERROR" \in Statuses
  BY DEF Statuses
<1>4. TRUE \in BOOLEAN /\ FALSE \in BOOLEAN
  OBVIOUS
<1>5. ASSUME NEW t \in Statuses, NEW m \in BOOLEAN
      PROVE  [status |-> t, message |-> m] \in [status : Statuses, message : BOOLEAN]
  OBVIOUS
<1>6. got' \in [status : Statuses, message : BOOLEAN]
  BY Zenon, <1>2, <1>3, <1>4, <1>5
<1> QED BY <1>1, <1>6

\* Emptying the buffer of an entry.
LEMMA ClearedTypes ==
    ASSUME NEW i, script_buf \in [Slots -> Script]
    PROVE  Cleared(i) \in [Slots -> Script]
<1>1. << >> \in Script
  BY DEF Script
<1> QED BY Zenon, <1>1 DEF Cleared

\* Appending a chunk to the buffer of an entry.
LEMMA AppendedTypes ==
    ASSUME NEW i, NEW c \in Clients, NEW kind \in Kinds, script_buf \in [Slots -> Script]
    PROVE  [script_buf EXCEPT ![i] = Append(@, [by |-> c, kind |-> kind])] \in [Slots -> Script]
<1>1. ASSUME NEW script \in Script PROVE Append(script, [by |-> c, kind |-> kind]) \in Script
  BY <1>1 DEF Script
<1> QED BY Zenon, <1>1

\* The chunks of a script come from clients.
LEMMA Senders ==
    ASSUME NEW script \in Script, NEW k \in DOMAIN script
    PROVE  script[k].by \in Clients
<1>1. ASSUME NEW S, NEW s \in Seq(S), NEW n \in DOMAIN s PROVE s[n] \in S
  OBVIOUS
<1>2. script[k] \in [by : Clients, kind : Kinds]
  BY Zenon, <1>1 DEF Script
<1> QED BY <1>2

\* lua_provider_init builds a state of the right types.
LEMMA InitialTypes == Init => TypeOK
<1> SUFFICES ASSUME Init PROVE TypeOK OBVIOUS
<1>1. /\ lua_env_ref \in [Slots -> Refs \cup {LUA_REFNIL}]
      /\ refs \subseteq Refs
      /\ table \in [Refs -> SUBSET Clients]
      /\ held \in [Clients -> SUBSET Slots]
  BY DEF Init
<1>2. script_buf \in [Slots -> Script]
  BY DEF Init, Script
<1>3. /\ next \in [Slots -> Slots \cup {NIL}]
      /\ free_env_entry_ind \in Slots \cup {NIL}
  BY ProviderAssumption DEF Init, FreeLinks, Slots
<1>4. order \in Seq(Slots)
  <2>1. \A n \in 1 .. MAX_ENV_COUNT : n - 1 \in Slots
    BY ProviderAssumption DEF Slots
  <2> QED BY <2>1, ProviderAssumption DEF Init
<1>5. status \in Statuses /\ got \in [status : Statuses, message : BOOLEAN]
  BY DEF Init, Statuses
<1> QED BY <1>1, <1>2, <1>3, <1>4, <1>5 DEF TypeOK

\* Each step keeps the types.
LEMMA NextTypes == TypeOK /\ FreeListExact /\ [Next]_vars => TypeOK'
<1> SUFFICES ASSUME TypeOK, FreeListExact, [Next]_vars PROVE TypeOK' OBVIOUS
<1>1. CASE env_create_full
  <2>1. status' \in Statuses /\ got' \in [status : Statuses, message : BOOLEAN]
    BY <1>1, AnswerTypes DEF env_create_full, Statuses
  <2> QED BY <1>1, <2>1 DEF env_create_full, TypeOK, entries
<1>2. ASSUME NEW c \in Clients, env_create(c) PROVE TypeOK'
  <2>1. status' \in Statuses /\ got' \in [status : Statuses, message : BOOLEAN]
    BY <1>2, AnswerTypes DEF env_create, Statuses
  <2>2. free_env_entry_ind \in Slots /\ Len(order) # 0
    BY <1>2 DEF env_create, TypeOK, FreeListExact
  <2>3. /\ next' \in [Slots -> Slots \cup {NIL}]
        /\ free_env_entry_ind' \in Slots \cup {NIL}
        /\ order' \in Seq(Slots)
    BY <1>2, <2>2 DEF env_create, TypeOK
  <2>4. /\ lua_env_ref' \in [Slots -> Refs \cup {LUA_REFNIL}]
        /\ refs' \subseteq Refs
        /\ table' \in [Refs -> SUBSET Clients]
    BY <1>2, <2>2 DEF env_create, TypeOK
  <2>5. script_buf' \in [Slots -> Script]
    BY <1>2, ClearedTypes DEF env_create, TypeOK
  <2>6. held' \in [Clients -> SUBSET Slots]
    BY <1>2, <2>2 DEF env_create, TypeOK
  <2> QED BY <2>1, <2>3, <2>4, <2>5, <2>6 DEF TypeOK
<1>3. ASSUME NEW i, no_such_environment(i) PROVE TypeOK'
  <2>1. status' \in Statuses /\ got' \in [status : Statuses, message : BOOLEAN]
    BY <1>3, AnswerTypes DEF no_such_environment, Statuses
  <2> QED BY <1>3, <2>1 DEF no_such_environment, TypeOK, entries
<1>4. ASSUME NEW c \in Clients, NEW i, NEW kind \in Kinds, env_append(c, i, kind) PROVE TypeOK'
  <2>1. status' \in Statuses /\ got' \in [status : Statuses, message : BOOLEAN]
    BY <1>4, AnswerTypes DEF env_append, Statuses
  <2>2. script_buf' \in [Slots -> Script]
    <3>1. script_buf \in [Slots -> Script]
      BY DEF TypeOK
    <3>2. [script_buf EXCEPT ![i] = Append(@, [by |-> c, kind |-> kind])] \in [Slots -> Script]
      BY <3>1, AppendedTypes
    <3> QED BY Zenon, <1>4, <3>1, <3>2 DEF env_append
  <2> QED BY <1>4, <2>1, <2>2 DEF env_append, TypeOK
<1>5. ASSUME NEW i, env_execute_parser_error(i) PROVE TypeOK'
  <2>1. status' \in Statuses /\ got' \in [status : Statuses, message : BOOLEAN]
    BY <1>5, AnswerTypes DEF env_execute_parser_error, Statuses
  <2> QED BY <1>5, <2>1 DEF env_execute_parser_error, TypeOK, entries
<1>6. ASSUME NEW i, env_execute(i) PROVE TypeOK'
  <2>1. status' \in Statuses /\ got' \in [status : Statuses, message : BOOLEAN]
    <3>1. Answer("LUA_SUCCESS") \/ AnswerWithMessage("LUA_ERROR_INTERPRETER_ERROR")
      BY <1>6 DEF env_execute
    <3> QED BY <3>1, AnswerTypes DEF Statuses
  <2>2. i \in Slots /\ lua_env_ref[i] \in Refs
    BY <1>6 DEF env_execute, Exists, TypeOK
  <2>3. script_buf' \in [Slots -> Script]
    BY <1>6, ClearedTypes DEF env_execute, TypeOK
  <2>4. table' \in [Refs -> SUBSET Clients]
    <3>1. script_buf[i] \in Script
      BY <2>2 DEF TypeOK
    <3>2. \A k \in DOMAIN script_buf[i] : script_buf[i][k].by \in Clients
      BY <3>1, Senders
    <3>3. After(table[lua_env_ref[i]], script_buf[i]) \subseteq Clients
      BY <3>2, <2>2 DEF After, TypeOK
    <3> QED BY <1>6, <2>2, <3>3 DEF env_execute, TypeOK
  <2> QED BY <1>6, <2>1, <2>3, <2>4 DEF env_execute, TypeOK
<1>7. ASSUME NEW c \in Clients, NEW i, env_delete(c, i) PROVE TypeOK'
  <2>1. status' \in Statuses /\ got' \in [status : Statuses, message : BOOLEAN]
    BY <1>7, AnswerTypes DEF env_delete, Statuses
  <2>2. i \in Slots
    BY <1>7 DEF env_delete, Exists
  <2>3. /\ next' \in [Slots -> Slots \cup {NIL}]
        /\ free_env_entry_ind' \in Slots \cup {NIL}
        /\ order' \in Seq(Slots)
    BY <1>7, <2>2 DEF env_delete, TypeOK, NextAfterDelete
  <2>4. /\ lua_env_ref' \in [Slots -> Refs \cup {LUA_REFNIL}]
        /\ refs' \subseteq Refs
        /\ table' \in [Refs -> SUBSET Clients]
    BY Zenon, <1>7, <2>2 DEF env_delete, TypeOK, Unref
  <2>5. script_buf' \in [Slots -> Script]
    BY <1>7, ClearedTypes DEF env_delete, TypeOK
  <2>6. held' \in [Clients -> SUBSET Slots]
    BY <1>7, <2>2 DEF env_delete, TypeOK
  <2> QED BY <2>1, <2>3, <2>4, <2>5, <2>6 DEF TypeOK
<1>8. CASE UNCHANGED vars
  BY <1>8 DEF vars, entries, TypeOK
<1> QED BY <1>1, <1>2, <1>3, <1>4, <1>5, <1>6, <1>7, <1>8 DEF Next, Request

-----------------------------------------------------------------------------
\* lua_provider_init links all entries into the free list and uses no reference.
LEMMA InitialPool == Init => FreeListExact /\ RegistryExact
<1> SUFFICES ASSUME Init PROVE FreeListExact /\ RegistryExact OBVIOUS
<1>1. order = [n \in 1 .. MAX_ENV_COUNT |-> n - 1] /\ Len(order) = MAX_ENV_COUNT
  BY ProviderAssumption DEF Init
<1>2. FreeListExact
  <2>1. \A i \in Slots : \E n \in 1 .. Len(order) : order[n] = i
    <3>1. TAKE i \in Slots
    <3>2. i + 1 \in 1 .. Len(order) /\ order[i + 1] = i
      BY <1>1, ProviderAssumption DEF Slots
    <3> QED BY <3>2
  <2>2. \A n \in 1 .. Len(order) : next[order[n]] = IF n = Len(order) THEN NIL ELSE order[n + 1]
    BY <1>1, ProviderAssumption DEF Init, FreeLinks, Slots
  <2>3. \A i \in Slots : lua_env_ref[i] = LUA_REFNIL
    BY DEF Init
  <2>4. \A m, n \in 1 .. Len(order) : order[m] = order[n] => m = n
    BY <1>1, ProviderAssumption
  <2>5. free_env_entry_ind = IF Len(order) = 0 THEN NIL ELSE order[1]
    BY <1>1, ProviderAssumption DEF Init
  <2> QED BY <2>1, <2>2, <2>3, <2>4, <2>5 DEF FreeListExact
<1>3. RegistryExact
  BY DEF Init, RegistryExact, Alive
<1> QED BY <1>2, <1>3

\* Taking the first entry of the free list.
LEMMA CreatePool ==
    ASSUME TypeOK, FreeListExact, RegistryExact, NEW c \in Clients, env_create(c)
    PROVE  FreeListExact' /\ RegistryExact'
<1> DEFINE i == free_env_entry_ind
<1>1. i \in Slots /\ Len(order) > 0 /\ i = order[1] /\ order \in Seq(Slots)
  BY DEF env_create, TypeOK, FreeListExact
<1>2. PICK r \in Refs \ refs : /\ refs' = refs \cup {r}
                               /\ lua_env_ref' = [lua_env_ref EXCEPT ![i] = r]
  BY Zenon DEF env_create
<1>3. r # LUA_REFNIL
  BY ProviderAssumption DEF LUA_REFNIL
<1>4. lua_env_ref[i] = LUA_REFNIL
  BY <1>1 DEF FreeListExact
<1>5. Len(order') = Len(order) - 1 /\ \A n \in 1 .. Len(order') : order'[n] = order[n + 1]
  BY <1>1 DEF env_create
<1>6. FreeListExact'
  <2>1. \A k \in Slots : lua_env_ref'[k] = LUA_REFNIL <=> \E n \in 1 .. Len(order') : order'[n] = k
    <3>1. TAKE k \in Slots
    <3>2. CASE k = i
      <4>1. lua_env_ref'[k] # LUA_REFNIL
        BY <1>1, <1>2, <1>3, <3>2 DEF TypeOK
      <4>2. \A n \in 1 .. Len(order') : order'[n] # k
        BY <1>1, <1>5, <3>2 DEF FreeListExact
      <4> QED BY <4>1, <4>2
    <3>3. CASE k # i
      <4>1. lua_env_ref'[k] = lua_env_ref[k]
        BY <1>2, <3>3 DEF TypeOK
      <4>2. ASSUME NEW n \in 1 .. Len(order), order[n] = k PROVE \E m \in 1 .. Len(order') : order'[m] = k
        <5>1. n - 1 \in 1 .. Len(order') /\ order'[n - 1] = k
          BY <1>1, <1>5, <3>3, <4>2
        <5> QED BY <5>1
      <4>3. ASSUME NEW m \in 1 .. Len(order'), order'[m] = k PROVE \E n \in 1 .. Len(order) : order[n] = k
        <5>1. m + 1 \in 1 .. Len(order) /\ order[m + 1] = k
          BY <1>1, <1>5, <4>3
        <5> QED BY <5>1
      <4> QED BY <4>1, <4>2, <4>3 DEF FreeListExact
    <3> QED BY <3>2, <3>3
  <2>2. \A m, n \in 1 .. Len(order') : order'[m] = order'[n] => m = n
    <3>1. TAKE m, n \in 1 .. Len(order')
    <3>2. m + 1 \in 1 .. Len(order) /\ n + 1 \in 1 .. Len(order)
      BY <1>1, <1>5
    <3>3. order'[m] = order'[n] => m + 1 = n + 1
      BY <1>5, <3>2 DEF FreeListExact
    <3> QED BY <3>3
  <2>3. free_env_entry_ind' = IF Len(order') = 0 THEN NIL ELSE order'[1]
    <3>1. free_env_entry_ind' = next[order[1]]
      BY <1>1 DEF env_create
    <3> QED BY <1>1, <1>5, <3>1 DEF FreeListExact
  <2>4. \A n \in 1 .. Len(order') : next'[order'[n]] = IF n = Len(order') THEN NIL ELSE order'[n + 1]
    <3>1. TAKE n \in 1 .. Len(order')
    <3>2. n + 1 \in 1 .. Len(order) /\ order'[n] = order[n + 1] /\ order[n + 1] \in Slots
      BY <1>1, <1>5
    <3>3. order[n + 1] # i
      BY <1>1, <3>2 DEF FreeListExact
    <3>4. next'[order'[n]] = next[order[n + 1]]
      BY <3>2, <3>3 DEF env_create, TypeOK
    <3>5. next[order[n + 1]] = IF n + 1 = Len(order) THEN NIL ELSE order[(n + 1) + 1]
      BY <3>2 DEF FreeListExact
    <3>6. CASE n = Len(order')
      BY <1>1, <1>5, <3>4, <3>5, <3>6
    <3>7. CASE n # Len(order')
      <4>1. n + 1 # Len(order) /\ order'[n + 1] = order[(n + 1) + 1]
        BY <1>1, <1>5, <3>7
      <4> QED BY <3>4, <3>5, <3>7, <4>1
    <3> QED BY <3>6, <3>7
  <2> QED BY <2>1, <2>2, <2>3, <2>4 DEF FreeListExact
<1>7. RegistryExact'
  <2>1. Alive' = Alive \cup {i}
    BY <1>1, <1>2, <1>3 DEF Alive, TypeOK
  <2>2. \A k \in Alive : lua_env_ref'[k] = lua_env_ref[k] /\ k # i
    BY <1>2, <1>4 DEF Alive, TypeOK
  <2>3. lua_env_ref'[i] = r
    BY <1>1, <1>2 DEF TypeOK
  <2> QED BY <1>2, <2>1, <2>2, <2>3 DEF RegistryExact
<1> QED BY <1>6, <1>7

\* Putting an entry in front of the free list.
LEMMA DeletePool ==
    ASSUME TypeOK, FreeListExact, RegistryExact, NEW c \in Clients, NEW i, env_delete(c, i)
    PROVE  FreeListExact' /\ RegistryExact'
<1>1. i \in Slots /\ i \in Alive /\ lua_env_ref[i] # LUA_REFNIL /\ order \in Seq(Slots)
  BY DEF env_delete, Exists, Alive, TypeOK
<1>2. /\ Len(order') = Len(order) + 1
      /\ order'[1] = i
      /\ \A n \in 1 .. Len(order) : order'[n + 1] = order[n]
  BY <1>1 DEF env_delete
<1>3. \A n \in 1 .. Len(order) : order[n] \in Slots /\ order[n] # i
  BY <1>1 DEF FreeListExact
<1>4. /\ lua_env_ref' = [lua_env_ref EXCEPT ![i] = LUA_REFNIL]
      /\ next' = [next EXCEPT ![i] = free_env_entry_ind]
      /\ refs' = refs \ {lua_env_ref[i]}
      /\ free_env_entry_ind' = i
  BY DEF env_delete, NextAfterDelete, Unref
<1>5. FreeListExact'
  <2>1. \A k \in Slots : lua_env_ref'[k] = LUA_REFNIL <=> \E n \in 1 .. Len(order') : order'[n] = k
    <3>1. TAKE k \in Slots
    <3>2. CASE k = i
      <4>1. lua_env_ref'[k] = LUA_REFNIL
        BY <1>1, <1>4, <3>2 DEF TypeOK
      <4>2. 1 \in 1 .. Len(order') /\ order'[1] = k
        BY <1>1, <1>2, <3>2
      <4> QED BY <4>1, <4>2
    <3>3. CASE k # i
      <4>1. lua_env_ref'[k] = lua_env_ref[k]
        BY <1>4, <3>3 DEF TypeOK
      <4>2. ASSUME NEW n \in 1 .. Len(order), order[n] = k PROVE \E m \in 1 .. Len(order') : order'[m] = k
        <5>1. n + 1 \in 1 .. Len(order') /\ order'[n + 1] = k
          BY <1>1, <1>2, <4>2
        <5> QED BY <5>1
      <4>3. ASSUME NEW m \in 1 .. Len(order'), order'[m] = k PROVE \E n \in 1 .. Len(order) : order[n] = k
        <5>1. m # 1
          BY <1>2, <3>3, <4>3
        <5>2. m - 1 \in 1 .. Len(order) /\ (m - 1) + 1 = m
          BY <1>1, <1>2, <4>3, <5>1
        <5>3. order[m - 1] = k
          BY <1>2, <4>3, <5>2
        <5> QED BY <5>2, <5>3
      <4> QED BY <4>1, <4>2, <4>3 DEF FreeListExact
    <3> QED BY <3>2, <3>3
  <2>2. \A m, n \in 1 .. Len(order') : order'[m] = order'[n] => m = n
    <3>1. \A m \in 1 .. Len(order') : m = 1 \/ (m - 1 \in 1 .. Len(order) /\ order'[m] = order[m - 1])
      BY <1>1, <1>2
    <3> QED BY <1>1, <1>2, <1>3, <3>1 DEF FreeListExact
  <2>3. free_env_entry_ind' = IF Len(order') = 0 THEN NIL ELSE order'[1]
    BY <1>1, <1>2, <1>4
  <2>4. \A n \in 1 .. Len(order') : next'[order'[n]] = IF n = Len(order') THEN NIL ELSE order'[n + 1]
    <3>1. TAKE n \in 1 .. Len(order')
    <3>2. CASE n = 1
      <4>1. next'[order'[n]] = free_env_entry_ind
        BY <1>1, <1>2, <1>4, <3>2 DEF TypeOK
      <4>2. Len(order) # 0 => 1 \in 1 .. Len(order) /\ order'[1 + 1] = order[1]
        BY <1>1, <1>2
      <4> QED BY <1>1, <1>2, <3>2, <4>1, <4>2 DEF FreeListExact
    <3>3. CASE n # 1
      <4>1. PICK m \in 1 .. Len(order) : n = m + 1
        <5>1. n - 1 \in 1 .. Len(order) /\ n = (n - 1) + 1
          BY <1>1, <1>2, <3>3
        <5> QED BY <5>1
      <4>2. next'[order'[n]] = next[order[m]]
        BY <1>2, <1>3, <1>4, <4>1 DEF TypeOK
      <4>3. m # Len(order) => m + 1 \in 1 .. Len(order) /\ order'[(m + 1) + 1] = order[m + 1]
        BY <1>1, <1>2
      <4> QED BY <1>1, <1>2, <4>1, <4>2, <4>3 DEF FreeListExact
    <3> QED BY <3>2, <3>3
  <2> QED BY <2>1, <2>2, <2>3, <2>4 DEF FreeListExact
<1>6. RegistryExact'
  <2>1. Alive' = Alive \ {i}
    BY <1>1, <1>4 DEF Alive, TypeOK
  <2>2. \A k \in Alive' : lua_env_ref'[k] = lua_env_ref[k]
    BY <1>4, <2>1 DEF Alive, TypeOK
  <2> QED BY <1>1, <1>4, <2>1, <2>2 DEF RegistryExact
<1> QED BY <1>5, <1>6

\* Each step keeps the free list and the registry exact.
LEMMA NextPool == TypeOK /\ FreeListExact /\ RegistryExact /\ [Next]_vars => FreeListExact' /\ RegistryExact'
<1> SUFFICES ASSUME TypeOK, FreeListExact, RegistryExact, [Next]_vars
             PROVE  FreeListExact' /\ RegistryExact'
  OBVIOUS
<1>1. CASE UNCHANGED <<lua_env_ref, next, free_env_entry_ind, order, refs>>
  BY <1>1 DEF FreeListExact, RegistryExact, Alive
<1>2. \/ \E c \in Clients : env_create(c) \/ \E i \in Presented(c) : env_delete(c, i)
      \/ UNCHANGED <<lua_env_ref, next, free_env_entry_ind, order, refs>>
  BY Zenon DEF Next, Request, env_create_full, no_such_environment, env_append, env_execute,
         env_execute_parser_error, vars, entries
<1> QED BY <1>1, <1>2, CreatePool, DeletePool

\* The inductive invariant.
Inv == TypeOK /\ FreeListExact /\ RegistryExact

\* The invariant holds in every state the provider reaches.
THEOREM Invariance == Spec => []Inv
<1>1. Init => Inv
  BY InitialTypes, InitialPool DEF Inv
<1>2. Inv /\ [Next]_vars => Inv'
  BY NextTypes, NextPool DEF Inv
<1> QED BY <1>1, <1>2, PTL DEF Spec

(***************************************************************************)
(* The provider's state keeps its types: no link or reference is ever out  *)
(* of range, whatever index a request names.                               *)
(***************************************************************************)
THEOREM TypeCorrect == Spec => []TypeOK
<1>1. Inv => TypeOK
  BY DEF Inv
<1> QED BY <1>1, Invariance, PTL

(***************************************************************************)
(* env_create_handler and env_delete_handler keep the free list exact: it  *)
(* links all entries without an environment, each once.                    *)
(***************************************************************************)
THEOREM FreeListCorrect == Spec => []FreeListExact
<1>1. Inv => FreeListExact
  BY DEF Inv
<1> QED BY <1>1, Invariance, PTL

(***************************************************************************)
(* luaL_ref and luaL_unref are balanced: the registry holds one table for  *)
(* each environment and no other.                                          *)
(***************************************************************************)
THEOREM RegistryCorrect == Spec => []RegistryExact
<1>1. Inv => RegistryExact
  BY DEF Inv
<1> QED BY <1>1, Invariance, PTL

-----------------------------------------------------------------------------
\* What one client's index is worth: the part of ClientsIsolated about client c and index i.
Owns(c, i) ==
    /\ Exists(i)
    /\ table[lua_env_ref[i]] \subseteq {c}
    /\ \A k \in DOMAIN script_buf[i] : script_buf[i][k].by = c

\* No index belongs to two clients.
Disjoint == \A c, d \in Clients : c # d => held[c] \cap held[d] = {}

\* ClientsIsolated, client by client and index by index.
LEMMA IsolatedParts == ClientsIsolated <=> Disjoint /\ \A c \in Clients : \A i \in held[c] : Owns(c, i)
  BY DEF ClientsIsolated, Disjoint, Owns

\* An environment that a step leaves alone keeps its owner.
LEMMA Untouched ==
    ASSUME NEW c, NEW i, Owns(c, i),
           lua_env_ref'[i] = lua_env_ref[i],
           script_buf'[i] = script_buf[i],
           table'[lua_env_ref[i]] = table[lua_env_ref[i]]
    PROVE  Owns(c, i)'
  BY DEF Owns, Exists

\* Two environments have different tables.
LEMMA OtherTable ==
    ASSUME RegistryExact, NEW i, NEW j, Exists(i), Exists(j), i # j
    PROVE  lua_env_ref[i] # lua_env_ref[j]
  BY DEF RegistryExact, Exists, Alive

\* A new environment belongs to the client that is told of it, or to none.
LEMMA CreateIsolated ==
    ASSUME Inv, ClientsIsolated, NEW c \in Clients, env_create(c)
    PROVE  ClientsIsolated'
<1>0. PICK i : i = free_env_entry_ind
  OBVIOUS
<1>1. i \in Slots /\ lua_env_ref[i] = LUA_REFNIL
  BY <1>0 DEF Inv, env_create, TypeOK, FreeListExact
<1>2. \A d \in Clients : \A j \in held[d] : Owns(d, j) /\ Exists(j) /\ j # i
  BY <1>1, IsolatedParts DEF Owns, Exists
<1>3. PICK r \in Refs \ refs : /\ lua_env_ref' = [lua_env_ref EXCEPT ![i] = r]
                               /\ table' = [table EXCEPT ![r] = {}]
  BY Zenon, <1>0 DEF env_create
<1>4. r # LUA_REFNIL
  BY ProviderAssumption DEF LUA_REFNIL
<1>5. script_buf' = [script_buf EXCEPT ![i] = << >>]
  BY <1>0 DEF env_create, Cleared
<1>6. ASSUME NEW d \in Clients, NEW j \in held[d] PROVE Owns(d, j)'
  <2>1. Owns(d, j) /\ Exists(j) /\ j # i
    BY <1>2
  <2>2. lua_env_ref[j] \in refs
    BY <2>1 DEF Inv, RegistryExact, Exists, Alive
  <2>3. /\ lua_env_ref'[j] = lua_env_ref[j]
        /\ script_buf'[j] = script_buf[j]
        /\ table'[lua_env_ref[j]] = table[lua_env_ref[j]]
    BY <1>3, <1>5, <2>1, <2>2 DEF Inv, TypeOK, Exists
  <2> QED BY <2>1, <2>3, Untouched
<1>7. Owns(c, i)'
  <2>1. lua_env_ref'[i] = r /\ table'[r] = {} /\ script_buf'[i] = << >>
    BY <1>1, <1>3, <1>5 DEF Inv, TypeOK
  <2> QED BY <1>1, <1>4, <2>1 DEF Owns, Exists
<1>8. held' = held \/ held' = [held EXCEPT ![c] = @ \cup {i}]
  BY <1>0 DEF env_create
<1>9. Disjoint'
  BY <1>2, <1>8, IsolatedParts DEF Disjoint, Inv, TypeOK
<1>10. \A d \in Clients : \A j \in held'[d] : Owns(d, j)'
  <2>1. \A d \in Clients : \A j \in held'[d] : j \in held[d] \/ (d = c /\ j = i)
    BY <1>8 DEF Inv, TypeOK
  <2> QED BY <1>6, <1>7, <2>1
<1> QED BY <1>9, <1>10 DEF ClientsIsolated, Disjoint, Owns

\* A step on an environment of client c: only its own client's statements may be added.
LEMMA RequestIsolated ==
    ASSUME Inv, ClientsIsolated, NEW c \in Clients, NEW i \in held[c], Request(c, i)
    PROVE  ClientsIsolated'
<1>1. Exists(i) /\ Owns(c, i) /\ i \in Slots /\ lua_env_ref[i] \in Refs
  BY IsolatedParts DEF Owns, Exists, Inv, TypeOK
<1>2. ASSUME NEW d \in Clients, NEW j \in held[d], j # i
      PROVE  Owns(d, j)'
  <2>1. Owns(d, j) /\ Exists(j)
    BY <1>2, IsolatedParts DEF Owns
  <2>2. lua_env_ref[j] # lua_env_ref[i]
    BY <1>1, <1>2, <2>1, OtherTable DEF Inv
  <2>3. /\ lua_env_ref'[j] = lua_env_ref[j]
        /\ script_buf'[j] = script_buf[j]
        /\ table'[lua_env_ref[j]] = table[lua_env_ref[j]]
    <3>1. CASE env_delete(c, i)
      BY <1>1, <1>2, <2>1, <2>2, <3>1 DEF env_delete, Cleared, Inv, TypeOK, Exists
    <3>2. CASE env_execute(i)
      BY <1>1, <1>2, <2>1, <2>2, <3>2 DEF env_execute, Cleared, Inv, TypeOK, Exists
    <3>3. CASE \E kind \in Kinds : env_append(c, i, kind)
      BY <1>1, <1>2, <2>1, <2>2, <3>3 DEF env_append, Inv, TypeOK, Exists
    <3>4. CASE no_such_environment(i) \/ env_execute_parser_error(i)
      BY <3>4 DEF no_such_environment, env_execute_parser_error, entries
    <3> QED BY <3>1, <3>2, <3>3, <3>4 DEF Request
  <2> QED BY <2>1, <2>3, Untouched
<1>3. CASE env_delete(c, i)
  <2>1. held' = [held EXCEPT ![c] = @ \ {i}]
    BY <1>3 DEF env_delete
  <2>2. Disjoint'
    BY <2>1, IsolatedParts DEF Disjoint, Inv, TypeOK
  <2>3. \A d \in Clients : \A j \in held'[d] : j \in held[d] /\ j # i
    BY <2>1, IsolatedParts DEF Disjoint, Inv, TypeOK
  <2>4. \A d \in Clients : \A j \in held'[d] : Owns(d, j)'
    BY <1>2, <2>3
  <2> QED BY <2>2, <2>4 DEF ClientsIsolated, Disjoint, Owns
<1>4. CASE ~env_delete(c, i)
  <2>1. held' = held
    BY Zenon, <1>4 DEF Request, env_append, env_execute, no_such_environment, env_execute_parser_error
  <2>2. Owns(c, i)'
    <3>1. CASE env_execute(i)
      <4>1. script_buf'[i] = << >> \/ script_buf' = script_buf
        BY <1>1, <3>1 DEF env_execute, Cleared, Inv, TypeOK
      <4>2. table'[lua_env_ref[i]] \subseteq {c}
        <5>1. After(table[lua_env_ref[i]], script_buf[i]) \subseteq {c}
          BY <1>1 DEF After, Owns
        <5> QED BY <1>1, <3>1, <5>1 DEF env_execute, Inv, TypeOK, Owns
      <4>3. lua_env_ref' = lua_env_ref
        BY <3>1 DEF env_execute
      <4> QED BY <1>1, <4>1, <4>2, <4>3 DEF Owns, Exists
    <3>2. CASE \E kind \in Kinds : env_append(c, i, kind)
      <4>1. PICK kind \in Kinds : env_append(c, i, kind)
        BY <3>2
      <4>2. lua_env_ref' = lua_env_ref /\ table' = table
        BY <4>1 DEF env_append
      <4>3. \/ script_buf' = script_buf
            \/ script_buf'[i] = Append(script_buf[i], [by |-> c, kind |-> kind])
        BY <1>1, <4>1 DEF env_append, Inv, TypeOK
      <4>4. \A k \in DOMAIN script_buf'[i] : script_buf'[i][k].by = c
        <5>1. script_buf[i] \in Script
          BY <1>1 DEF Inv, TypeOK
        <5> QED BY <1>1, <4>3, <5>1 DEF Owns, Script
      <4> QED BY <1>1, <4>2, <4>4 DEF Owns, Exists
    <3>3. CASE no_such_environment(i) \/ env_execute_parser_error(i)
      BY <1>1, <3>3, Untouched DEF no_such_environment, env_execute_parser_error, entries
    <3> QED BY <1>4, <3>1, <3>2, <3>3 DEF Request
  <2>3. \A d \in Clients : \A j \in held'[d] : Owns(d, j)'
    <3>1. \A d \in Clients : i \in held[d] => d = c
      BY IsolatedParts DEF Disjoint
    <3> QED BY <1>2, <2>1, <2>2, <3>1
  <2>4. Disjoint'
    BY <2>1, IsolatedParts DEF Disjoint
  <2> QED BY Zenon, <2>3, <2>4 DEF ClientsIsolated, Disjoint, Owns
<1> QED BY <1>3, <1>4

(***************************************************************************)
(* Clients that use only the environments they were given are isolated     *)
(* from each other, though answers may be lost.                            *)
(***************************************************************************)
THEOREM Isolation == ASSUME Disciplined = TRUE PROVE Spec => []ClientsIsolated
<1>1. Init => ClientsIsolated
  BY DEF Init, ClientsIsolated
<1>2. Inv /\ ClientsIsolated /\ [Next]_vars => ClientsIsolated'
  <2> SUFFICES ASSUME Inv, ClientsIsolated, [Next]_vars PROVE ClientsIsolated'
    OBVIOUS
  <2>1. CASE \E c \in Clients : env_create(c)
    BY <2>1, CreateIsolated
  <2>2. CASE \E c \in Clients : \E i \in held[c] : Request(c, i)
    BY <2>2, RequestIsolated
  <2>3. CASE env_create_full \/ UNCHANGED vars \/ \E i : no_such_environment(i)
    BY <2>3 DEF env_create_full, no_such_environment, vars, entries, ClientsIsolated, Exists
  <2>4. ASSUME NEW c \in Clients, NEW i \in Presented(c), Request(c, i)
        PROVE  i \in held[c] \/ no_such_environment(i)
    BY Zenon, <2>4 DEF Presented, Request, env_append, env_execute, env_execute_parser_error, env_delete
  <2> QED BY <2>1, <2>2, <2>3, <2>4 DEF Next
<1> QED BY <1>1, <1>2, Invariance, PTL DEF Spec

-----------------------------------------------------------------------------
(* Refinement. *)

\* The tables of the environments, as the refinement mapping has them.
Tables == [i \in Slots |-> IF i \in Alive THEN table[lua_env_ref[i]] ELSE {}]

\* A free entry has no script: needed for a new environment to be empty.
FreeEmpty == \A i \in Slots : lua_env_ref[i] = LUA_REFNIL => script_buf[i] = << >>

\* Every handler leaves the buffers of free entries empty.
LEMMA NextFreeEmpty ==
    ASSUME TypeOK, FreeEmpty, [Next]_vars
    PROVE  FreeEmpty'
<1>1. ASSUME NEW c \in Clients, env_create(c) PROVE FreeEmpty'
  BY <1>1 DEF TypeOK, FreeEmpty, env_create, Cleared
<1>2. ASSUME NEW c \in Clients, NEW i, Request(c, i) PROVE FreeEmpty'
  <2>1. CASE no_such_environment(i) \/ env_execute_parser_error(i)
    BY <2>1 DEF no_such_environment, env_execute_parser_error, entries, FreeEmpty
  <2>2. CASE \E kind \in Kinds : env_append(c, i, kind)
    BY <2>2 DEF env_append, FreeEmpty, TypeOK, Exists
  <2>3. CASE env_execute(i)
    BY <2>3 DEF env_execute, FreeEmpty, TypeOK, Exists, Cleared
  <2>4. CASE env_delete(c, i)
    BY <2>4 DEF env_delete, FreeEmpty, TypeOK, Exists, Cleared
  <2> QED BY <1>2, <2>1, <2>2, <2>3, <2>4 DEF Request
<1>3. CASE env_create_full \/ UNCHANGED vars
  BY <1>3 DEF env_create_full, vars, entries, FreeEmpty
<1> QED BY <1>1, <1>2, <1>3 DEF Next

\* env_create_handler with a free entry makes a new, empty environment.
LEMMA CreateRefines ==
    ASSUME Inv, FreeEmpty, NEW c \in Clients, env_create(c)
    PROVE  Environments!ECreate
<1>0. PICK i : i = free_env_entry_ind
  OBVIOUS
<1>1. i \in Slots /\ lua_env_ref[i] = LUA_REFNIL
  BY <1>0 DEF Inv, env_create, TypeOK, FreeListExact
<1>2. PICK r \in Refs \ refs : /\ lua_env_ref' = [lua_env_ref EXCEPT ![i] = r]
                               /\ table' = [table EXCEPT ![r] = {}]
  BY Zenon, <1>0 DEF env_create
<1>3. r # LUA_REFNIL
  BY ProviderAssumption DEF LUA_REFNIL
<1>4. i \in Slots \ Alive /\ Alive' = Alive \cup {i}
  BY <1>1, <1>2, <1>3 DEF Alive, Inv, TypeOK
<1>5. script_buf' = script_buf
  <2>1. script_buf' = [script_buf EXCEPT ![i] = << >>] /\ script_buf[i] = << >>
    BY <1>0, <1>1 DEF env_create, Cleared, FreeEmpty
  <2> QED BY <2>1 DEF Inv, TypeOK
<1>6. Tables' = Tables
  <2>1. ASSUME NEW j \in Slots PROVE Tables'[j] = Tables[j]
    <3>1. CASE j = i
      BY <1>1, <1>2, <1>4, <3>1 DEF Tables, Inv, TypeOK
    <3>2. CASE j # i /\ j \in Alive
      BY <1>1, <1>2, <1>4, <3>2 DEF Tables, Inv, TypeOK, RegistryExact
    <3>3. CASE j # i /\ j \notin Alive
      BY <1>4, <3>3 DEF Tables
    <3> QED BY <3>1, <3>2, <3>3
  <2> QED BY <2>1 DEF Tables
<1>7. status' = "LUA_SUCCESS"
  BY DEF env_create, Answer
<1> QED BY <1>4, <1>5, <1>6, <1>7 DEF Environments!ECreate, Tables

\* env_create_handler refuses only when every entry is in use.
LEMMA FullRefines ==
    ASSUME Inv, env_create_full
    PROVE  Environments!ECreate
<1>1. Len(order) = 0
  <2>1. Len(order) # 0 => order[1] \in Slots
    BY DEF Inv, TypeOK
  <2>2. NIL \notin Slots
    BY ProviderAssumption DEF NIL, Slots
  <2> QED BY <2>1, <2>2 DEF Inv, env_create_full, FreeListExact
<1>2. Alive = Slots
  BY <1>1 DEF Inv, FreeListExact, Alive
<1>3. Alive' = Alive /\ Tables' = Tables /\ script_buf' = script_buf
  BY DEF env_create_full, entries, Alive, Tables
<1>4. status' = "LUA_ERROR_OUT_OF_FREE_ENVIRONMENTS"
  BY DEF env_create_full, Answer
<1> QED BY <1>2, <1>3, <1>4 DEF Environments!ECreate, Tables

\* env_delete_handler removes one environment.
LEMMA DeleteRefines ==
    ASSUME Inv, NEW c \in Clients, NEW i, env_delete(c, i)
    PROVE  i \in Alive /\ Environments!EDelete(i)
<1>1. i \in Alive /\ i \in Slots
  BY DEF env_delete, Exists, Alive
<1>2. Alive' = Alive \ {i}
  BY <1>1 DEF env_delete, Alive, Inv, TypeOK
<1>3. Tables' = [Tables EXCEPT ![i] = {}]
  <2>1. ASSUME NEW j \in Slots PROVE Tables'[j] = [Tables EXCEPT ![i] = {}][j]
    <3>1. CASE j = i
      BY <1>1, <1>2, <3>1 DEF Tables
    <3>2. CASE j # i /\ j \in Alive
      BY <1>1, <1>2, <3>2 DEF Tables, Inv, TypeOK, RegistryExact, env_delete
    <3>3. CASE j # i /\ j \notin Alive
      BY <1>2, <3>3 DEF Tables
    <3> QED BY <3>1, <3>2, <3>3
  <2> QED BY Zenon, <2>1 DEF Tables
<1>4. script_buf' = [script_buf EXCEPT ![i] = << >>] /\ status' = "LUA_SUCCESS"
  BY DEF env_delete, Cleared, Answer
<1> QED BY <1>1, <1>2, <1>3, <1>4 DEF Environments!EDelete, Tables

\* env_append_handler adds to one script or fails.
LEMMA AppendRefines ==
    ASSUME Inv, NEW c \in Clients, NEW i, NEW kind \in Kinds, env_append(c, i, kind)
    PROVE  i \in Alive /\ Environments!EAppend(i, c, kind)
<1>1. i \in Alive /\ Alive' = Alive /\ Tables' = Tables
  BY DEF env_append, Exists, Alive, Tables
<1> QED BY <1>1 DEF env_append, Answer, Environments!EAppend, Tables

\* env_execute_handler runs the script in the table of its own environment.
LEMMA ExecuteRefines ==
    ASSUME Inv, NEW i, env_execute(i)
    PROVE  i \in Alive /\ Environments!EExecute(i)
<1>1. i \in Alive /\ i \in Slots /\ Alive' = Alive
  BY DEF env_execute, Exists, Alive
<1>2. status' = IF Runs(script_buf[i]) THEN "LUA_SUCCESS" ELSE "LUA_ERROR_INTERPRETER_ERROR"
  BY DEF env_execute, Answer, AnswerWithMessage
<1>3. script_buf' = [script_buf EXCEPT ![i] = << >>]
  BY <1>1 DEF env_execute, Cleared, Inv, TypeOK
<1>4. table' = [table EXCEPT ![lua_env_ref[i]] = After(@, script_buf[i])]
  <2>1. CASE script_buf[i] = << >>
    <3>1. \A t : After(t, << >>) = t
      BY DEF After
    <3> QED BY <1>1, <2>1, <3>1 DEF env_execute, Inv, TypeOK, Alive
  <2>2. CASE script_buf[i] # << >>
    BY <2>2 DEF env_execute
  <2> QED BY <2>1, <2>2
<1>5. Tables' = [Tables EXCEPT ![i] = After(@, script_buf[i])]
  <2>1. lua_env_ref' = lua_env_ref
    BY DEF env_execute
  <2>2. ASSUME NEW j \in Slots
        PROVE  Tables'[j] = [Tables EXCEPT ![i] = After(@, script_buf[i])][j]
    <3>1. CASE j = i
      BY <1>1, <1>4, <2>1, <3>1 DEF Tables, Inv, TypeOK, Alive
    <3>2. CASE j # i /\ j \in Alive
      BY <1>1, <1>4, <2>1, <3>2 DEF Tables, Inv, TypeOK, RegistryExact
    <3>3. CASE j # i /\ j \notin Alive
      BY <1>1, <3>3 DEF Tables
    <3> QED BY <3>1, <3>2, <3>3
  <2> QED BY <2>2 DEF Tables
<1>6. Parses(script_buf[i])
  BY DEF env_execute
<1> QED BY <1>1, <1>2, <1>3, <1>5, <1>6 DEF Environments!EExecute, Environments!Parses, Parses,
           Environments!Runs, Runs, Environments!After, After, Tables

\* A request that names an environment, existing or not.
LEMMA RequestRefines ==
    ASSUME Inv, NEW c \in Clients, NEW i, Request(c, i)
    PROVE  Environments!ENext
<1>1. CASE no_such_environment(i)
  <2>1. Alive' = Alive /\ Tables' = Tables /\ script_buf' = script_buf
    BY <1>1 DEF no_such_environment, entries, Alive, Tables
  <2>2. Environments!ENoSuch
    BY <1>1, <2>1 DEF no_such_environment, Answer, Environments!ENoSuch, Tables
  <2> QED BY <2>2 DEF Environments!ENext
<1>2. CASE \E kind \in Kinds : env_append(c, i, kind)
  BY <1>2, AppendRefines DEF Environments!ENext, Environments!Kinds, Kinds
<1>3. CASE env_execute_parser_error(i)
  <2>1. i \in Alive /\ Alive' = Alive /\ Tables' = Tables /\ script_buf' = script_buf
    BY <1>3 DEF env_execute_parser_error, entries, Alive, Exists, Tables
  <2>2. Environments!EExecute(i)
    BY Zenon, <1>3, <2>1 DEF env_execute_parser_error, AnswerWithMessage, Environments!EExecute,
       Environments!Parses, Parses, Tables
  <2> QED BY <2>1, <2>2 DEF Environments!ENext
<1>4. CASE env_execute(i)
  BY <1>4, ExecuteRefines DEF Environments!ENext
<1>5. CASE env_delete(c, i)
  BY <1>5, DeleteRefines DEF Environments!ENext
<1> QED BY <1>1, <1>2, <1>3, <1>4, <1>5 DEF Request

(***************************************************************************)
(* Every request does to the environments what module LuaEnvironments says *)
(* it should; in particular a new environment is empty, and none is        *)
(* refused while an entry is free.                                         *)
(***************************************************************************)
THEOREM Refinement == Spec => ImplementsEnvironments
<1>1. Init => Environments!EInit
  BY DEF Init, Environments!EInit, Alive
<1>2. Init => FreeEmpty
  BY DEF Init, FreeEmpty
<1>3. Inv /\ FreeEmpty /\ [Next]_vars => FreeEmpty'
  BY NextFreeEmpty DEF Inv
<1>4. Inv /\ FreeEmpty /\ [Next]_vars => [Environments!ENext]_(Environments!evars)
  <2> SUFFICES ASSUME Inv, FreeEmpty, [Next]_vars
               PROVE  [Environments!ENext]_(Environments!evars)
    OBVIOUS
  <2>1. CASE env_create_full
    BY <2>1, FullRefines DEF Environments!ENext
  <2>2. CASE \E c \in Clients : env_create(c)
    BY <2>2, CreateRefines DEF Environments!ENext
  <2>3. CASE \E c \in Clients : \E i \in Presented(c) : Request(c, i)
    BY <2>3, RequestRefines
  <2>4. CASE UNCHANGED vars
    BY <2>4 DEF vars, entries, Environments!evars, Alive
  <2> QED BY <2>1, <2>2, <2>3, <2>4 DEF Next
<1> QED BY <1>1, <1>2, <1>3, <1>4, Invariance, PTL DEF Spec, ImplementsEnvironments, Environments!ESpec
=============================================================================
