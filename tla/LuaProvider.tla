---------------------------- MODULE LuaProvider ----------------------------
(***************************************************************************)
(* The Lua service provider (components/service/lua/provider) and its      *)
(* clients (components/service/lua/client).                                *)
(*                                                                         *)
(* The provider's environment entries are one function per field; a free   *)
(* entry links to the next.  The Lua registry is a set of references with  *)
(* a table each.  Requests are handled one at a time: an action is one     *)
(* call of the client library with the handler it reaches.  The answer to  *)
(* a call may be lost (Lossy): the client library then returns             *)
(* LUA_ERROR_GENERIC_ERROR although the handler ran.                       *)
(***************************************************************************)
EXTENDS LuaInterpreter, Integers

CONSTANTS
    MAX_ENV_COUNT,
    Clients,
    Refs,           \* the references luaL_ref may return
    Lossy,          \* whether answers may be lost
    Disciplined,    \* whether clients use only environments that they were given
    MaxScript       \* bound: the number of chunks in a script buffer

ASSUME ProviderAssumption ==
    /\ MAX_ENV_COUNT \in Nat \ {0}
    /\ Refs \subseteq Nat
    /\ {Lossy, Disciplined} \subseteq BOOLEAN
    /\ MaxScript \in Nat

NIL == -1
LUA_REFNIL == -1
Slots == 0 .. MAX_ENV_COUNT - 1

VARIABLES
    lua_env_ref, script_buf, next,      \* struct env_entry
    free_env_entry_ind,
    refs,           \* the references in use in the Lua registry
    table,          \* the tables they refer to
    order,          \* the free entries in the order in which they will be used
    status,         \* the service status of the last request
    got,            \* what the client library returned for it: status, and whether with a message
    held            \* the indices each client was given and has not deleted

entries == <<lua_env_ref, script_buf, next, free_env_entry_ind, order>>
vars == <<entries, refs, table, status, got, held>>

FreeLinks == [i \in Slots |-> IF i < MAX_ENV_COUNT - 1 THEN i + 1 ELSE NIL]

\* lua_provider_init
Init ==
    /\ lua_env_ref = [i \in Slots |-> LUA_REFNIL]
    /\ script_buf = [i \in Slots |-> << >>]
    /\ next = FreeLinks
    /\ free_env_entry_ind = 0
    /\ refs = {}
    /\ table = [r \in Refs |-> {}]
    /\ order = [n \in 1 .. MAX_ENV_COUNT |-> n - 1]
    /\ status = "LUA_SUCCESS"
    /\ got = [status |-> "LUA_SUCCESS", message |-> FALSE]
    /\ held = [c \in Clients |-> {}]

Alive == {i \in Slots : lua_env_ref[i] # LUA_REFNIL}

\* The handlers' check of the index they were sent.
Exists(i) == i \in Slots /\ lua_env_ref[i] # LUA_REFNIL

\* The indices a client may send.
Presented(c) == {i \in -1 .. MAX_ENV_COUNT : Disciplined /\ Exists(i) => i \in held[c]}

LostAnswer == [status |-> "LUA_ERROR_GENERIC_ERROR", message |-> FALSE]

\* The handler's status and what becomes of it on its way to the client.
Answer(s) ==
    /\ status' = s
    /\ got' \in {[status |-> s, message |-> FALSE]} \cup (IF Lossy THEN {LostAnswer} ELSE {})

(***************************************************************************)
(* The answer to an execution that failed with a message.  A message that  *)
(* does not fit the response buffer is dropped by the serializer, one that *)
(* does not fit the caller's buffer by the client library.                 *)
(***************************************************************************)
AnswerWithMessage(s) ==
    /\ status' = s
    /\ got' \in {[status |-> s, message |-> TRUE], [status |-> s, message |-> FALSE],
                 [status |-> "PSA_ERROR_BUFFER_TOO_SMALL", message |-> FALSE]}
                 \cup (IF Lossy THEN {LostAnswer} ELSE {})

-----------------------------------------------------------------------------
\* Mutant: the script stays in its buffer.
Cleared_Kept(i) == script_buf

\* script_buf = NULL, script_len = 0
Cleared(i) == [script_buf EXCEPT ![i] = << >>]

env_create_full ==
    /\ free_env_entry_ind = NIL
    /\ Answer("LUA_ERROR_OUT_OF_FREE_ENVIRONMENTS")
    /\ UNCHANGED <<entries, refs, table, held>>

\* The client knows the new environment only if the answer arrives.
env_create(c) ==
    LET i == free_env_entry_ind IN
    /\ i # NIL
    /\ free_env_entry_ind' = next[i]
    /\ order' = Tail(order)
    /\ \E r \in Refs \ refs :
         /\ refs' = refs \cup {r}
         /\ table' = [table EXCEPT ![r] = {}]
         /\ lua_env_ref' = [lua_env_ref EXCEPT ![i] = r]
    /\ next' = [next EXCEPT ![i] = NIL]
    /\ script_buf' = Cleared(i)
    /\ Answer("LUA_SUCCESS")
    /\ held' = IF got'.status = "LUA_SUCCESS" THEN [held EXCEPT ![c] = @ \cup {i}] ELSE held

no_such_environment(i) ==
    /\ ~Exists(i)
    /\ Answer("LUA_ERROR_ENVIRONMENT_DOES_NOT_EXIST")
    /\ UNCHANGED <<entries, refs, table, held>>

\* realloc may fail; the old buffer is then kept.
env_append(c, i, kind) ==
    /\ Exists(i)
    /\ Len(script_buf[i]) < MaxScript
    /\ \/ /\ script_buf' = [script_buf EXCEPT ![i] = Append(@, [by |-> c, kind |-> kind])]
          /\ Answer("LUA_SUCCESS")
       \/ /\ UNCHANGED script_buf
          /\ Answer("LUA_ERROR_OUT_OF_MEMORY")
    /\ UNCHANGED <<lua_env_ref, next, free_env_entry_ind, order, refs, table, held>>

\* A script that does not parse stays in its buffer.
env_execute_parser_error(i) ==
    /\ Exists(i)
    /\ ~Parses(script_buf[i])
    /\ AnswerWithMessage("LUA_ERROR_PARSER_ERROR")
    /\ UNCHANGED <<entries, refs, table, held>>

\* An empty buffer is not run.
env_execute(i) ==
    /\ Exists(i)
    /\ Parses(script_buf[i])
    /\ IF script_buf[i] = << >> THEN UNCHANGED <<script_buf, table>>
       ELSE /\ script_buf' = Cleared(i)
            /\ table' = [table EXCEPT ![lua_env_ref[i]] = After(@, script_buf[i])]
    /\ IF Runs(script_buf[i]) THEN Answer("LUA_SUCCESS")
       ELSE AnswerWithMessage("LUA_ERROR_INTERPRETER_ERROR")
    /\ UNCHANGED <<lua_env_ref, next, free_env_entry_ind, order, refs, held>>

Unref(i) == refs \ {lua_env_ref[i]}

\* Mutant: the freed entry is not linked to the rest of the free list.
NextAfterDelete_Unlinked(i) == next

NextAfterDelete(i) == [next EXCEPT ![i] = free_env_entry_ind]

\* A client never uses the index again, whatever the answer.
env_delete(c, i) ==
    /\ Exists(i)
    /\ refs' = Unref(i)
    /\ table' = [table EXCEPT ![lua_env_ref[i]] = {}]
    /\ lua_env_ref' = [lua_env_ref EXCEPT ![i] = LUA_REFNIL]
    /\ script_buf' = Cleared(i)
    /\ next' = NextAfterDelete(i)
    /\ free_env_entry_ind' = i
    /\ order' = <<i>> \o order
    /\ Answer("LUA_SUCCESS")
    /\ held' = [held EXCEPT ![c] = @ \ {i}]

Request(c, i) ==
    \/ no_such_environment(i)
    \/ \E kind \in Kinds : env_append(c, i, kind)
    \/ env_execute_parser_error(i)
    \/ env_execute(i)
    \/ env_delete(c, i)

Next ==
    \/ env_create_full
    \/ \E c \in Clients : env_create(c) \/ \E i \in Presented(c) : Request(c, i)

Spec == Init /\ [][Next]_vars

-----------------------------------------------------------------------------
(* Properties. *)

Statuses == {"LUA_SUCCESS", "LUA_ERROR_GENERIC_ERROR", "LUA_ERROR_OUT_OF_FREE_ENVIRONMENTS",
             "LUA_ERROR_ENVIRONMENT_DOES_NOT_EXIST", "LUA_ERROR_OUT_OF_MEMORY",
             "LUA_ERROR_PARSER_ERROR", "LUA_ERROR_INTERPRETER_ERROR", "PSA_ERROR_BUFFER_TOO_SMALL"}

Script == Seq([by : Clients, kind : Kinds])

\* Type invariant: in particular, links and references stay in range.
TypeOK ==
    /\ lua_env_ref \in [Slots -> Refs \cup {LUA_REFNIL}]
    /\ script_buf \in [Slots -> Script]
    /\ next \in [Slots -> Slots \cup {NIL}]
    /\ free_env_entry_ind \in Slots \cup {NIL}
    /\ order \in Seq(Slots)
    /\ refs \subseteq Refs
    /\ table \in [Refs -> SUBSET Clients]
    /\ status \in Statuses
    /\ got \in [status : Statuses, message : BOOLEAN]
    /\ held \in [Clients -> SUBSET Slots]

(***************************************************************************)
(* The free list visits exactly the entries without an environment, each   *)
(* once, and ends: through any sequence of creations and deletions no      *)
(* entry is lost and none is handed out twice.                             *)
(***************************************************************************)
FreeListExact ==
    /\ \A i \in Slots : lua_env_ref[i] = LUA_REFNIL <=> \E n \in 1 .. Len(order) : order[n] = i
    /\ \A m, n \in 1 .. Len(order) : order[m] = order[n] => m = n
    /\ free_env_entry_ind = IF Len(order) = 0 THEN NIL ELSE order[1]
    /\ \A n \in 1 .. Len(order) : next[order[n]] = IF n = Len(order) THEN NIL ELSE order[n + 1]

(***************************************************************************)
(* The Lua registry holds one table for each environment and no other: no  *)
(* table is shared by two environments, left behind by env_delete, or      *)
(* collected while an environment refers to it.                            *)
(***************************************************************************)
RegistryExact ==
    /\ \A i \in Alive : lua_env_ref[i] \in refs
    /\ \A r \in refs : \E i \in Alive : lua_env_ref[i] = r
    /\ \A i, j \in Alive : lua_env_ref[i] = lua_env_ref[j] => i = j

(***************************************************************************)
(* Clients that use only the environments they were given are isolated     *)
(* from each other ("Create a new Lua environment for script isolation"):  *)
(* an index belongs to one client, its environment exists, and only that   *)
(* client's statements wait or have run in it, though answers may be lost. *)
(***************************************************************************)
ClientsIsolated ==
    /\ \A c, d \in Clients : c # d => held[c] \cap held[d] = {}
    /\ \A c \in Clients : \A i \in held[c] :
         /\ Exists(i)
         /\ table[lua_env_ref[i]] \subseteq {c}
         /\ \A k \in DOMAIN script_buf[i] : script_buf[i][k].by = c

\* The provider implements the environments of module LuaEnvironments.
Environments == INSTANCE LuaEnvironments WITH
                    alive  <- Alive,
                    script <- script_buf,
                    table  <- [i \in Slots |-> IF i \in Alive THEN table[lua_env_ref[i]] ELSE {}]

(***************************************************************************)
(* Every request does to the environments what it should, whatever index   *)
(* it names; a creation fails only when all entries are in use.            *)
(***************************************************************************)
ImplementsEnvironments == Environments!ESpec
=============================================================================
