--------------------------- MODULE LuaEnvironments ---------------------------
(***************************************************************************)
(* What the Lua service promises its clients: at most as many environments *)
(* as there are slots, each with a table of its own and the script that    *)
(* was appended since it was last run.  A new environment is empty; one    *)
(* can be had as long as a slot is unused.                                 *)
(***************************************************************************)
EXTENDS LuaInterpreter

CONSTANTS Slots, Clients

VARIABLES
    alive,      \* the slots with an environment
    script,     \* per slot, the script waiting to be run
    table,      \* per slot, the environment's table
    status      \* what the service said to the last request

evars == <<alive, script, table, status>>

EInit ==
    /\ alive = {}
    /\ script = [s \in Slots |-> << >>]
    /\ table = [s \in Slots |-> {}]
    /\ status = "LUA_SUCCESS"

ECreate ==
    \/ /\ alive = Slots
       /\ status' = "LUA_ERROR_OUT_OF_FREE_ENVIRONMENTS"
       /\ UNCHANGED <<alive, script, table>>
    \/ /\ \E s \in Slots \ alive : alive' = alive \cup {s}
       /\ status' = "LUA_SUCCESS"
       /\ UNCHANGED <<script, table>>

EAppend(s, by, kind) ==
    /\ \/ /\ status' = "LUA_SUCCESS"
          /\ script' = [script EXCEPT ![s] = Append(@, [by |-> by, kind |-> kind])]
       \/ /\ status' = "LUA_ERROR_OUT_OF_MEMORY"
          /\ UNCHANGED script
    /\ UNCHANGED <<alive, table>>

EExecute(s) ==
    /\ IF Parses(script[s])
       THEN /\ status' = IF Runs(script[s]) THEN "LUA_SUCCESS" ELSE "LUA_ERROR_INTERPRETER_ERROR"
            /\ table' = [table EXCEPT ![s] = After(@, script[s])]
            /\ script' = [script EXCEPT ![s] = << >>]
       ELSE /\ status' = "LUA_ERROR_PARSER_ERROR"
            /\ UNCHANGED <<script, table>>
    /\ UNCHANGED alive

EDelete(s) ==
    /\ alive' = alive \ {s}
    /\ script' = [script EXCEPT ![s] = << >>]
    /\ table' = [table EXCEPT ![s] = {}]
    /\ status' = "LUA_SUCCESS"

\* A request for an environment that does not exist.
ENoSuch == status' = "LUA_ERROR_ENVIRONMENT_DOES_NOT_EXIST" /\ UNCHANGED <<alive, script, table>>

ENext ==
    \/ ECreate
    \/ \E s \in alive : \/ \E c \in Clients, k \in Kinds : EAppend(s, c, k)
                        \/ EExecute(s)
                        \/ EDelete(s)
    \/ ENoSuch

ESpec == EInit /\ [][ENext]_evars
=============================================================================
