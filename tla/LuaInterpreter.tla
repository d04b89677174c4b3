--------------------------- MODULE LuaInterpreter ---------------------------
(***************************************************************************)
(* What the Lua SP needs of the Lua library: whether a buffer parses, and  *)
(* what running it does to the table that is its environment.              *)
(*                                                                         *)
(* A script is a sequence of chunks, each sent by a client: a statement,   *)
(* the first half of one, its rest, or a statement that raises an error.   *)
(* A table records the clients whose statements have run in it.            *)
(***************************************************************************)
EXTENDS Naturals, Sequences

Kinds == {"statement", "half", "rest", "error"}

\* luaL_loadbuffer succeeds: every half has its rest.
Parses(script) ==
    \A k \in DOMAIN script :
        /\ script[k].kind = "half" => k < Len(script) /\ script[k + 1].kind = "rest"
        /\ script[k].kind = "rest" => k > 1 /\ script[k - 1].kind = "half"

\* lua_pcall succeeds: no error is raised.
Runs(script) == \A k \in DOMAIN script : script[k].kind # "error"

\* The table after lua_pcall: statements run up to the first error.
After(table, script) ==
    table \cup {script[k].by : k \in {n \in DOMAIN script : \A m \in 1 .. n : script[m].kind # "error"}}
=============================================================================
