------------------------- MODULE CryptoContextPool -------------------------
(***************************************************************************)
(* The pool of crypto contexts of a provider (components/service/crypto/   *)
(* provider/crypto_context_pool.c), one per kind of operation.             *)
(*                                                                         *)
(* A pool is [active, recent, allocs].  The active list is the set of its  *)
(* contexts, whose `at' numbers them in the order of their allocation; all *)
(* other contexts are on the free list.  All contexts of a pool have the   *)
(* same usage.                                                             *)
(***************************************************************************)
EXTENDS Integers, FiniteSets, FiniteSetsExt

CONSTANTS
    CRYPTO_CONTEXT_POOL_SIZE,
    HandleMax                   \* UINT32_MAX

ASSUME PoolAssumption ==
    /\ CRYPTO_CONTEXT_POOL_SIZE \in Nat \ {0}
    /\ HandleMax \in Nat /\ HandleMax >= CRYPTO_CONTEXT_POOL_SIZE

crypto_context_pool_init == [active |-> {}, recent |-> 0, allocs |-> 0]

crypto_context_pool_free(pool, context) == [pool EXCEPT !.active = @ \ {context}]

\* Mutant: any client's context.
crypto_context_pool_find_Any(pool, client, handle) == {x \in pool.active : x.handle = handle}

crypto_context_pool_find(pool, client, handle) ==
    {x \in pool.active : x.handle = handle /\ x.client = client}

\* active_tail: the context that was allocated before all others.
active_tail(pool) == CHOOSE x \in pool.active : \A y \in pool.active : x.at <= y.at

\* Mutant: the lowest number that is not in use.
alloc_op_handle_Lowest(in_use, recent) == Min((1 .. HandleMax) \ in_use)

(***************************************************************************)
(* The first number after the most recent one that is not in use.  The new *)
(* context is in the active list by then, with the op_handle 0 it has got  *)
(* on the free list, so that 0 is in use and is never allocated.           *)
(***************************************************************************)
alloc_op_handle(in_use, recent) ==
    LET above == (recent + 1 .. HandleMax) \ in_use
    IN  IF above # {} THEN Min(above) ELSE Min((1 .. HandleMax) \ in_use)

\* The oldest context is recycled if none is free.
Recycled(pool) ==
    IF Cardinality(pool.active) < CRYPTO_CONTEXT_POOL_SIZE THEN pool
    ELSE crypto_context_pool_free(pool, active_tail(pool))

\* The context that crypto_context_pool_alloc returns, set up for `op'.
NewContext(pool, client, op) ==
    [at |-> pool.allocs + 1, client |-> client, op |-> op,
     handle |-> alloc_op_handle({x.handle : x \in Recycled(pool).active}, pool.recent)]

crypto_context_pool_alloc(pool, client, op) ==
    LET new == NewContext(pool, client, op)
    IN  [active |-> Recycled(pool).active \cup {new}, recent |-> new.handle, allocs |-> new.at]
=============================================================================
