-------------------------- MODULE CryptoProviders --------------------------
(***************************************************************************)
(* The handlers of the five providers of multi-part operations             *)
(* (components/service/crypto/provider/extension).  A handler gives the    *)
(* set of its answers: the pool after it, the status, and the handle of a  *)
(* new operation.  Errors are not told apart, as callers treat all of them *)
(* alike: those of PSA Crypto, PSA_ERROR_BAD_STATE if there is no context, *)
(* and the RPC error of a handler that cannot serialize its response.      *)
(* Requests are those of the clients of this repository, which providers   *)
(* can deserialize.                                                        *)
(***************************************************************************)
EXTENDS CryptoContextPool, Sequences

(***************************************************************************)
(* A multi-part operation of the PSA Crypto implementation that providers  *)
(* call, a library outside of this repository.  What it has done is the    *)
(* sequence of the inputs it accepted.  It may refuse any call; after that *)
(* the operation can only be aborted.                                      *)
(***************************************************************************)
\* psa_*_operation_init
Inactive == [state |-> "inactive", key |-> "none", done |-> <<>>]

\* An operation with the namespaced key of a client.
SetUp(client) == [state |-> "active", key |-> client, done |-> <<>>]

Refused(op) == [op EXCEPT !.state = IF @ = "active" THEN "error" ELSE @]

\* The operation after one more input, if it takes it.
Fed(op, input) == [op EXCEPT !.done = Append(@, input)]

-----------------------------------------------------------------------------
Answer(pool, status) == [pool |-> pool, status |-> status, handle |-> 0]

\* The pool with another operation in `context'.
Put(pool, context, op) == [pool EXCEPT !.active = (@ \ {context}) \cup {[context EXCEPT !.op = op]}]

\* The answers of a handler that has a response to serialize.
Serialized(answers) ==
    answers \cup {[a EXCEPT !.status = "ERROR"] : a \in {b \in answers : b.status = "SUCCESS"}}

(***************************************************************************)
(* What the handlers of each kind have in common.                          *)
(***************************************************************************)
\* The context is freed if the operation is refused, or the response not serialized.
Setup(pool, client) ==
    LET new == NewContext(pool, client, SetUp(client))
        after == crypto_context_pool_alloc(pool, client, SetUp(client))
    IN  {[pool |-> after, status |-> "SUCCESS", handle |-> new.handle]}
          \cup {Answer(crypto_context_pool_free(after, new), "ERROR")}

\* One input for the operation.
Input(pool, client, handle, input) ==
    LET found == crypto_context_pool_find(pool, client, handle)
        taken == {Answer(Put(pool, x, Fed(x.op, input)), "SUCCESS") : x \in {y \in found : y.op.state = "active"}}
        refused == {Answer(Put(pool, x, Refused(x.op)), "ERROR") : x \in found}
    IN  taken \cup refused \cup (IF found = {} THEN {Answer(pool, "ERROR")} ELSE {})

\* The same, with an output that is allocated first.
InputOutput(pool, client, handle, input) ==
    Serialized(Input(pool, client, handle, input))
      \cup (IF crypto_context_pool_find(pool, client, handle) = {} THEN {} ELSE {Answer(pool, "ERROR")})

\* Mutant: the context is not freed.
Finish_Kept(pool, client, handle) == Input(pool, client, handle, <<>>)

\* The end of an operation: the context is freed if it is successful.
Finish(pool, client, handle) ==
    LET found == crypto_context_pool_find(pool, client, handle)
        done == {Answer(crypto_context_pool_free(pool, x), "SUCCESS") : x \in {y \in found : y.op.state = "active"}}
        refused == {Answer(Put(pool, x, Refused(x.op)), "ERROR") : x \in found}
    IN  done \cup refused \cup (IF found = {} THEN {Answer(pool, "ERROR")} ELSE {})

\* The context is freed in any case; an operation that is not active needs no aborting.
Abort(pool, client, handle) ==
    LET found == crypto_context_pool_find(pool, client, handle)
    IN  (UNION {{Answer(crypto_context_pool_free(pool, x), s) : s \in {"SUCCESS", "ERROR"}} : x \in found})
          \cup (IF found = {} THEN {Answer(pool, "SUCCESS")} ELSE {})

-----------------------------------------------------------------------------
hash_setup_handler(pool, client) == Setup(pool, client)
hash_update_handler(pool, client, handle, input) == Input(pool, client, handle, input)
hash_finish_handler(pool, client, handle) == Serialized(Finish(pool, client, handle))
hash_abort_handler(pool, client, handle) == Abort(pool, client, handle)
hash_verify_handler(pool, client, handle) == Finish(pool, client, handle)

(***************************************************************************)
(* The target is allocated when the source has been found: if the source   *)
(* is recycled for it, both are the same memory, whose operation has been  *)
(* initialized.  A target that could not be made a clone stays allocated.  *)
(***************************************************************************)
hash_clone_handler(pool, client, handle) ==
    LET Target(op) == crypto_context_pool_alloc(pool, client, op)
        Cloned(x) == Serialized({[pool |-> Target(x.op), status |-> "SUCCESS", handle |-> NewContext(pool, client, x.op).handle]})
        Clone(x) == (IF x \in Recycled(pool).active /\ x.op.state = "active" THEN Cloned(x) ELSE {})
                      \cup {Answer(Target(Inactive), "ERROR")}
        found == crypto_context_pool_find(pool, client, handle)
    IN  IF found = {} THEN {Answer(pool, "ERROR")} ELSE UNION {Clone(x) : x \in found}

mac_setup_handler(pool, client) == Setup(pool, client)
mac_update_handler(pool, client, handle, input) == Input(pool, client, handle, input)
mac_sign_finish_handler(pool, client, handle) == Serialized(Finish(pool, client, handle))
mac_verify_finish_handler(pool, client, handle) == Finish(pool, client, handle)
mac_abort_handler(pool, client, handle) == Abort(pool, client, handle)

cipher_setup_handler(pool, client) == Setup(pool, client)
cipher_generate_iv_handler(pool, client, handle, input) == Serialized(Input(pool, client, handle, input))
cipher_set_iv_handler(pool, client, handle, input) == Input(pool, client, handle, input)
cipher_update_handler(pool, client, handle, input) == InputOutput(pool, client, handle, input)
cipher_finish_handler(pool, client, handle) == Serialized(Finish(pool, client, handle))
cipher_abort_handler(pool, client, handle) == Abort(pool, client, handle)

aead_setup_handler(pool, client) == Setup(pool, client)
aead_generate_nonce_handler(pool, client, handle, input) == Serialized(Input(pool, client, handle, input))
aead_set_nonce_handler(pool, client, handle, input) == Input(pool, client, handle, input)
aead_set_lengths_handler(pool, client, handle, input) == Input(pool, client, handle, input)
aead_update_ad_handler(pool, client, handle, input) == Input(pool, client, handle, input)
aead_update_handler(pool, client, handle, input) == InputOutput(pool, client, handle, input)
aead_finish_handler(pool, client, handle) == Serialized(Finish(pool, client, handle))
aead_verify_handler(pool, client, handle) == Serialized(Finish(pool, client, handle))
aead_abort_handler(pool, client, handle) == Abort(pool, client, handle)

\* A derivation is ended by an abort only.
key_derivation_setup_handler(pool, client) == Setup(pool, client)
key_derivation_get_capacity_handler(pool, client, handle, input) == Serialized(Input(pool, client, handle, input))
key_derivation_set_capacity_handler(pool, client, handle, input) == Input(pool, client, handle, input)
key_derivation_input_bytes_handler(pool, client, handle, input) == Input(pool, client, handle, input)
key_derivation_output_bytes_handler(pool, client, handle, input) == InputOutput(pool, client, handle, input)
key_derivation_output_key_handler(pool, client, handle, input) == Serialized(Input(pool, client, handle, input))
key_derivation_abort_handler(pool, client, handle) == Abort(pool, client, handle)
key_derivation_key_agreement_handler(pool, client, handle, input) == Input(pool, client, handle, input)

\* A key id of 0 is refused before the context is looked up.
key_derivation_input_key_handler(pool, client, handle, input) ==
    Input(pool, client, handle, input) \cup {Answer(pool, "ERROR")}
=============================================================================
