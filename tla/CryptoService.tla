---------------------------- MODULE CryptoService ----------------------------
(***************************************************************************)
(* Multi-part crypto operations of several clients (components/service/    *)
(* crypto/client/psa) with the provider of one kind of operation; the five *)
(* providers have nothing in common but the keys.  A provider handles one  *)
(* request after the other.  A client function makes one request, except   *)
(* for the one-shot functions, which make a sequence of them: requests of  *)
(* other clients come in between.                                          *)
(***************************************************************************)
EXTENDS CryptoCallers

CONSTANTS
    Clients, Operations,
    Client,         \* the client whose operation object it is
    OneShots,       \* the operation objects of one-shot functions, on their stack
    Services,       \* the kinds of operations
    MaxAllocs,      \* contexts that are allocated, for each kind
    MaxInputs,      \* inputs of an operation, for each kind
    MaxUpdates      \* updates of a one-shot function, for each kind

ASSUME ClientsAssumption ==
    /\ Client \in [Operations -> Clients]
    /\ OneShots \subseteq Operations
    /\ \A s \in Services : MaxAllocs[s] \in Nat /\ MaxInputs[s] \in Nat /\ MaxUpdates[s] \in Nat

VARIABLES
    service,    \* the kind of operation, which does not change
    pool,       \* the context pool of its provider
    handle,     \* operation->handle of every operation object
    todo,       \* the calls that the function in progress still makes
    view        \* what the client may rely on: [state, sent, at]

vars == <<service, pool, handle, todo, view>>

\* Nothing; an operation that has taken all of `sent', set up as the at-th context; one
\* that has been ended; one that had an error.
None == [state |-> "none", sent |-> <<>>, at |-> 0]
Live(sent, at) == [state |-> "live", sent |-> sent, at |-> at]
Ended == [state |-> "ended", sent |-> <<>>, at |-> 0]
Failed == [state |-> "failed", sent |-> <<>>, at |-> 0]

Data(o, call) == <<o, call>>

\* The context of an operation object of a client, as its provider finds it.
Found(o) == crypto_context_pool_find(pool, Client[o], handle[o])

\* What a one-shot function does when a call has not been successful.
abort == [hash |-> <<"hash_abort">>, mac |-> <<"mac_abort">>, cipher |-> <<"cipher_abort">>,
          aead |-> <<"aead_abort">>, key_derivation |-> <<>>]

-----------------------------------------------------------------------------
(***************************************************************************)
(* The effect of a call on its operation object.                           *)
(***************************************************************************)
Free(o) == todo[o] = <<>>

May(o, call) == IF Free(o) THEN o \notin OneShots ELSE Head(todo[o]) = call

\* The rest of the function in progress, if a call ends with `status'.
Continue(o, status, aborts) ==
    todo' = [todo EXCEPT ![o] = IF Free(o) THEN <<>> ELSE IF status = "SUCCESS" THEN Tail(@) ELSE aborts]

SetupCall(o, call, answers) ==
    /\ May(o, call)
    /\ pool.allocs < MaxAllocs[service]
    /\ \E a \in answers :
        /\ pool' = a.pool
        /\ handle' = [handle EXCEPT ![o] = IF a.status = "SUCCESS" THEN a.handle ELSE @]
        /\ view' = [view EXCEPT ![o] = IF a.status = "SUCCESS" THEN Live(<<>>, a.pool.allocs) ELSE @]
        /\ Continue(o, a.status, <<>>)
    /\ UNCHANGED service

\* `extra' are the aborts of the function itself, if its buffer is too small.
InputCall(o, call, answers, extra) ==
    /\ May(o, call)
    /\ Free(o) => \A x \in Found(o) : Len(x.op.done) < MaxInputs[service]
    /\ \E a \in answers :
        /\ pool' = a.pool
        /\ view' = [view EXCEPT ![o] =
                        IF @.state = "live" /\ a.status = "SUCCESS" THEN Live(Append(@.sent, Data(o, call)), @.at)
                        ELSE IF @.state = "live" THEN Failed ELSE @]
        /\ IF a.status = "BUFFER_TOO_SMALL" /\ Free(o) THEN todo' = [todo EXCEPT ![o] = extra]
           ELSE IF a.status = "BUFFER_TOO_SMALL" THEN todo' = [todo EXCEPT ![o] = extra \o abort[service]]
           ELSE Continue(o, a.status, abort[service])
    /\ UNCHANGED <<service, handle>>

FinishCall(o, call, answers, aborts) ==
    /\ May(o, call)
    /\ \E a \in answers :
        /\ pool' = a.pool
        /\ view' = [view EXCEPT ![o] = IF @.state = "none" THEN @ ELSE IF a.status = "SUCCESS" THEN Ended ELSE Failed]
        /\ Continue(o, a.status, aborts)
    /\ UNCHANGED <<service, handle>>

\* Functions ignore the status of an abort.
AbortCall(o, call, answers) ==
    /\ May(o, call)
    /\ \E a \in answers :
        /\ pool' = a.pool
        /\ view' = [view EXCEPT ![o] = IF @.state = "none" THEN @ ELSE IF a.status = "SUCCESS" THEN Ended ELSE Failed]
        /\ Continue(o, "SUCCESS", <<>>)
    /\ UNCHANGED <<service, handle>>

CloneCall(o, t, answers) ==
    /\ Free(o) /\ Free(t) /\ {o, t} \cap OneShots = {} /\ Client[o] = Client[t] /\ o # t
    /\ pool.allocs < MaxAllocs[service]
    /\ \E a \in answers :
        /\ pool' = a.pool
        /\ handle' = [handle EXCEPT ![t] = IF a.status = "SUCCESS" THEN a.handle ELSE @]
        /\ view' = [view EXCEPT ![t] = IF a.status # "SUCCESS" THEN @
                                       ELSE IF view[o].state = "live" THEN Live(view[o].sent, a.pool.allocs)
                                       ELSE Failed]
    /\ UNCHANGED <<service, todo>>
-----------------------------------------------------------------------------
(***************************************************************************)
(* The functions of the five kinds.  A setup of an operation object that   *)
(* is in use is refused by the client, for hash, mac and cipher.           *)
(***************************************************************************)
psa_hash(o) ==
    \/ handle[o] = 0 /\ SetupCall(o, "hash_setup", crypto_caller_hash_setup(pool, Client[o]))
    \/ InputCall(o, "hash_update", crypto_caller_hash_update(pool, Client[o], handle[o], Data(o, "hash_update")), <<>>)
    \/ FinishCall(o, "hash_finish", crypto_caller_hash_finish(pool, Client[o], handle[o]), abort.hash)
    \/ FinishCall(o, "hash_verify", crypto_caller_hash_verify(pool, Client[o], handle[o]), abort.hash)
    \/ AbortCall(o, "hash_abort", crypto_caller_hash_abort(pool, Client[o], handle[o]))
    \/ \E t \in Operations : handle[t] = 0 /\ CloneCall(o, t, crypto_caller_hash_clone(pool, Client[o], handle[o]))

psa_mac(o) ==
    \/ handle[o] = 0 /\ SetupCall(o, "mac_setup", common_mac_setup(pool, Client[o]))
    \/ InputCall(o, "mac_update", crypto_caller_mac_update(pool, Client[o], handle[o], Data(o, "mac_update")), <<>>)
    \/ FinishCall(o, "mac_sign_finish", crypto_caller_mac_sign_finish(pool, Client[o], handle[o]), abort.mac)
    \/ FinishCall(o, "mac_verify_finish", crypto_caller_mac_verify_finish(pool, Client[o], handle[o]), abort.mac)
    \/ AbortCall(o, "mac_abort", crypto_caller_mac_abort(pool, Client[o], handle[o]))

psa_cipher(o) ==
    \/ handle[o] = 0 /\ SetupCall(o, "cipher_setup", common_cipher_setup(pool, Client[o]))
    \/ InputCall(o, "cipher_generate_iv", crypto_caller_cipher_generate_iv(pool, Client[o], handle[o], Data(o, "cipher_generate_iv")), <<>>)
    \/ InputCall(o, "cipher_set_iv", crypto_caller_cipher_set_iv(pool, Client[o], handle[o], Data(o, "cipher_set_iv")), <<>>)
    \/ InputCall(o, "cipher_update", crypto_caller_cipher_update(pool, Client[o], handle[o], Data(o, "cipher_update")), <<>>)
    \/ FinishCall(o, "cipher_finish", crypto_caller_cipher_finish(pool, Client[o], handle[o]), abort.cipher \o abort.cipher)
    \/ AbortCall(o, "cipher_abort", crypto_caller_cipher_abort(pool, Client[o], handle[o]))

psa_aead(o) ==
    \/ SetupCall(o, "aead_setup", common_aead_setup(pool, Client[o]))
    \/ InputCall(o, "aead_generate_nonce", crypto_caller_aead_generate_nonce(pool, Client[o], handle[o], Data(o, "aead_generate_nonce")), <<>>)
    \/ InputCall(o, "aead_set_nonce", crypto_caller_aead_set_nonce(pool, Client[o], handle[o], Data(o, "aead_set_nonce")), <<>>)
    \/ InputCall(o, "aead_set_lengths", crypto_caller_aead_set_lengths(pool, Client[o], handle[o], Data(o, "aead_set_lengths")), <<>>)
    \/ InputCall(o, "aead_update_ad", crypto_caller_aead_update_ad(pool, Client[o], handle[o], Data(o, "aead_update_ad")), <<>>)
    \/ InputCall(o, "aead_update", crypto_caller_aead_update(pool, Client[o], handle[o], Data(o, "aead_update")), abort.aead)
    \/ FinishCall(o, "aead_finish", crypto_caller_aead_finish(pool, Client[o], handle[o]), abort.aead)
    \/ FinishCall(o, "aead_verify", crypto_caller_aead_verify(pool, Client[o], handle[o]), abort.aead)
    \/ AbortCall(o, "aead_abort", crypto_caller_aead_abort(pool, Client[o], handle[o]))

psa_key_derivation(o) ==
    \/ SetupCall(o, "key_derivation_setup", crypto_caller_key_derivation_setup(pool, Client[o]))
    \/ InputCall(o, "key_derivation_get_capacity", crypto_caller_key_derivation_get_capacity(pool, Client[o], handle[o], Data(o, "key_derivation_get_capacity")), <<>>)
    \/ InputCall(o, "key_derivation_set_capacity", crypto_caller_key_derivation_set_capacity(pool, Client[o], handle[o], Data(o, "key_derivation_set_capacity")), <<>>)
    \/ InputCall(o, "key_derivation_input_bytes", crypto_caller_key_derivation_input_bytes(pool, Client[o], handle[o], Data(o, "key_derivation_input_bytes")), <<>>)
    \/ InputCall(o, "key_derivation_input_key", crypto_caller_key_derivation_input_key(pool, Client[o], handle[o], Data(o, "key_derivation_input_key")), <<>>)
    \/ InputCall(o, "key_derivation_output_bytes", crypto_caller_key_derivation_output_bytes(pool, Client[o], handle[o], Data(o, "key_derivation_output_bytes")), <<>>)
    \/ InputCall(o, "key_derivation_output_key", crypto_caller_key_derivation_output_key(pool, Client[o], handle[o], Data(o, "key_derivation_output_key")), <<>>)
    \/ InputCall(o, "key_derivation_key_agreement", crypto_caller_key_derivation_key_agreement(pool, Client[o], handle[o], Data(o, "key_derivation_key_agreement")), <<>>)
    \/ AbortCall(o, "key_derivation_abort", crypto_caller_key_derivation_abort(pool, Client[o], handle[o]))

-----------------------------------------------------------------------------
(***************************************************************************)
(* The one-shot functions, as the sequences of calls they make if all are  *)
(* successful.  multi_*_update makes as many updates as the input needs.   *)
(***************************************************************************)
Updates(call) == {[i \in 1 .. n |-> call] : n \in 0 .. MaxUpdates[service]}

psa_hash_compute == {<<"hash_setup">> \o u \o <<"hash_finish">> : u \in Updates("hash_update")}
psa_hash_compare == {<<"hash_setup">> \o u \o <<"hash_verify">> : u \in Updates("hash_update")}
psa_mac_compute == {<<"mac_setup">> \o u \o <<"mac_sign_finish">> : u \in Updates("mac_update")}
psa_mac_verify == {<<"mac_setup">> \o u \o <<"mac_verify_finish">> : u \in Updates("mac_update")}
psa_cipher_encrypt == {<<"cipher_setup", "cipher_generate_iv">> \o u \o <<"cipher_finish">> : u \in Updates("cipher_update")}
psa_cipher_decrypt == {<<"cipher_setup", "cipher_set_iv">> \o u \o <<"cipher_finish">> : u \in Updates("cipher_update")}

AeadInput == {<<"aead_setup", "aead_set_lengths", "aead_set_nonce">> \o a \o u
                : a \in Updates("aead_update_ad"), u \in Updates("aead_update")}

\* If the tag does not fit behind the ciphertext the operation is aborted although it has been finished.
psa_aead_encrypt == {i \o f : i \in AeadInput, f \in {<<"aead_finish">>, <<"aead_finish", "aead_abort">>}}
psa_aead_decrypt == {i \o <<"aead_verify">> : i \in AeadInput}

Programs ==
    CASE service = "hash" -> psa_hash_compute \cup psa_hash_compare
      [] service = "mac" -> psa_mac_compute \cup psa_mac_verify
      [] service = "cipher" -> psa_cipher_encrypt \cup psa_cipher_decrypt
      [] service = "aead" -> psa_aead_encrypt \cup psa_aead_decrypt
      [] OTHER -> {}

OneShot(o) ==
    /\ o \in OneShots /\ Free(o) /\ handle[o] = 0 /\ pool.allocs < MaxAllocs[service]
    /\ \E p \in Programs : todo' = [todo EXCEPT ![o] = p]
    /\ UNCHANGED <<service, pool, handle, view>>

\* The buffers given to a cipher function turn out to be too small between two calls.
GiveUp(o) ==
    /\ service = "cipher" /\ ~Free(o) /\ handle[o] # 0 /\ Head(todo[o]) # "cipher_abort"
    /\ todo' = [todo EXCEPT ![o] = IF Head(@) = "cipher_finish" THEN abort.cipher \o abort.cipher ELSE abort.cipher]
    /\ UNCHANGED <<service, pool, handle, view>>

\* The operation object is initialized anew by the client, or its one-shot function has returned.
Discard(o) ==
    /\ Free(o) /\ handle[o] # 0
    /\ handle' = [handle EXCEPT ![o] = 0]
    /\ view' = [view EXCEPT ![o] = None]
    /\ UNCHANGED <<service, pool, todo>>

-----------------------------------------------------------------------------
Init ==
    /\ service \in Services
    /\ pool = crypto_context_pool_init
    /\ handle = [o \in Operations |-> 0]
    /\ todo = [o \in Operations |-> <<>>]
    /\ view = [o \in Operations |-> None]

Next ==
    \E o \in Operations :
        \/ service = "hash" /\ psa_hash(o)
        \/ service = "mac" /\ psa_mac(o)
        \/ service = "cipher" /\ psa_cipher(o)
        \/ service = "aead" /\ psa_aead(o)
        \/ service = "key_derivation" /\ psa_key_derivation(o)
        \/ OneShot(o) \/ GiveUp(o) \/ Discard(o)

Spec == Init /\ [][Next]_vars

-----------------------------------------------------------------------------
(***************************************************************************)
(* Properties.                                                             *)
(***************************************************************************)
\* No handle has been given out twice yet.
Unique == pool.allocs <= HandleMax

\* The values that the variables may have.
TypeOK ==
    /\ service \in Services
    /\ pool.recent \in 0 .. HandleMax /\ pool.allocs \in 0 .. MaxAllocs[service]
    /\ Cardinality(pool.active) <= CRYPTO_CONTEXT_POOL_SIZE
    /\ \A x \in pool.active : x.client \in Clients /\ x.handle \in 0 .. HandleMax /\ x.at \in 1 .. pool.allocs
    /\ handle \in [Operations -> 0 .. HandleMax]

(***************************************************************************)
(* The handles of the active contexts are distinct and none of them is 0,  *)
(* which clients take for an operation that is not set up: also when the   *)
(* rolling number has rolled over.                                         *)
(***************************************************************************)
HandlesIdentify ==
    /\ \A x, y \in pool.active : x.handle = y.handle => x = y
    /\ \A x \in pool.active : x.handle # 0

(***************************************************************************)
(* The context that a provider finds for an operation of a client has      *)
(* taken exactly what the client has sent for this operation since it was  *)
(* set up, with a key of this client; so a result is the one of the input. *)
(* An old handle never names a newer operation, as long as no handle has   *)
(* been given out twice.                                                   *)
(***************************************************************************)
OwnContexts ==
    Unique => \A o \in Operations : view[o].state = "live" =>
        \A x \in Found(o) : x.op = [state |-> "active", key |-> Client[o], done |-> view[o].sent]

(***************************************************************************)
(* An operation is lost only to CRYPTO_CONTEXT_POOL_SIZE later ones: what  *)
(* other clients leave behind, and setups that fail, recycle older ones    *)
(* first.                                                                  *)
(***************************************************************************)
RecentSurvive ==
    Unique => \A o \in Operations :
        view[o].state = "live" /\ pool.allocs < view[o].at + CRYPTO_CONTEXT_POOL_SIZE => Found(o) # {}

(***************************************************************************)
(* An operation that has been finished, verified or aborted leaves no      *)
(* context behind that its client could still use.                         *)
(***************************************************************************)
EndedAreGone == Unique => \A o \in Operations : view[o].state = "ended" => Found(o) = {}

(***************************************************************************)
(* Both: crypto_context_pool_find finds the operations that are in use,    *)
(* if they are recent, and none that has ended.                            *)
(***************************************************************************)
FoundWhileInUse == RecentSurvive /\ EndedAreGone

(***************************************************************************)
(* No input of a client gets into an operation of another one: also when   *)
(* the handles have rolled over and a client still has the handle of an    *)
(* operation that was recycled, which is the handle of another client's    *)
(* operation by now.                                                       *)
(***************************************************************************)
OnlyOwnInputs ==
    \A x \in pool.active :
        /\ x.op.key \in {x.client, Inactive.key}
        /\ \A i \in DOMAIN x.op.done : \E o \in Operations : Client[o] = x.client /\ x.op.done[i][1] = o

(***************************************************************************)
(* Both hold when alloc_op_handle has rolled over: active handles tell     *)
(* operations apart, and a stale one never reaches another client's.       *)
(***************************************************************************)
RollOverSafe == HandlesIdentify /\ OnlyOwnInputs

(***************************************************************************)
(* psa/crypto.h says of psa_hash_abort that the operation object can be    *)
(* used again for another operation by calling psa_hash_setup, which needs *)
(* a handle of 0.                                                          *)
(***************************************************************************)
EndedAreReusable == \A o \in Operations : view[o].state = "ended" => handle[o] = 0
=============================================================================
