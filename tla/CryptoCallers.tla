---------------------------- MODULE CryptoCallers ----------------------------
(***************************************************************************)
(* The client side of the crypto service: one RPC call per function        *)
(* (components/service/crypto/client/caller/packed-c).  The answers are    *)
(* those of the handler, unless the request cannot be sent or the response *)
(* does not fit the buffer of the caller.                                  *)
(***************************************************************************)
EXTENDS CryptoProviders

\* rpc_caller_session_begin may fail, and then nothing is sent.
Sent(pool, answers) == answers \cup {Answer(pool, "ERROR")}

\* A result that is larger than the buffer is lost.
Decoded(answers) ==
    answers \cup {[a EXCEPT !.status = "BUFFER_TOO_SMALL"] : a \in {b \in answers : b.status = "SUCCESS"}}

crypto_caller_hash_setup(pool, client) == Sent(pool, hash_setup_handler(pool, client))
crypto_caller_hash_update(pool, client, handle, input) == Sent(pool, hash_update_handler(pool, client, handle, input))
crypto_caller_hash_finish(pool, client, handle) == Decoded(Sent(pool, hash_finish_handler(pool, client, handle)))
crypto_caller_hash_abort(pool, client, handle) == Sent(pool, hash_abort_handler(pool, client, handle))
crypto_caller_hash_verify(pool, client, handle) == Sent(pool, hash_verify_handler(pool, client, handle))
crypto_caller_hash_clone(pool, client, handle) == Sent(pool, hash_clone_handler(pool, client, handle))

common_mac_setup(pool, client) == Sent(pool, mac_setup_handler(pool, client))
crypto_caller_mac_update(pool, client, handle, input) == Sent(pool, mac_update_handler(pool, client, handle, input))
crypto_caller_mac_sign_finish(pool, client, handle) == Decoded(Sent(pool, mac_sign_finish_handler(pool, client, handle)))
crypto_caller_mac_verify_finish(pool, client, handle) == Sent(pool, mac_verify_finish_handler(pool, client, handle))
crypto_caller_mac_abort(pool, client, handle) == Sent(pool, mac_abort_handler(pool, client, handle))

common_cipher_setup(pool, client) == Sent(pool, cipher_setup_handler(pool, client))
crypto_caller_cipher_generate_iv(pool, client, handle, input) == Decoded(Sent(pool, cipher_generate_iv_handler(pool, client, handle, input)))
crypto_caller_cipher_set_iv(pool, client, handle, input) == Sent(pool, cipher_set_iv_handler(pool, client, handle, input))
crypto_caller_cipher_update(pool, client, handle, input) == Decoded(Sent(pool, cipher_update_handler(pool, client, handle, input)))
crypto_caller_cipher_finish(pool, client, handle) == Decoded(Sent(pool, cipher_finish_handler(pool, client, handle)))
crypto_caller_cipher_abort(pool, client, handle) == Sent(pool, cipher_abort_handler(pool, client, handle))

common_aead_setup(pool, client) == Sent(pool, aead_setup_handler(pool, client))
crypto_caller_aead_generate_nonce(pool, client, handle, input) == Decoded(Sent(pool, aead_generate_nonce_handler(pool, client, handle, input)))
crypto_caller_aead_set_nonce(pool, client, handle, input) == Sent(pool, aead_set_nonce_handler(pool, client, handle, input))
crypto_caller_aead_set_lengths(pool, client, handle, input) == Sent(pool, aead_set_lengths_handler(pool, client, handle, input))
crypto_caller_aead_update_ad(pool, client, handle, input) == Sent(pool, aead_update_ad_handler(pool, client, handle, input))
crypto_caller_aead_update(pool, client, handle, input) == Decoded(Sent(pool, aead_update_handler(pool, client, handle, input)))
crypto_caller_aead_finish(pool, client, handle) == Decoded(Sent(pool, aead_finish_handler(pool, client, handle)))
crypto_caller_aead_verify(pool, client, handle) == Decoded(Sent(pool, aead_verify_handler(pool, client, handle)))
crypto_caller_aead_abort(pool, client, handle) == Sent(pool, aead_abort_handler(pool, client, handle))

crypto_caller_key_derivation_setup(pool, client) == Sent(pool, key_derivation_setup_handler(pool, client))
crypto_caller_key_derivation_get_capacity(pool, client, handle, input) == Sent(pool, key_derivation_get_capacity_handler(pool, client, handle, input))
crypto_caller_key_derivation_set_capacity(pool, client, handle, input) == Sent(pool, key_derivation_set_capacity_handler(pool, client, handle, input))
crypto_caller_key_derivation_input_bytes(pool, client, handle, input) == Sent(pool, key_derivation_input_bytes_handler(pool, client, handle, input))
crypto_caller_key_derivation_input_key(pool, client, handle, input) == Sent(pool, key_derivation_input_key_handler(pool, client, handle, input))
crypto_caller_key_derivation_output_bytes(pool, client, handle, input) == Sent(pool, key_derivation_output_bytes_handler(pool, client, handle, input))
crypto_caller_key_derivation_output_key(pool, client, handle, input) == Sent(pool, key_derivation_output_key_handler(pool, client, handle, input))
crypto_caller_key_derivation_abort(pool, client, handle) == Sent(pool, key_derivation_abort_handler(pool, client, handle))
crypto_caller_key_derivation_key_agreement(pool, client, handle, input) == Sent(pool, key_derivation_key_agreement_handler(pool, client, handle, input))
==============================================================================
