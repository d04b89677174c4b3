----------------------------- MODULE RpmbDevice -----------------------------
(***************************************************************************)
(* The emulated RPMB device (components/service/rpmb/backend/emulated/     *)
(* rpmb_backend_emulated.c) behind the provider of the RPMB service        *)
(* (provider/rpmb_provider.c), and the client of that service (client/     *)
(* rpmb_client.c), whose calls may fail before or after the device has     *)
(* carried out the request.                                                *)
(*                                                                         *)
(* A frame has the type of its request, which the type of its response     *)
(* goes with; `mac' is the key it has been signed with.  A request and its *)
(* response are one synchronous call, so nonces always agree and are left  *)
(* out.                                                                    *)
(***************************************************************************)
EXTENDS BlockDevice

CONSTANTS
    CounterMax,     \* 0xffffffff, the end of the write counter
    AddressMod,     \* 2^16, of the address field
    NoKey

ASSUME RpmbAssumption == CounterMax \in Nat /\ AddressMod \in Nat /\ NumBlocks <= AddressMod

Frame(type, address, counter, data, key) ==
    [type |-> type, op_result |-> "OK", address |-> address, write_counter |-> counter, data |-> data, mac |-> key]

NoData == BlockOf(Zero)

NoFrame == Frame("NONE", 0, 0, NoData, NoKey)

\* A device as it leaves the factory; `result' is the result register.
rpmb_backend_emulated_init ==
    [key |-> NoKey, write_counter |-> 0, buffer |-> [a \in 0 .. NumBlocks - 1 |-> NoData], result |-> NoFrame]

-----------------------------------------------------------------------------
\* The answers of the operations are the device and the response frame.
rpmb_emulated_authentication_key_write(rpmb, request) ==
    LET programmed == rpmb.key # NoKey
    IN  [key |-> IF programmed THEN rpmb.key ELSE request.mac,
         write_counter |-> rpmb.write_counter,
         buffer |-> rpmb.buffer,
         result |-> [NoFrame EXCEPT !.type = "KEY_WRITE", !.op_result = IF programmed THEN "GENERAL_FAILURE" ELSE "OK"]]

rpmb_emulated_read_write_counter(rpmb) ==
    IF rpmb.key = NoKey THEN [NoFrame EXCEPT !.type = "READ_COUNTER", !.op_result = "KEY_NOT_PROGRAMMED"]
    ELSE Frame("READ_COUNTER", 0, rpmb.write_counter, NoData, rpmb.key)

\* Mutant: the write counter of the request is not compared.
check_write_request_Uncounted(rpmb, request) ==
    IF rpmb.write_counter = CounterMax THEN "COUNTER_EXPIRED" ELSE IF request.address >= NumBlocks THEN "ADDRESS_FAILURE"
    ELSE IF request.mac # rpmb.key THEN "AUTHENTICATION_FAILURE" ELSE "OK"

check_write_request(rpmb, request) ==
    IF rpmb.write_counter = CounterMax THEN "COUNTER_EXPIRED"
    ELSE IF request.address >= NumBlocks THEN "ADDRESS_FAILURE"
    ELSE IF request.mac # rpmb.key THEN "AUTHENTICATION_FAILURE"
    ELSE IF request.write_counter # rpmb.write_counter THEN "COUNTER_FAILURE"
    ELSE "OK"

\* The response is signed before its op_result is set: the signature of an error is not valid.
rpmb_emulated_authenticated_data_write(rpmb, request) ==
    LET result == check_write_request(rpmb, request)
        counter == rpmb.write_counter + (IF result = "OK" THEN 1 ELSE 0)
        signed == IF result = "OK" THEN rpmb.key ELSE NoKey
    IN  IF rpmb.key = NoKey
        THEN [rpmb EXCEPT !.result = [NoFrame EXCEPT !.type = "DATA_WRITE", !.op_result = "KEY_NOT_PROGRAMMED"]]
        ELSE [key |-> rpmb.key,
              write_counter |-> counter,
              buffer |-> IF result = "OK" THEN [rpmb.buffer EXCEPT ![request.address] = request.data] ELSE rpmb.buffer,
              result |-> [Frame("DATA_WRITE", request.address, counter, NoData, signed) EXCEPT !.op_result = result]]

\* A read of one block: no frame if the address is out of range.
rpmb_emulated_authenticated_data_read(rpmb, request) ==
    IF rpmb.key = NoKey THEN <<[NoFrame EXCEPT !.type = "DATA_READ", !.op_result = "KEY_NOT_PROGRAMMED"]>>
    ELSE IF request.address >= NumBlocks THEN <<>>
    ELSE <<Frame("DATA_READ", request.address, 0, rpmb.buffer[request.address], rpmb.key)>>

\* One request frame after the other, for [rpmb, frames].
Handled(at, request) ==
    IF request.type = "KEY_WRITE" THEN [at EXCEPT !.rpmb = rpmb_emulated_authentication_key_write(@, request)]
    ELSE IF request.type = "DATA_WRITE" THEN [at EXCEPT !.rpmb = rpmb_emulated_authenticated_data_write(@, request)]
    ELSE IF request.type = "READ_COUNTER" THEN [at EXCEPT !.frames = Append(@, rpmb_emulated_read_write_counter(at.rpmb))]
    ELSE IF request.type = "DATA_READ" THEN [at EXCEPT !.frames = @ \o rpmb_emulated_authenticated_data_read(at.rpmb, request)]
    ELSE [at EXCEPT !.frames = Append(@, at.rpmb.result)]

\* The frontend sends one frame, or two.
rpmb_backend_emulated_data_request(rpmb, requests) ==
    LET first == Handled([rpmb |-> rpmb, frames |-> <<>>], requests[1])
    IN  IF Len(requests) = 1 THEN first ELSE Handled(first, requests[2])

-----------------------------------------------------------------------------
\* The buffers of a request are long enough for its frames.
data_request_handler(rpmb, requests) == rpmb_backend_emulated_data_request(rpmb, requests)

\* The answers to a client: [rpmb, status, frames].
rpmb_client_data_request(rpmb, requests) ==
    LET done == data_request_handler(rpmb, requests)
    IN  {[rpmb |-> done.rpmb, status |-> "SUCCESS", frames |-> done.frames],
         [rpmb |-> done.rpmb, status |-> "ERROR", frames |-> <<>>],
         [rpmb |-> rpmb, status |-> "ERROR", frames |-> <<>>]}
=============================================================================
