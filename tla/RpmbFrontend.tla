---------------------------- MODULE RpmbFrontend ----------------------------
(***************************************************************************)
(* The RPMB frontend (components/service/rpmb/frontend/rpmb_frontend.c)    *)
(* and the block store on top of it (components/service/block_storage/     *)
(* block_store/device/rpmb/rpmb_block_store.c).                            *)
(*                                                                         *)
(* The device of an RPMB block store is [kind, partition, front, rpmb]:    *)
(* the frontend and the device it talks to.  An operation of the frontend  *)
(* gives a set of [dev, status, data]; "ERROR" is any of the failures.      *)
(***************************************************************************)
EXTENDS RpmbDevice

CONSTANTS Key,              \* what rpmb_derive_key gives for this device
          RPMB_WRITE_KEY

FrontAnswer(dev, status, data) == [dev |-> dev, status |-> status, data |-> data]

\* The answers of the device to the requests, with the dev after them.
Asked(dev, requests) ==
    {[dev |-> [dev EXCEPT !.rpmb = a.rpmb], status |-> a.status, frames |-> a.frames]
        : a \in rpmb_client_data_request(dev.rpmb, requests)}

ResultRead == Frame("RESULT_READ", 0, 0, NoData, NoKey)

rpmb_frontend_create(rpmb) ==
    [kind |-> "rpmb", partition |-> block_device_init, rpmb |-> rpmb,
     front |-> [initialized |-> FALSE, block_count |-> 0, write_counter |-> 0]]

rpmb_read_write_counter(dev) ==
    {IF a.status = "SUCCESS" /\ a.frames[1].op_result = "OK" /\ a.frames[1].mac = Key
     THEN FrontAnswer([a.dev EXCEPT !.front.write_counter = a.frames[1].write_counter], "SUCCESS", NoData)
     ELSE FrontAnswer(a.dev, "ERROR", NoData)
        : a \in Asked(dev, <<Frame("READ_COUNTER", 0, 0, NoData, NoKey)>>)}

rpmb_write_key(dev) ==
    {IF a.status = "SUCCESS" /\ a.frames[1].op_result = "OK" THEN FrontAnswer(a.dev, "SUCCESS", NoData)
     ELSE FrontAnswer(a.dev, "ERROR", NoData)
        : a \in Asked(dev, <<Frame("KEY_WRITE", 0, 0, NoData, Key), ResultRead>>)}

\* The key is written if the counter cannot be read, for whatever reason.
rpmb_frontend_init(dev) ==
    LET sized == [dev EXCEPT !.front.block_count = NumBlocks]
        keyed == IF ~RPMB_WRITE_KEY THEN {FrontAnswer(sized, "SUCCESS", NoData)}
                 ELSE UNION {IF a.status = "SUCCESS" THEN {a} ELSE rpmb_write_key(a.dev) : a \in rpmb_read_write_counter(sized)}
        counted == UNION {IF a.status = "SUCCESS" THEN rpmb_read_write_counter(a.dev) ELSE {a} : a \in keyed}
    IN  {FrontAnswer(dev, "ERROR", NoData)}
          \cup {IF a.status = "SUCCESS" THEN FrontAnswer([a.dev EXCEPT !.front.initialized = TRUE], "SUCCESS", NoData) ELSE a
                    : a \in counted}

-----------------------------------------------------------------------------
\* Mutant: the counter is taken to be advanced whatever the answer.
rpmb_frontend_write_Ahead(dev, block_index, block) ==
    LET counter == dev.front.write_counter
    IN  {FrontAnswer([a.dev EXCEPT !.front.write_counter = counter + 1], a.status, NoData)
            : a \in Asked(dev, <<Frame("DATA_WRITE", block_index, counter, block, Key), ResultRead>>)}

\* A write of one block, as the block store makes it: the counter follows the one of an answer that is right.
rpmb_frontend_write(dev, block_index, block) ==
    LET counter == dev.front.write_counter
        Right(a) == /\ a.status = "SUCCESS" /\ a.frames[1].mac = Key /\ a.frames[1].write_counter = counter + 1
                    /\ a.frames[1].address = block_index /\ a.frames[1].op_result = "OK"
    IN  IF ~dev.front.initialized THEN {FrontAnswer(dev, "BAD_STATE", NoData)}
        ELSE IF block_index >= dev.front.block_count THEN {FrontAnswer(dev, "INVALID_ARGUMENT", NoData)}
        ELSE {IF Right(a) THEN FrontAnswer([a.dev EXCEPT !.front.write_counter = counter + 1], "SUCCESS", NoData)
              ELSE FrontAnswer(a.dev, "ERROR", NoData)
                : a \in Asked(dev, <<Frame("DATA_WRITE", block_index, counter, block, Key), ResultRead>>)}

\* A read of one block, as the block store makes it.
rpmb_frontend_read(dev, block_index) ==
    LET Right(a) == /\ a.status = "SUCCESS" /\ Len(a.frames) = 1 /\ a.frames[1].mac = Key
                    /\ a.frames[1].address = block_index /\ a.frames[1].op_result = "OK"
    IN  IF ~dev.front.initialized THEN {FrontAnswer(dev, "BAD_STATE", NoData)}
        ELSE IF block_index >= dev.front.block_count THEN {FrontAnswer(dev, "INVALID_ARGUMENT", NoData)}
        ELSE {IF Right(a) THEN FrontAnswer(a.dev, "SUCCESS", a.frames[1].data) ELSE FrontAnswer(a.dev, "ERROR", NoData)
                : a \in Asked(dev, <<Frame("DATA_READ", block_index, 0, NoData, NoKey)>>)}

-----------------------------------------------------------------------------
rpmb_block_store_read(dev, client, handle, lba, offset, buffer_size) ==
    LET status == DeviceStatus(dev, client, handle, lba, offset)
    IN  IF status # "SUCCESS" THEN Refuse(dev, status)
        ELSE UNION {IF a.status # "SUCCESS" THEN Refuse(a.dev, a.status)
                    ELSE StoreAnswer(a.dev, "SUCCESS", BytesOf(a.data, offset, Least(buffer_size, BlockSize - offset)))
                        : a \in rpmb_frontend_read(dev, lba % AddressMod)}

\* A block that is written in part is read before.
rpmb_block_store_write(dev, client, handle, lba, offset, data) ==
    LET status == DeviceStatus(dev, client, handle, lba, 0)
        copy_length == Least(Len(data), BlockSize - offset)
        temp == IF copy_length = BlockSize THEN {FrontAnswer(dev, "SUCCESS", NoData)} ELSE rpmb_frontend_read(dev, lba % AddressMod)
        written == UNION {IF a.status # "SUCCESS" THEN {a}
                          ELSE rpmb_frontend_write(a.dev, lba % AddressMod, Overwritten(a.data, offset, data)) : a \in temp}
    IN  IF status # "SUCCESS" THEN Refuse(dev, status)
        ELSE UNION {IF a.status # "SUCCESS" THEN Refuse(a.dev, a.status) ELSE StoreAnswer(a.dev, "SUCCESS", copy_length) : a \in written}

rpmb_block_store_erase(dev, client, handle, begin_lba, num_blocks) == StoreAnswer(dev, "SUCCESS", 0)
=============================================================================
