------------------------- MODULE BlockStorageProofs -------------------------
(***************************************************************************)
(* The write counters of RPMB frontend and device, for every instance of   *)
(* BlockStorage.  The invariant says which records a back store is made    *)
(* of, and relates the counters; every operation of a back store is shown  *)
(* to move it from such a record to such a record (Moves), layer by layer  *)
(* from the device up to the service.                                      *)
(***************************************************************************)
EXTENDS BlockStorage, TLAPS

RpmbShape(r) ==
    /\ r = [key |-> r.key, write_counter |-> r.write_counter, buffer |-> r.buffer, result |-> r.result]
    /\ r.write_counter \in Nat

FrontShape(f) ==
    /\ f = [initialized |-> f.initialized, block_count |-> f.block_count, write_counter |-> f.write_counter]
    /\ f.write_counter \in Nat

RpmbRecord(d) ==
    /\ d = [kind |-> "rpmb", partition |-> d.partition, rpmb |-> d.rpmb, front |-> d.front]
    /\ RpmbShape(d.rpmb)
    /\ FrontShape(d.front)

RpmbBack(d) ==
    /\ RpmbRecord(d)
    /\ d.front.initialized => d.rpmb.write_counter - d.front.write_counter \in {0, 1}

RamBack(d) ==
    /\ d = [kind |-> d.kind, partition |-> d.partition, ram_back_store |-> d.ram_back_store]
    /\ d.kind \in {"ram", "encrypted"}

Back(d) == RpmbBack(d) \/ RamBack(d)

Stale(d) == d.kind = "rpmb" /\ d.front.initialized /\ d.rpmb.write_counter # d.front.write_counter

Moves(d, e) == Back(e) /\ e.kind = d.kind /\ (Stale(d) => e.rpmb.buffer = d.rpmb.buffer)

-----------------------------------------------------------------------------
(* An authenticated write of the emulated device either leaves counter and *)
(* buffer alone, or was signed with the counter of the device, which steps *)
(* by one; only then is the result good, and it carries the new counter.   *)
LEMMA DataWriteCounts ==
    ASSUME NEW r, RpmbShape(r), NEW q
    PROVE  /\ RpmbShape(rpmb_emulated_authenticated_data_write(r, q))
           /\ \/ /\ rpmb_emulated_authenticated_data_write(r, q).write_counter = r.write_counter
                 /\ rpmb_emulated_authenticated_data_write(r, q).buffer = r.buffer
              \/ /\ rpmb_emulated_authenticated_data_write(r, q).write_counter = r.write_counter + 1
                 /\ q.write_counter = r.write_counter
           /\ rpmb_emulated_authenticated_data_write(r, q).result.op_result = "OK" =>
                /\ rpmb_emulated_authenticated_data_write(r, q).write_counter = r.write_counter + 1
                /\ rpmb_emulated_authenticated_data_write(r, q).result.write_counter
                        = rpmb_emulated_authenticated_data_write(r, q).write_counter
<1> DEFINE w == rpmb_emulated_authenticated_data_write(r, q)
<1>1. CASE r.key = NoKey
  <2>1. w = [r EXCEPT !.result = [NoFrame EXCEPT !.type = "DATA_WRITE", !.op_result = "KEY_NOT_PROGRAMMED"]]
    BY <1>1 DEF rpmb_emulated_authenticated_data_write
  <2>2. w.result.op_result = "KEY_NOT_PROGRAMMED" /\ w.write_counter = r.write_counter /\ w.buffer = r.buffer /\ RpmbShape(w)
    BY Zenon, <2>1 DEF RpmbShape, NoFrame, Frame
  <2> QED
    BY <2>2
<1>2. CASE r.key # NoKey /\ check_write_request(r, q) = "OK"
  <2>1. q.write_counter = r.write_counter
    BY <1>2 DEF check_write_request
  <2> DEFINE frame == [Frame("DATA_WRITE", q.address, r.write_counter + 1, NoData, r.key) EXCEPT !.op_result = "OK"]
             written == [r.buffer EXCEPT ![q.address] = q.data]
  <2>2. w = [key |-> r.key, write_counter |-> r.write_counter + 1, buffer |-> written, result |-> frame]
    BY <1>2 DEF rpmb_emulated_authenticated_data_write
  <2>3. frame.write_counter = r.write_counter + 1
    BY DEF Frame
  <2> HIDE DEF frame, written, w
  <2>4. w.write_counter = r.write_counter + 1 /\ w.result = frame
    BY <2>2 DEF RpmbShape
  <2>5. RpmbShape(w)
    BY <2>2 DEF RpmbShape
  <2> QED
    BY <2>1, <2>3, <2>4, <2>5 DEF w
<1>3. CASE r.key # NoKey /\ check_write_request(r, q) # "OK"
  <2> DEFINE frame == [Frame("DATA_WRITE", q.address, r.write_counter + 0, NoData, NoKey)
                         EXCEPT !.op_result = check_write_request(r, q)]
  <2>1. w = [key |-> r.key, write_counter |-> r.write_counter + 0, buffer |-> r.buffer, result |-> frame]
    BY <1>3 DEF rpmb_emulated_authenticated_data_write
  <2>2. frame.op_result # "OK"
    BY <1>3 DEF Frame
  <2> HIDE DEF frame, w
  <2>3. w.write_counter = r.write_counter /\ w.buffer = r.buffer /\ w.result = frame
    BY <2>1 DEF RpmbShape
  <2>4. RpmbShape(w)
    BY <2>1 DEF RpmbShape
  <2> QED
    BY <2>2, <2>3, <2>4 DEF w
<1> QED
  BY <1>1, <1>2, <1>3

-----------------------------------------------------------------------------
(* What a request may do to the device: nothing that counts, or one write  *)
(* that was signed with the counter of the device.                         *)
Kept(r, w) == RpmbShape(w) /\ w.write_counter = r.write_counter /\ w.buffer = r.buffer

Stepped(r, w, counter) == RpmbShape(w) /\ w.write_counter = r.write_counter + 1 /\ counter = r.write_counter

(* The second of two frames asks for the result of the first.              *)
LEMMA HandledResult ==
    ASSUME NEW w
    PROVE  Handled([rpmb |-> w, frames |-> <<>>], ResultRead) = [rpmb |-> w, frames |-> <<w.result>>]
<1> DEFINE at == [rpmb |-> w, frames |-> <<>>]
<1>1. ResultRead.type = "RESULT_READ"
  BY DEF ResultRead, Frame
<1>2. Handled(at, ResultRead) = [at EXCEPT !.frames = Append(@, at.rpmb.result)]
  BY <1>1 DEF Handled
<1> QED
  BY <1>2

(* A client that asks for a write, and for its result, keeps the device or *)
(* steps its counter, whether or not the answer arrives; an answer that is *)
(* good tells of a step, and has the counter after it.                     *)
LEMMA RequestWrites ==
    ASSUME NEW r, RpmbShape(r), NEW q, q.type = "DATA_WRITE",
           NEW a \in rpmb_client_data_request(r, <<q, ResultRead>>)
    PROVE  /\ Kept(r, a.rpmb) \/ Stepped(r, a.rpmb, q.write_counter)
           /\ a.status = "SUCCESS" /\ a.frames[1].op_result = "OK" =>
                Stepped(r, a.rpmb, q.write_counter) /\ a.frames[1].write_counter = a.rpmb.write_counter
<1> DEFINE w == rpmb_emulated_authenticated_data_write(r, q)
           first == Handled([rpmb |-> r, frames |-> <<>>], q)
           done == Handled(first, ResultRead)
<1>1. first = [rpmb |-> w, frames |-> <<>>]
  BY DEF Handled
<1>3. done = [rpmb |-> w, frames |-> <<w.result>>]
  BY <1>1, HandledResult
<1>4. data_request_handler(r, <<q, ResultRead>>) = done
  BY DEF data_request_handler, rpmb_backend_emulated_data_request
<1> HIDE DEF done, first, w
<1>5. a \in {[rpmb |-> w, status |-> "SUCCESS", frames |-> <<w.result>>],
             [rpmb |-> w, status |-> "ERROR", frames |-> <<>>],
             [rpmb |-> r, status |-> "ERROR", frames |-> <<>>]}
  BY <1>3, <1>4 DEF rpmb_client_data_request
<1>6. /\ Kept(r, w) \/ Stepped(r, w, q.write_counter)
      /\ w.result.op_result = "OK" => Stepped(r, w, q.write_counter) /\ w.result.write_counter = w.write_counter
  BY DataWriteCounts DEF Kept, Stepped, w, RpmbShape
<1> QED
  BY <1>5, <1>6 DEF Kept

(* A client that asks for anything else keeps counter and buffer.          *)
LEMMA RequestKeeps ==
    ASSUME NEW r, RpmbShape(r), NEW q, q.type \in {"READ_COUNTER", "DATA_READ"},
           NEW a \in rpmb_client_data_request(r, <<q>>)
    PROVE  /\ Kept(r, a.rpmb)
           /\ a.status = "SUCCESS" /\ q.type = "READ_COUNTER" /\ a.frames[1].op_result = "OK" =>
                a.frames[1].write_counter = r.write_counter
<1> DEFINE done == Handled([rpmb |-> r, frames |-> <<>>], q)
           count == rpmb_emulated_read_write_counter(r)
<1>1. data_request_handler(r, <<q>>) = done
  BY DEF data_request_handler, rpmb_backend_emulated_data_request
<1>2. done.rpmb = r
  BY DEF Handled
<1>3. q.type = "READ_COUNTER" => done.frames = <<count>>
  BY DEF Handled
<1>4. count.op_result = "OK" => count.write_counter = r.write_counter
  BY DEF rpmb_emulated_read_write_counter, Frame, NoFrame
<1> HIDE DEF done, count
<1>5. a \in {[rpmb |-> r, status |-> "SUCCESS", frames |-> done.frames],
             [rpmb |-> r, status |-> "ERROR", frames |-> <<>>]}
  BY <1>1, <1>2 DEF rpmb_client_data_request
<1> QED
  BY <1>3, <1>4, <1>5 DEF Kept

(* So does a client that writes the key.                                   *)
LEMMA RequestKeys ==
    ASSUME NEW r, RpmbShape(r), NEW q, q.type = "KEY_WRITE",
           NEW a \in rpmb_client_data_request(r, <<q, ResultRead>>)
    PROVE  Kept(r, a.rpmb)
<1> DEFINE w == rpmb_emulated_authentication_key_write(r, q)
           first == Handled([rpmb |-> r, frames |-> <<>>], q)
           done == Handled(first, ResultRead)
<1>1. first = [rpmb |-> w, frames |-> <<>>]
  BY DEF Handled
<1> HIDE DEF w
<1>3. done.rpmb = w
  <2>1. done = [rpmb |-> w, frames |-> <<w.result>>]
    BY <1>1, HandledResult
  <2> QED
    BY <2>1
<1>4. data_request_handler(r, <<q, ResultRead>>) = done
  BY DEF data_request_handler, rpmb_backend_emulated_data_request
<1>5. Kept(r, w)
  BY DEF Kept, RpmbShape, rpmb_emulated_authentication_key_write, w
<1> HIDE DEF done, first
<1>6. a.rpmb \in {r, w}
  BY <1>1, <1>3, <1>4 DEF rpmb_client_data_request
<1> QED
  BY <1>5, <1>6 DEF Kept

-----------------------------------------------------------------------------
\* A device with this state of the RPMB device and of the frontend.
RpmbWith(d, r, f) == [kind |-> "rpmb", partition |-> d.partition, rpmb |-> r, front |-> f]

(* Only the RPMB device differs after the requests of the frontend.        *)
LEMMA AskedChanges ==
    ASSUME NEW d, RpmbRecord(d), NEW requests, NEW a \in Asked(d, requests)
    PROVE  \E x \in rpmb_client_data_request(d.rpmb, requests) :
                a.dev = RpmbWith(d, x.rpmb, d.front) /\ a.status = x.status /\ a.frames = x.frames
<1>1. PICK x \in rpmb_client_data_request(d.rpmb, requests) :
            a = [dev |-> [d EXCEPT !.rpmb = x.rpmb], status |-> x.status, frames |-> x.frames]
  BY DEF Asked
<1>2. [d EXCEPT !.rpmb = x.rpmb] = RpmbWith(d, x.rpmb, d.front)
  BY DEF RpmbRecord, RpmbWith
<1> QED
  BY <1>1, <1>2

(* A read of the frontend keeps counters and buffer, whatever the answer.  *)
LEMMA FrontReads ==
    ASSUME NEW d, RpmbBack(d), NEW i, NEW a \in rpmb_frontend_read(d, i)
    PROVE  RpmbBack(a.dev) /\ a.dev.rpmb.buffer = d.rpmb.buffer /\ (Stale(d) => Stale(a.dev))
<1> DEFINE q == Frame("DATA_READ", i, 0, NoData, NoKey)
<1>1. CASE a.dev = d
  BY <1>1
<1>2. CASE \E x \in Asked(d, <<q>>) : a.dev = x.dev
  <2>1. PICK x \in Asked(d, <<q>>) : a.dev = x.dev
    BY <1>2
  <2>2. PICK y \in rpmb_client_data_request(d.rpmb, <<q>>) : x.dev = RpmbWith(d, y.rpmb, d.front)
    BY AskedChanges DEF RpmbBack
  <2>3. q.type = "DATA_READ"
    BY DEF Frame
  <2> HIDE DEF q
  <2>4. Kept(d.rpmb, y.rpmb)
    BY <2>3, RequestKeeps DEF RpmbBack, RpmbRecord
  <2> QED
    BY <2>1, <2>2, <2>4 DEF RpmbBack, RpmbRecord, RpmbWith, Kept, Stale
<1> QED
  BY <1>1, <1>2 DEF rpmb_frontend_read, FrontAnswer

(* A write of the frontend leaves its counter equal to the device's, or    *)
(* one behind it; and one that begins behind it writes nothing.            *)
LEMMA FrontWrites ==
    ASSUME NEW d, RpmbBack(d), NEW i, NEW block, NEW a \in rpmb_frontend_write(d, i, block)
    PROVE  Moves(d, a.dev)
<1> DEFINE counter == d.front.write_counter
           q == Frame("DATA_WRITE", i, counter, block, Key)
           Right(x) == x.status = "SUCCESS" /\ x.frames[1].write_counter = counter + 1 /\ x.frames[1].op_result = "OK"
<1>1. CASE a.dev = d
  BY <1>1 DEF Moves, Back, RpmbBack, RpmbRecord
<1>2. CASE d.front.initialized
           /\ \E x \in Asked(d, <<q, ResultRead>>) :
                \/ Right(x) /\ a.dev = [x.dev EXCEPT !.front.write_counter = counter + 1]
                \/ a.dev = x.dev
  <2>1. PICK x \in Asked(d, <<q, ResultRead>>) :
                \/ Right(x) /\ a.dev = [x.dev EXCEPT !.front.write_counter = counter + 1]
                \/ a.dev = x.dev
    BY Zenon, <1>2
  <2>2. PICK y \in rpmb_client_data_request(d.rpmb, <<q, ResultRead>>) :
                x.dev = RpmbWith(d, y.rpmb, d.front) /\ x.status = y.status /\ x.frames = y.frames
    BY AskedChanges DEF RpmbBack
  <2>3. q.type = "DATA_WRITE" /\ q.write_counter = counter
    BY DEF Frame
  <2> HIDE DEF q
  <2>4. /\ Kept(d.rpmb, y.rpmb) \/ Stepped(d.rpmb, y.rpmb, counter)
        /\ y.status = "SUCCESS" /\ y.frames[1].op_result = "OK" =>
             Stepped(d.rpmb, y.rpmb, counter) /\ y.frames[1].write_counter = y.rpmb.write_counter
    BY <2>3, RequestWrites DEF RpmbBack, RpmbRecord
  <2>5. CASE a.dev = x.dev
    BY <1>2, <2>2, <2>4, <2>5 DEF Moves, Back, RpmbBack, RpmbRecord, RpmbWith, Kept, Stepped, Stale, FrontShape
  <2>6. CASE Right(x) /\ a.dev = [x.dev EXCEPT !.front.write_counter = counter + 1]
    <3> DEFINE f == [initialized |-> d.front.initialized, block_count |-> d.front.block_count, write_counter |-> counter + 1]
    <3>1. [d.front EXCEPT !.write_counter = counter + 1] = f
      BY DEF RpmbBack, RpmbRecord, FrontShape
    <3>2. a.dev = RpmbWith(d, y.rpmb, f)
      BY <2>2, <2>6, <3>1 DEF RpmbWith
    <3>3. Stepped(d.rpmb, y.rpmb, counter)
      BY <2>2, <2>4, <2>6
    <3>4. FrontShape(f) /\ f.write_counter = counter + 1
      BY DEF FrontShape, RpmbBack, RpmbRecord
    <3> HIDE DEF f
    <3> QED
      BY <3>2, <3>3, <3>4 DEF Moves, Back, RpmbBack, RpmbRecord, RpmbWith, Stepped, Stale, FrontShape, RpmbShape
  <2> QED
    BY <2>1, <2>5, <2>6
<1>3. CASE ~d.front.initialized \/ i >= d.front.block_count
  BY <1>1, <1>3 DEF rpmb_frontend_write, FrontAnswer
<1>4. CASE d.front.initialized /\ ~(i >= d.front.block_count)
  <2> DEFINE Good(x) == /\ x.status = "SUCCESS" /\ x.frames[1].mac = Key /\ x.frames[1].write_counter = counter + 1
                        /\ x.frames[1].address = i /\ x.frames[1].op_result = "OK"
  <2>1. PICK x \in Asked(d, <<q, ResultRead>>) :
            a = IF Good(x) THEN FrontAnswer([x.dev EXCEPT !.front.write_counter = counter + 1], "SUCCESS", NoData)
                ELSE FrontAnswer(x.dev, "ERROR", NoData)
    BY Zenon, <1>4 DEF rpmb_frontend_write
  <2> HIDE DEF q
  <2>2. \/ Right(x) /\ a.dev = [x.dev EXCEPT !.front.write_counter = counter + 1]
        \/ a.dev = x.dev
    BY <2>1 DEF FrontAnswer
  <2> QED
    BY Zenon, <1>2, <1>4, <2>2
<1> QED
  BY <1>3, <1>4

-----------------------------------------------------------------------------
\* The device after a step that writes no block.
KeepsBuffer(d, e) == RpmbBack(e) /\ e.rpmb.buffer = d.rpmb.buffer

(* A frontend that reads the counter has the counter of the device.        *)
LEMMA CounterReads ==
    ASSUME NEW d, RpmbBack(d), NEW a \in rpmb_read_write_counter(d)
    PROVE  KeepsBuffer(d, a.dev) /\ (a.status = "SUCCESS" => a.dev.front.write_counter = a.dev.rpmb.write_counter)
<1> DEFINE q == Frame("READ_COUNTER", 0, 0, NoData, NoKey)
           Good(x) == x.status = "SUCCESS" /\ x.frames[1].op_result = "OK" /\ x.frames[1].mac = Key
<1>1. PICK x \in Asked(d, <<q>>) :
            a = IF Good(x) THEN FrontAnswer([x.dev EXCEPT !.front.write_counter = x.frames[1].write_counter], "SUCCESS", NoData)
                ELSE FrontAnswer(x.dev, "ERROR", NoData)
  BY Zenon DEF rpmb_read_write_counter
<1>2. PICK y \in rpmb_client_data_request(d.rpmb, <<q>>) :
            x.dev = RpmbWith(d, y.rpmb, d.front) /\ x.status = y.status /\ x.frames = y.frames
  BY AskedChanges DEF RpmbBack
<1>3. q.type = "READ_COUNTER"
  BY DEF Frame
<1> HIDE DEF q
<1>4. /\ Kept(d.rpmb, y.rpmb)
      /\ y.status = "SUCCESS" /\ y.frames[1].op_result = "OK" => y.frames[1].write_counter = d.rpmb.write_counter
  BY <1>3, RequestKeeps DEF RpmbBack, RpmbRecord
<1>5. CASE ~Good(x)
  <2>1. a.dev = RpmbWith(d, y.rpmb, d.front) /\ a.status = "ERROR"
    BY <1>1, <1>2, <1>5 DEF FrontAnswer
  <2> QED
    BY <1>4, <2>1 DEF KeepsBuffer, RpmbBack, RpmbRecord, RpmbWith, Kept
<1>6. CASE Good(x)
  <2> DEFINE counter == d.rpmb.write_counter
             f == [initialized |-> d.front.initialized, block_count |-> d.front.block_count, write_counter |-> counter]
  <2>1. [d.front EXCEPT !.write_counter = counter] = f
    BY DEF RpmbBack, RpmbRecord, FrontShape
  <2>2. a.dev = [x.dev EXCEPT !.front.write_counter = counter]
    BY <1>1, <1>2, <1>4, <1>6 DEF FrontAnswer
  <2>3. a.dev = RpmbWith(d, y.rpmb, f)
    BY <1>2, <2>1, <2>2 DEF RpmbWith
  <2>4. FrontShape(f) /\ f.write_counter = counter
    BY DEF FrontShape, RpmbBack, RpmbRecord, RpmbShape
  <2> HIDE DEF f
  <2> QED
    BY <1>4, <2>3, <2>4 DEF KeepsBuffer, RpmbBack, RpmbRecord, RpmbWith, Kept, RpmbShape
<1> QED
  BY <1>5, <1>6

(* Writing the key writes no block and counts nothing.                     *)
LEMMA KeyWrites ==
    ASSUME NEW d, RpmbBack(d), NEW a \in rpmb_write_key(d)
    PROVE  KeepsBuffer(d, a.dev)
<1> DEFINE q == Frame("KEY_WRITE", 0, 0, NoData, Key)
<1>1. PICK x \in Asked(d, <<q, ResultRead>>) : a.dev = x.dev
  BY DEF rpmb_write_key, FrontAnswer
<1>2. PICK y \in rpmb_client_data_request(d.rpmb, <<q, ResultRead>>) : x.dev = RpmbWith(d, y.rpmb, d.front)
  BY AskedChanges DEF RpmbBack
<1>3. q.type = "KEY_WRITE"
  BY DEF Frame
<1> HIDE DEF q
<1>4. Kept(d.rpmb, y.rpmb)
  BY <1>3, RequestKeys DEF RpmbBack, RpmbRecord
<1> QED
  BY <1>1, <1>2, <1>4 DEF KeepsBuffer, RpmbBack, RpmbRecord, RpmbWith, Kept

(* A frontend that has the counter of the device may be marked initialized. *)
LEMMA MarkedInitialized ==
    ASSUME NEW d, RpmbBack(d), d.front.write_counter = d.rpmb.write_counter, NEW mark
    PROVE  KeepsBuffer(d, [d EXCEPT !.front.initialized = mark])
<1> DEFINE f == [initialized |-> mark, block_count |-> d.front.block_count, write_counter |-> d.front.write_counter]
<1>1. [d.front EXCEPT !.initialized = mark] = f
  BY DEF RpmbBack, RpmbRecord, FrontShape
<1>2. [d EXCEPT !.front.initialized = mark] = RpmbWith(d, d.rpmb, f)
  BY <1>1 DEF RpmbBack, RpmbRecord, RpmbWith
<1>3. FrontShape(f) /\ f.write_counter = d.rpmb.write_counter
  BY DEF FrontShape, RpmbBack, RpmbRecord
<1> HIDE DEF f
<1> QED
  BY <1>2, <1>3 DEF KeepsBuffer, RpmbBack, RpmbRecord, RpmbWith, RpmbShape

(* A frontend is initialized with the counter of the device.               *)
LEMMA FrontInits ==
    ASSUME NEW d, RpmbBack(d), NEW a \in rpmb_frontend_init(d)
    PROVE  KeepsBuffer(d, a.dev)
<1> DEFINE sized == [d EXCEPT !.front.block_count = NumBlocks]
           keyed == IF ~RPMB_WRITE_KEY THEN {FrontAnswer(sized, "SUCCESS", NoData)}
                    ELSE UNION {IF b.status = "SUCCESS" THEN {b} ELSE rpmb_write_key(b.dev) : b \in rpmb_read_write_counter(sized)}
           counted == UNION {IF b.status = "SUCCESS" THEN rpmb_read_write_counter(b.dev) ELSE {b} : b \in keyed}
<1>1. KeepsBuffer(d, sized)
  <2> DEFINE f == [initialized |-> d.front.initialized, block_count |-> NumBlocks, write_counter |-> d.front.write_counter]
  <2>1. [d.front EXCEPT !.block_count = NumBlocks] = f
    BY DEF RpmbBack, RpmbRecord, FrontShape
  <2>2. sized = RpmbWith(d, d.rpmb, f)
    BY <2>1 DEF RpmbBack, RpmbRecord, RpmbWith
  <2>3. FrontShape(f) /\ f.write_counter = d.front.write_counter /\ f.initialized = d.front.initialized
    BY DEF FrontShape, RpmbBack, RpmbRecord
  <2> HIDE DEF f
  <2> QED
    BY <2>2, <2>3 DEF KeepsBuffer, RpmbBack, RpmbRecord, RpmbWith
<1> HIDE DEF sized
<1>2. \A b \in keyed : KeepsBuffer(d, b.dev)
  <2>1. CASE ~RPMB_WRITE_KEY
    BY <1>1, <2>1 DEF FrontAnswer
  <2>2. CASE RPMB_WRITE_KEY
    <3>1. SUFFICES ASSUME NEW b \in rpmb_read_write_counter(sized),
                          NEW e \in IF b.status = "SUCCESS" THEN {b} ELSE rpmb_write_key(b.dev)
                   PROVE  KeepsBuffer(d, e.dev)
      BY <2>2
    <3>2. KeepsBuffer(sized, b.dev)
      BY <1>1, CounterReads DEF KeepsBuffer
    <3> QED
      BY <1>1, <3>1, <3>2, KeyWrites DEF KeepsBuffer
  <2> QED
    BY <2>1, <2>2
<1> HIDE DEF keyed
<1>3. \A b \in counted : KeepsBuffer(d, b.dev) /\ (b.status = "SUCCESS" => b.dev.front.write_counter = b.dev.rpmb.write_counter)
  <2>1. SUFFICES ASSUME NEW b \in keyed, NEW e \in IF b.status = "SUCCESS" THEN rpmb_read_write_counter(b.dev) ELSE {b}
                 PROVE  KeepsBuffer(d, e.dev) /\ (e.status = "SUCCESS" => e.dev.front.write_counter = e.dev.rpmb.write_counter)
    OBVIOUS
  <2> QED
    BY <1>2, <2>1, CounterReads DEF KeepsBuffer
<1> HIDE DEF counted
<1>4. CASE a = FrontAnswer(d, "ERROR", NoData)
  BY <1>4 DEF FrontAnswer, KeepsBuffer
<1>5. ASSUME NEW b \in counted,
             a = IF b.status = "SUCCESS" THEN FrontAnswer([b.dev EXCEPT !.front.initialized = TRUE], "SUCCESS", NoData) ELSE b
      PROVE  KeepsBuffer(d, a.dev)
  BY Zenon, <1>3, <1>5, MarkedInitialized DEF KeepsBuffer, FrontAnswer
<1> QED
  BY Zenon, <1>4, <1>5 DEF rpmb_frontend_init, counted, keyed, sized

-----------------------------------------------------------------------------
AnswerShape(a) == a = [store |-> a.store, status |-> a.status, out |-> a.out]

\* Every answer leaves the back store in a state that it may move to.
AllMove(d, answers) == \A a \in answers : AnswerShape(a) /\ Moves(d, a.store)

(* A back store that stays as it is moves, and so does one that keeps what *)
(* is on an RPMB device.                                                   *)
LEMMA StaysMoves ==
    ASSUME NEW d, Back(d)
    PROVE  /\ Moves(d, d)
           /\ \A status, out : AllMove(d, StoreAnswer(d, status, out)) /\ AllMove(d, Refuse(d, status))
           /\ RpmbBack(d) => \A e : KeepsBuffer(d, e) => Moves(d, e)
<1>1. Moves(d, d)
  BY DEF Moves
<1>2. \A status, out : AllMove(d, StoreAnswer(d, status, out)) /\ AllMove(d, Refuse(d, status))
  BY <1>1 DEF AllMove, StoreAnswer, Refuse, AnswerShape
<1>3. RpmbBack(d) => \A e : KeepsBuffer(d, e) => Moves(d, e)
  BY DEF KeepsBuffer, Moves, Back, RpmbBack, RpmbRecord
<1> QED
  BY <1>1, <1>2, <1>3

(* The operations of the RPMB block store move it.                         *)
LEMMA RpmbStoreMoves ==
    ASSUME NEW d, RpmbBack(d), NEW client, NEW handle, NEW lba, NEW offset, NEW len, NEW data
    PROVE  /\ AllMove(d, rpmb_block_store_read(d, client, handle, lba, offset, len))
           /\ AllMove(d, rpmb_block_store_write(d, client, handle, lba, offset, data))
           /\ AllMove(d, rpmb_block_store_erase(d, client, handle, lba, len))
<1> DEFINE i == lba % AddressMod
<1> Back(d)
  BY DEF Back
<1>1. AllMove(d, rpmb_block_store_erase(d, client, handle, lba, len))
  BY StaysMoves DEF rpmb_block_store_erase
<1>2. AllMove(d, rpmb_block_store_read(d, client, handle, lba, offset, len))
  <2> DEFINE Answers(a) == IF a.status # "SUCCESS" THEN Refuse(a.dev, a.status)
                           ELSE StoreAnswer(a.dev, "SUCCESS", BytesOf(a.data, offset, Least(len, BlockSize - offset)))
  <2>1. ASSUME NEW a \in rpmb_frontend_read(d, i)
        PROVE  AllMove(d, Answers(a))
    <3>1. Moves(d, a.dev)
      BY FrontReads, StaysMoves DEF KeepsBuffer
    <3> QED
      BY <3>1 DEF AllMove, Refuse, StoreAnswer, AnswerShape
  <2>2. AllMove(d, UNION {Answers(a) : a \in rpmb_frontend_read(d, i)})
    BY <2>1 DEF AllMove
  <2> QED
    BY <2>2, StaysMoves DEF rpmb_block_store_read
<1>3. AllMove(d, rpmb_block_store_write(d, client, handle, lba, offset, data))
  <2> DEFINE copy_length == Least(Len(data), BlockSize - offset)
             temp == IF copy_length = BlockSize THEN {FrontAnswer(d, "SUCCESS", NoData)} ELSE rpmb_frontend_read(d, i)
             Writes(a) == IF a.status # "SUCCESS" THEN {a} ELSE rpmb_frontend_write(a.dev, i, Overwritten(a.data, offset, data))
             written == UNION {Writes(a) : a \in temp}
             Answers(a) == IF a.status # "SUCCESS" THEN Refuse(a.dev, a.status) ELSE StoreAnswer(a.dev, "SUCCESS", copy_length)
  <2>1. \A a \in temp : KeepsBuffer(d, a.dev) /\ (Stale(d) => Stale(a.dev))
    BY FrontReads DEF FrontAnswer, KeepsBuffer
  <2> HIDE DEF temp
  <2>2. ASSUME NEW a \in temp, NEW b \in Writes(a)
        PROVE  Moves(d, b.dev)
    <3>1. CASE a.status # "SUCCESS"
      BY <2>1, <2>2, <3>1, StaysMoves
    <3>2. CASE a.status = "SUCCESS"
      <4>1. RpmbBack(a.dev) /\ a.dev.rpmb.buffer = d.rpmb.buffer /\ (Stale(d) => Stale(a.dev))
        BY <2>1 DEF KeepsBuffer
      <4>2. Moves(a.dev, b.dev)
        BY <2>2, <3>2, <4>1, FrontWrites
      <4> QED
        BY <4>1, <4>2 DEF Moves, RpmbBack, RpmbRecord
    <3> QED
      BY <3>1, <3>2
  <2>3. \A a \in written : AllMove(d, Answers(a))
    BY <2>2 DEF AllMove, Refuse, StoreAnswer, AnswerShape
  <2> HIDE DEF written
  <2>4. AllMove(d, UNION {Answers(a) : a \in written})
    BY <2>3 DEF AllMove
  <2> QED
    BY <2>4, StaysMoves DEF rpmb_block_store_write, written, temp
<1> QED
  BY <1>1, <1>2, <1>3

(* The operations of a RAM device, plain or encrypted, move it.            *)
LEMMA RamStoreMoves ==
    ASSUME NEW d, RamBack(d), NEW client, NEW handle, NEW lba, NEW offset, NEW len, NEW data
    PROVE  /\ AllMove(d, ram_block_store_read(d, client, handle, lba, offset, len))
           /\ AllMove(d, ram_block_store_write(d, client, handle, lba, offset, data))
           /\ AllMove(d, ram_block_store_erase(d, client, handle, lba, len))
<1> Back(d)
  BY DEF Back
<1>1. ASSUME NEW contents, NEW status, NEW out
      PROVE  AllMove(d, StoreAnswer([d EXCEPT !.ram_back_store = contents], status, out))
  <2>1. [d EXCEPT !.ram_back_store = contents] = [kind |-> d.kind, partition |-> d.partition, ram_back_store |-> contents]
    BY DEF RamBack
  <2>2. Moves(d, [d EXCEPT !.ram_back_store = contents])
    BY <2>1 DEF Moves, Back, RamBack, Stale
  <2> QED
    BY <2>2 DEF AllMove, StoreAnswer, AnswerShape
<1>2. AllMove(d, ram_block_store_read(d, client, handle, lba, offset, len))
  BY StaysMoves DEF ram_block_store_read
<1>3. AllMove(d, ram_block_store_write(d, client, handle, lba, offset, data))
  <2> DEFINE contents == [d.ram_back_store EXCEPT ![lba] = Overwritten(@, offset, data)]
  <2>1. [d EXCEPT !.ram_back_store[lba] = Overwritten(@, offset, data)] = [d EXCEPT !.ram_back_store = contents]
    OBVIOUS
  <2> HIDE DEF contents
  <2> QED
    BY Zenon, <1>1, <2>1, StaysMoves DEF ram_block_store_write
<1>4. AllMove(d, ram_block_store_erase(d, client, handle, lba, len))
  BY Zenon, <1>1, StaysMoves DEF ram_block_store_erase
<1> QED
  BY <1>2, <1>3, <1>4

(* An encrypted store reads a block before it writes it.                   *)
LEMMA EncryptedStoreMoves ==
    ASSUME NEW d, RamBack(d), NEW client, NEW handle, NEW lba, NEW offset, NEW len, NEW data
    PROVE  /\ AllMove(d, encrypted_block_store_read(d, client, handle, lba, offset, len))
           /\ AllMove(d, encrypted_block_store_write(d, client, handle, lba, offset, data))
           /\ AllMove(d, encrypted_block_store_erase(d, client, handle, lba, len))
<1> Back(d)
  BY DEF Back
<1>1. AllMove(d, encrypted_block_store_erase(d, client, handle, lba, len))
  BY RamStoreMoves DEF encrypted_block_store_erase
<1>2. ASSUME NEW at
      PROVE  AllMove(d, internal_encrypted_block_store_read(d, client, handle, lba, at))
  <2> DEFINE Answers(a) == IF a.status # "SUCCESS" THEN Refuse(d, a.status)
                           ELSE IF Len(a.out) # BlockSize THEN Refuse(d, "INSUFFICIENT_DATA")
                           ELSE Refuse(d, "GENERIC_ERROR") \cup StoreAnswer(d, "SUCCESS", decrypt_block(lba, a.out))
             blocks == ram_block_store_read(d, client, handle, lba, 0, BlockSize)
  <2>1. \A a \in blocks : AllMove(d, Answers(a))
    BY Zenon, StaysMoves DEF AllMove
  <2> HIDE DEF blocks
  <2>2. AllMove(d, UNION {Answers(a) : a \in blocks})
    BY <2>1 DEF AllMove
  <2> QED
    BY <2>2, StaysMoves DEF internal_encrypted_block_store_read, blocks
<1>3. AllMove(d, encrypted_block_store_read(d, client, handle, lba, offset, len))
  BY <1>2 DEF encrypted_block_store_read, AllMove, AnswerShape
<1>4. AllMove(d, encrypted_block_store_write(d, client, handle, lba, offset, data))
  <2> DEFINE Stored(text) == ram_block_store_write(d, client, handle, lba, 0, encrypt_block(lba, text))
             Told(w) == IF w.status = "SUCCESS" /\ w.out # BlockSize THEN [w EXCEPT !.status = "INSUFFICIENT_DATA", !.out = 0]
                        ELSE IF w.status = "SUCCESS" THEN [w EXCEPT !.out = Least(Len(data), BlockSize - offset)] ELSE w
             Written(text) == Refuse(d, "GENERIC_ERROR") \cup {Told(w) : w \in Stored(text)}
             Answers(a) == IF a.status # "SUCCESS" THEN {a} ELSE Written(Overwritten(a.out, offset, data))
             read == internal_encrypted_block_store_read(d, client, handle, lba, 0)
  <2>1. ASSUME NEW w, AnswerShape(w)
        PROVE  AnswerShape(Told(w)) /\ Told(w).store = w.store
    BY Zenon, <2>1 DEF AnswerShape
  <2>2. ASSUME NEW text
        PROVE  AllMove(d, Written(text))
    <3>1. AllMove(d, Stored(text))
      BY RamStoreMoves
    <3> HIDE DEF Told, Stored
    <3> QED
      BY <2>1, <3>1, StaysMoves DEF AllMove
  <2>3. AllMove(d, read)
    BY <1>2
  <2> HIDE DEF Written, read
  <2>4. \A a \in read : AllMove(d, Answers(a))
    BY <2>2, <2>3 DEF AllMove
  <2>5. AllMove(d, UNION {Answers(a) : a \in read})
    BY <2>4 DEF AllMove
  <2> QED
    BY Zenon, <2>5, StaysMoves DEF encrypted_block_store_write, Written, read
<1> QED
  BY <1>1, <1>3, <1>4

-----------------------------------------------------------------------------
StoreShape(s) ==
    /\ s = [back |-> s.back, config_listener |-> s.config_listener, partitions |-> s.partitions]
    /\ Back(s.back)

StoreMoves(s, t) == StoreShape(t) /\ Moves(s.back, t.back)

KeepsBack(s, t) == StoreShape(t) /\ t.back = s.back

AllStoreMove(s, answers) == \A a \in answers : AnswerShape(a) /\ StoreMoves(s, a.store)

(* Whatever the kind of the back store, its operations move it.            *)
LEMMA BackMoves ==
    ASSUME NEW d, Back(d), NEW handle, NEW lba, NEW offset, NEW len, NEW data
    PROVE  /\ AllMove(d, back_store_read(d, handle, lba, offset, len))
           /\ AllMove(d, back_store_write(d, handle, lba, offset, data))
           /\ AllMove(d, back_store_erase(d, handle, lba, len))
<1>1. CASE RpmbBack(d)
  <2>1. d.kind = "rpmb"
    BY <1>1 DEF RpmbBack, RpmbRecord
  <2> QED
    BY <1>1, <2>1, RpmbStoreMoves DEF back_store_read, back_store_write, back_store_erase
<1>2. CASE RamBack(d)
  <2>1. d.kind # "rpmb"
    BY <1>2 DEF RamBack
  <2> QED
    BY <1>2, <2>1, RamStoreMoves, EncryptedStoreMoves DEF back_store_read, back_store_write, back_store_erase
<1> QED
  BY <1>1, <1>2 DEF Back

(* An answer of the back store is an answer of the store.                  *)
LEMMA StackedMoves ==
    ASSUME NEW s, StoreShape(s), NEW answers, AllMove(s.back, answers)
    PROVE  AllStoreMove(s, Stacked(s, answers))
<1>1. SUFFICES ASSUME NEW a \in answers
               PROVE  LET b == [a EXCEPT !.store = [s EXCEPT !.back = a.store]]
                      IN  AnswerShape(b) /\ StoreMoves(s, b.store)
  BY Zenon DEF AllStoreMove, Stacked
<1> DEFINE t == [s EXCEPT !.back = a.store]
<1>2. t = [back |-> a.store, config_listener |-> s.config_listener, partitions |-> s.partitions]
  BY DEF StoreShape
<1>3. StoreMoves(s, t)
  BY <1>2 DEF AllMove, StoreMoves, StoreShape, Moves
<1> HIDE DEF t
<1>4. AnswerShape([a EXCEPT !.store = t]) /\ [a EXCEPT !.store = t].store = t
  BY DEF AllMove, AnswerShape
<1> QED
  BY <1>3, <1>4 DEF t

(* A store with the same back store has moved nowhere.                     *)
LEMMA SameBackMoves ==
    ASSUME NEW s, StoreShape(s), NEW t, KeepsBack(s, t)
    PROVE  \A status, out : AllStoreMove(s, StoreAnswer(t, status, out)) /\ AllStoreMove(s, Refuse(t, status))
<1>1. StoreMoves(s, t)
  BY StaysMoves DEF StoreMoves, StoreShape, KeepsBack
<1> QED
  BY <1>1 DEF AllStoreMove, StoreAnswer, Refuse, AnswerShape

(* A change of the partitions leaves the back store alone.                 *)
LEMMA PartitionsKeep ==
    ASSUME NEW s, StoreShape(s), NEW ps
    PROVE  KeepsBack(s, s) /\ KeepsBack(s, [s EXCEPT !.partitions = ps])
<1>1. [s EXCEPT !.partitions = ps] = [back |-> s.back, config_listener |-> s.config_listener, partitions |-> ps]
  BY DEF StoreShape
<1> QED
  BY <1>1 DEF KeepsBack, StoreShape

(* Nor does the configuration of partitions change it.                     *)
LEMMA ListenerKeeps ==
    ASSUME NEW s, StoreShape(s), NEW guid
    PROVE  /\ \A from, to : KeepsBack(s, partitioned_block_store_add_partition(s, guid, from, to))
           /\ KeepsBack(s, gpt_partition_config_listener(s, guid))
           /\ KeepsBack(s, find_by_partition_guid(s, guid))
<1>1. ASSUME NEW from, NEW to
      PROVE  KeepsBack(s, partitioned_block_store_add_partition(s, guid, from, to))
  BY Zenon, PartitionsKeep DEF partitioned_block_store_add_partition
<1>2. KeepsBack(s, gpt_partition_config_listener(s, guid))
  BY Zenon, <1>1, PartitionsKeep DEF gpt_partition_config_listener
<1>3. KeepsBack(s, find_by_partition_guid(s, guid))
  BY Zenon, <1>2, PartitionsKeep DEF find_by_partition_guid
<1> QED
  BY <1>1, <1>2, <1>3

(* Both ways to configure the partitions leave the back store alone.       *)
LEMMA ConfigureKeeps ==
    ASSUME NEW s, StoreShape(s)
    PROVE  KeepsBack(s, ref_partition_configure(s)) /\ KeepsBack(s, gpt_partition_configure(s))
<1>1. KeepsBack(s, ref_partition_configure(s))
  <2> DEFINE first == gpt_partition_config_listener(s, Guids[1])
  <2>1. KeepsBack(s, first)
    BY ListenerKeeps
  <2> HIDE DEF first
  <2>2. KeepsBack(first, gpt_partition_config_listener(first, Guids[2]))
    BY <2>1, ListenerKeeps DEF KeepsBack
  <2> QED
    BY <2>1, <2>2, PartitionsKeep DEF ref_partition_configure, KeepsBack, first
<1>2. KeepsBack(s, gpt_partition_configure(s))
  <2> DEFINE added == add_disk_header_partition(s)
  <2>1. KeepsBack(s, added)
    BY Zenon, ListenerKeeps, PartitionsKeep DEF add_disk_header_partition
  <2> HIDE DEF added
  <2>2. ASSUME NEW listens
        PROVE  KeepsBack(s, [added EXCEPT !.config_listener = listens])
    <3>1. [added EXCEPT !.config_listener = listens]
            = [back |-> added.back, config_listener |-> listens, partitions |-> added.partitions]
      BY <2>1 DEF KeepsBack, StoreShape
    <3> QED
      BY <2>1, <3>1 DEF KeepsBack, StoreShape
  <2> QED
    BY <2>1, <2>2, PartitionsKeep DEF gpt_partition_configure, added
<1> QED
  BY <1>1, <1>2

-----------------------------------------------------------------------------
(* The operations of the partitioned store.                                *)
LEMMA PartitionedMoves ==
    ASSUME NEW s, StoreShape(s), NEW client, NEW guid, NEW handle, NEW lba, NEW offset, NEW len, NEW data
    PROVE  /\ AllStoreMove(s, partitioned_block_store_get_partition_info(s, guid))
           /\ AllStoreMove(s, partitioned_block_store_open(s, client, guid))
           /\ AllStoreMove(s, partitioned_block_store_read(s, client, handle, lba, offset, len))
           /\ AllStoreMove(s, partitioned_block_store_write(s, client, handle, lba, offset, data))
           /\ AllStoreMove(s, partitioned_block_store_erase(s, client, handle, lba, len))
<1> DEFINE found == find_by_partition_guid(s, guid)
<1>1. KeepsBack(s, found)
  BY ListenerKeeps
<1> HIDE DEF found
<1>2. AllStoreMove(s, partitioned_block_store_get_partition_info(s, guid))
  BY <1>1, SameBackMoves DEF partitioned_block_store_get_partition_info, found
<1>3. AllStoreMove(s, partitioned_block_store_open(s, client, guid))
  <2> DEFINE index == FirstMatching(found, guid)
             opened == [found.partitions EXCEPT ![index].acl = storage_partition_acl_authorize(@, client)]
  <2>1. [found EXCEPT !.partitions[index].acl = storage_partition_acl_authorize(@, client)]
            = [found EXCEPT !.partitions = opened]
    BY <1>1 DEF KeepsBack, StoreShape
  <2> HIDE DEF opened, index
  <2>2. KeepsBack(s, [found EXCEPT !.partitions = opened])
    BY <1>1, PartitionsKeep DEF KeepsBack
  <2> QED
    BY <1>1, <2>1, <2>2, SameBackMoves DEF partitioned_block_store_open, found, index
<1>4. \A status : AllStoreMove(s, Refuse(s, status))
  BY Zenon, PartitionsKeep, SameBackMoves
<1>5. Back(s.back)
  BY DEF StoreShape
<1>6. AllStoreMove(s, partitioned_block_store_read(s, client, handle, lba, offset, len))
  BY <1>4, <1>5, BackMoves, StackedMoves DEF partitioned_block_store_read
<1>7. AllStoreMove(s, partitioned_block_store_write(s, client, handle, lba, offset, data))
  BY <1>4, <1>5, BackMoves, StackedMoves DEF partitioned_block_store_write
<1>8. AllStoreMove(s, partitioned_block_store_erase(s, client, handle, lba, len))
  BY <1>4, <1>5, BackMoves, StackedMoves DEF partitioned_block_store_erase
<1> QED
  BY <1>2, <1>3, <1>6, <1>7, <1>8

(* An answer that is lost on its way to the client has still moved the     *)
(* store.                                                                  *)
LEMMA CalledMoves ==
    ASSUME NEW s, StoreShape(s), NEW answers, AllStoreMove(s, answers)
    PROVE  AllStoreMove(s, Called(s, answers))
<1>1. AllStoreMove(s, Refuse(s, "GENERIC_ERROR"))
  BY Zenon, PartitionsKeep, SameBackMoves
<1>2. \A a \in answers : AllStoreMove(s, Refuse(a.store, "GENERIC_ERROR"))
  BY DEF AllStoreMove, AnswerShape, Refuse, StoreAnswer
<1> QED
  BY <1>1, <1>2 DEF Called, AllStoreMove

(* A stack that is not built yet, with the medium of one that has moved.   *)
LEMMA UnbuiltMoves ==
    ASSUME NEW d, Back(d), NEW r, d.kind = "rpmb" => RpmbShape(r) /\ (Stale(d) => r.buffer = d.rpmb.buffer)
    PROVE  StoreShape(Unbuilt(d.kind, r)) /\ Moves(d, Unbuilt(d.kind, r).back)
<1> DEFINE back == Unbuilt(d.kind, r).back
<1>1. CASE d.kind = "rpmb"
  <2>1. Unbuilt(d.kind, r) = [back |-> rpmb_frontend_create(r), config_listener |-> FALSE, partitions |-> <<>>]
    BY <1>1 DEF Unbuilt, partitioned_block_store_init
  <2> DEFINE c == rpmb_frontend_create(r)
             f == [initialized |-> FALSE, block_count |-> 0, write_counter |-> 0]
  <2>2. c = [kind |-> "rpmb", partition |-> block_device_init, rpmb |-> r, front |-> f]
    BY DEF rpmb_frontend_create
  <2>3. FrontShape(f) /\ f.initialized = FALSE
    BY DEF FrontShape
  <2> HIDE DEF c, f
  <2>4. RpmbBack(c) /\ c.kind = "rpmb" /\ c.rpmb = r
    BY <1>1, <2>2, <2>3 DEF RpmbBack, RpmbRecord
  <2> QED
    BY <1>1, <2>1, <2>4 DEF StoreShape, Moves, Back, c
<1>2. CASE d.kind # "rpmb"
  <2> DEFINE c == IF d.kind = "ram" THEN ram_block_store_init ELSE encrypted_block_store_init
  <2>1. Unbuilt(d.kind, r) = [back |-> c, config_listener |-> FALSE, partitions |-> <<>>]
    BY <1>2 DEF Unbuilt, partitioned_block_store_init
  <2>2. d.kind \in {"ram", "encrypted"}
    BY <1>2 DEF Back, RpmbBack, RpmbRecord, RamBack
  <2>3. RamBack(c) /\ c.kind = d.kind
    BY Zenon, <2>2 DEF ram_block_store_init, encrypted_block_store_init, RamBack
  <2> HIDE DEF c
  <2> QED
    BY <1>2, <2>1, <2>3 DEF StoreShape, Moves, Back, Stale
<1> QED
  BY <1>1, <1>2

(* Opening the back store changes its access control list only.            *)
LEMMA OpenedMoves ==
    ASSUME NEW d, NEW e, Moves(d, e)
    PROVE  Moves(d, Opened(e))
<1> DEFINE p == [e.partition EXCEPT !.acl = storage_partition_acl_authorize(@, LocalClient)]
<1>1. CASE RpmbBack(e)
  <2>1. Opened(e) = RpmbWith([partition |-> p], e.rpmb, e.front)
    BY <1>1 DEF Opened, RpmbBack, RpmbRecord, RpmbWith
  <2> HIDE DEF p
  <2> QED
    BY <1>1, <2>1 DEF Moves, Back, RpmbBack, RpmbRecord, RpmbWith
<1>2. CASE RamBack(e)
  <2>1. Opened(e) = [kind |-> e.kind, partition |-> p, ram_back_store |-> e.ram_back_store]
    BY <1>2 DEF Opened, RamBack
  <2> HIDE DEF p
  <2> QED
    BY <1>2, <2>1 DEF Moves, Back, RamBack, Stale
<1> QED
  BY <1>1, <1>2 DEF Moves, Back

-----------------------------------------------------------------------------
(* A step of the service that takes its power moves the store.             *)
LEMMA DownMoves ==
    ASSUME StoreShape(store), NEW r, Down(r),
           store.back.kind = "rpmb" => RpmbShape(r) /\ (Stale(store.back) => r.buffer = store.back.rpmb.buffer)
    PROVE  StoreMoves(store, store')
BY UnbuiltMoves DEF Down, StoreMoves, StoreShape

(* The factories.                                                          *)
LEMMA FactoryMoves ==
    ASSUME StoreShape(store), Factory
    PROVE  StoreMoves(store, store')
<1> DEFINE d == store.back
<1> Back(d) /\ Moves(d, d)
  BY StaysMoves DEF StoreShape
<1>0. ASSUME NEW e, Moves(d, e)
      PROVE  StoreMoves(store, [store EXCEPT !.back = e])
  <2>1. [store EXCEPT !.back = e] = [back |-> e, config_listener |-> store.config_listener, partitions |-> store.partitions]
    BY DEF StoreShape
  <2> QED
    BY <1>0, <2>1 DEF StoreMoves, StoreShape, Moves
<1>1. CASE ref_encrypt_ram_block_store_factory_create
  <2> DEFINE s == [store EXCEPT !.back = Opened(@)]
  <2>1. StoreMoves(store, s)
    BY <1>0, OpenedMoves
  <2> HIDE DEF s
  <2>2. KeepsBack(s, ref_partition_configure(s))
    BY <2>1, ConfigureKeeps DEF StoreMoves
  <2>3. store' = ref_partition_configure(s)
    BY <1>1 DEF ref_encrypt_ram_block_store_factory_create, Up, s
  <2> QED
    BY <2>1, <2>2, <2>3 DEF StoreMoves, KeepsBack
<1>2. CASE ref_ram_gpt_block_store_factory_create
  BY <1>0, <1>2, OpenedMoves DEF ref_ram_gpt_block_store_factory_create
<1>3. CASE rpmb_block_store_factory_create
  <2>1. PICK a \in rpmb_frontend_init(store.back) :
            IF a.status = "SUCCESS" THEN store' = [store EXCEPT !.back = Opened(a.dev)] ELSE store' = Unbuilt("rpmb", a.dev.rpmb)
    BY <1>3 DEF rpmb_block_store_factory_create
  <2>2. d.kind = "rpmb" /\ RpmbBack(d)
    BY <1>3 DEF rpmb_block_store_factory_create, Back, RamBack
  <2>3. KeepsBuffer(d, a.dev)
    BY <2>2, FrontInits
  <2>4. CASE a.status = "SUCCESS"
    BY <1>0, <2>1, <2>2, <2>3, <2>4, OpenedMoves, StaysMoves
  <2>5. CASE a.status # "SUCCESS"
    BY <2>1, <2>2, <2>3, <2>5, UnbuiltMoves DEF KeepsBuffer, RpmbBack, RpmbRecord, StoreMoves
  <2> QED
    BY <2>4, <2>5
<1>4. CASE disk_formatter_clone
  <2>1. PICK a \in back_store_write(store.back, 0, next, 0, [i \in 1 .. BlockSize |-> Image]) :
            store' = [store EXCEPT !.back = a.store] \/ Down(a.store.rpmb)
    BY <1>4 DEF disk_formatter_clone
  <2>2. Moves(d, a.store)
    BY Zenon, BackMoves DEF AllMove
  <2>3. d.kind = "rpmb" => RpmbShape(a.store.rpmb) /\ (Stale(d) => a.store.rpmb.buffer = d.rpmb.buffer)
    BY <2>2 DEF Moves, Back, RamBack, RpmbBack, RpmbRecord
  <2> QED
    BY <1>0, <2>1, <2>2, <2>3, DownMoves
<1>5. CASE Configure
  <2>1. CASE store' = gpt_partition_configure(store)
    BY <2>1, ConfigureKeeps DEF StoreMoves, KeepsBack
  <2>2. CASE Down(Media)
    BY <2>2, DownMoves DEF Media, Back, RamBack, RpmbBack, RpmbRecord
  <2> QED
    BY <1>5, <2>1, <2>2 DEF Configure, Up
<1> QED
  BY <1>1, <1>2, <1>3, <1>4, <1>5 DEF Factory

(* The operations of the volumes.                                          *)
LEMMA VolumeMoves ==
    ASSUME StoreShape(store), NEW v \in Volumes, VolumeCall(v) \/ VolumeStep(v)
    PROVE  StoreMoves(store, store')
<1>0. StoreMoves(store, store)
  BY StaysMoves DEF StoreMoves, StoreShape
<1>1. CASE block_volume_open(v)
  <2>1. PICK a \in Called(store, partitioned_block_store_get_partition_info(store, GuidOf[v])) : store' = a.store
    BY <1>1 DEF block_volume_open, block_storage_client_get_partition_info, get_partition_info_handler
  <2> QED
    BY <2>1, PartitionedMoves, CalledMoves DEF AllStoreMove
<1>2. CASE OpenStep(v)
  <2>1. PICK a \in Called(store, partitioned_block_store_open(store, ClientOf[v], GuidOf[v])) : store' = a.store
    BY <1>2 DEF OpenStep, block_storage_client_open, open_handler
  <2> QED
    BY <2>1, PartitionedMoves, CalledMoves DEF AllStoreMove
<1>3. CASE ReadStep(v)
  <2> DEFINE answers == partitioned_block_store_read(store, ClientOf[v], vol[v].partition_handle,
                            vol[v].file_pos \div BlockSize, vol[v].file_pos % BlockSize, RequestedLen(v))
  <2>1. store' = store \/ \E a \in Called(store, answers) : store' = a.store
    BY Zenon, <1>3 DEF ReadStep, block_storage_client_read, read_handler
  <2>2. AllStoreMove(store, answers)
    BY PartitionedMoves
  <2> HIDE DEF answers
  <2> QED
    BY <1>0, <2>1, <2>2, CalledMoves DEF AllStoreMove
<1>4. CASE WriteStep(v)
  <2> DEFINE bytes == SubSeq(job[v].data, job[v].done + 1, job[v].done + RequestedLen(v))
             answers == partitioned_block_store_write(store, ClientOf[v], vol[v].partition_handle,
                            vol[v].file_pos \div BlockSize, vol[v].file_pos % BlockSize, bytes)
  <2>1. store' = store \/ \E a \in Called(store, answers) : store' = a.store
    BY Zenon, <1>4 DEF WriteStep, block_storage_client_write, write_handler
  <2>2. AllStoreMove(store, answers)
    BY PartitionedMoves
  <2> HIDE DEF answers
  <2> QED
    BY <1>0, <2>1, <2>2, CalledMoves DEF AllStoreMove
<1>5. CASE block_volume_erase(v)
  <2>1. PICK a \in Called(store, partitioned_block_store_erase(store, ClientOf[v], vol[v].partition_handle, 0, UINT32_MAX)) :
                store' = a.store
    BY <1>5 DEF block_volume_erase, block_storage_client_erase, erase_handler
  <2> QED
    BY Zenon, <2>1, PartitionedMoves, CalledMoves DEF AllStoreMove
<1>6. CASE \/ block_volume_close(v)
           \/ \E offset \in SeekTo : block_volume_seek(v, offset)
           \/ \E length \in ReadLengths : block_volume_read(v, length)
           \/ \E buffer \in WritesOf[v] : block_volume_write(v, buffer)
  BY Zenon, <1>0, <1>6 DEF block_volume_close, block_volume_seek, block_volume_read, block_volume_write
<1> QED
  BY <1>1, <1>2, <1>3, <1>4, <1>5, <1>6 DEF VolumeCall, VolumeStep

(* Every step of the service, its power included, moves the store.         *)
LEMMA NextMoves ==
    ASSUME StoreShape(store), [Next]_vars
    PROVE  StoreMoves(store, store')
<1>1. CASE UNCHANGED vars
  BY <1>1, StaysMoves DEF vars, StoreMoves, StoreShape
<1>2. CASE PowerOff
  BY <1>2, DownMoves DEF PowerOff, Media, StoreShape, Back, RamBack, RpmbBack, RpmbRecord
<1> QED
  BY <1>1, <1>2, FactoryMoves, VolumeMoves DEF Next

(* The stack that the service starts from.                                 *)
LEMMA InitShape ==
    ASSUME Init
    PROVE  StoreShape(store)
<1>1. PICK kind \in Kinds : store = Unbuilt(kind, rpmb_backend_emulated_init)
  BY DEF Init
<1>2. RpmbShape(rpmb_backend_emulated_init)
  BY DEF RpmbShape, rpmb_backend_emulated_init
<1>3. CASE kind = "rpmb"
  <2> DEFINE d == rpmb_frontend_create(rpmb_backend_emulated_init)
             f == [initialized |-> FALSE, block_count |-> 0, write_counter |-> 0]
  <2>1. d = [kind |-> "rpmb", partition |-> block_device_init, rpmb |-> rpmb_backend_emulated_init, front |-> f]
    BY DEF rpmb_frontend_create
  <2>2. FrontShape(f) /\ f.initialized = FALSE
    BY DEF FrontShape
  <2> HIDE DEF f, d
  <2>3. Back(d)
    BY <1>2, <2>1, <2>2 DEF Back, RpmbBack, RpmbRecord
  <2>4. store = [back |-> d, config_listener |-> FALSE, partitions |-> <<>>]
    BY <1>1, <1>3 DEF Unbuilt, partitioned_block_store_init, d
  <2> QED
    BY <2>3, <2>4 DEF StoreShape
<1>4. CASE kind # "rpmb"
  <2> DEFINE d == IF kind = "ram" THEN ram_block_store_init ELSE encrypted_block_store_init
  <2>1. Back(d)
    BY Zenon DEF Back, RamBack, ram_block_store_init, encrypted_block_store_init
  <2>2. store = [back |-> d, config_listener |-> FALSE, partitions |-> <<>>]
    BY <1>1, <1>4 DEF Unbuilt, partitioned_block_store_init
  <2> HIDE DEF d
  <2> QED
    BY <2>1, <2>2 DEF StoreShape
<1> QED
  BY <1>3, <1>4

-----------------------------------------------------------------------------
(* The frontend's counter is never ahead of the device's and at most one   *)
(* behind it, whatever is lost between rpmb_client_data_request and the    *)
(* device, for every number of blocks, volumes, clients and starts.        *)
THEOREM CounterTheorem == Spec => []CounterFollows
<1>1. Init => StoreShape(store)
  BY InitShape
<1>2. StoreShape(store) /\ [Next]_vars => StoreShape(store)'
  BY NextMoves DEF StoreMoves
<1>3. StoreShape(store) => CounterFollows
  BY DEF StoreShape, Back, RamBack, RpmbBack, RpmbRecord, CounterFollows, OnRpmb
<1> QED
  BY <1>1, <1>2, <1>3, PTL DEF Spec

(* A frontend that has lost an answer writes nothing until it is           *)
(* initialized again, because check_write_request refuses its counter.     *)
THEOREM StaleTheorem == Spec => StaleWritesNothing
<1>1. Init => StoreShape(store)
  BY InitShape
<1>2. StoreShape(store) /\ [Next]_vars => StoreShape(store)'
  BY NextMoves DEF StoreMoves
<1>3. StoreShape(store) /\ [Next]_vars =>
        [OnRpmb /\ store.back.rpmb.write_counter # store.back.front.write_counter
            => store'.back.kind = "rpmb" /\ store'.back.rpmb.buffer = store.back.rpmb.buffer]_vars
  BY NextMoves DEF StoreMoves, Moves, Stale, OnRpmb
<1> QED
  BY <1>1, <1>2, <1>3, PTL DEF Spec, StaleWritesNothing
=============================================================================
