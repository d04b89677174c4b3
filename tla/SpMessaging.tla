---------------------------- MODULE SpMessaging ----------------------------
(***************************************************************************)
(* Direct messages between secure partitions: libsp (components/messaging/ *)
(* ffa/libsp/sp_messaging.c over ffa.c) with the direct message routing    *)
(* extension (ffa_direct_msg_routing_extension.c) and the message loop of  *)
(* the partitions (deployments/internal-trusted-storage/env/commonsp/      *)
(* its_sp.c; the others have the same one).                                *)
(*                                                                         *)
(* A client of the normal world calls a partition, which may call another. *)
(* Each may ask the client something before it answers: the request goes   *)
(* up the chain of callers on the return channel (RC), as a response with  *)
(* the RC bit, and the answer down again, as a request with the RC bit.    *)
(*                                                                         *)
(* A partition runs from one call of the SPMC to the next in one step.  Of *)
(* a message the routing bits are kept, and `tag', the client's request it *)
(* is about.  Messages have 32-bit words, as those of the ts_rpc callers.  *)
(* Error codes are left out.                                               *)
(***************************************************************************)
EXTENDS Integers

CONSTANTS
    Clients, SPs,
    Entries,        \* by client, the partitions it calls
    Callees,        \* by partition, the partitions it calls
    ClientBits,     \* the routing bits in the requests of clients, "rc" and "err"
    AppBits,        \* those in what a partition's service sends
    SP_ID_INVALID,
    MaxRequests, MaxFaults  \* bounds: requests of each client; calls of the SPMC that fail

ASSUME MessagingAssumption ==
    /\ Clients \cap SPs = {} /\ SP_ID_INVALID \notin Clients \cup SPs
    /\ Entries \in [Clients -> SUBSET SPs] /\ Callees \in [SPs -> SUBSET SPs]
    /\ ClientBits \cup AppBits \subseteq SUBSET {"rc", "err"}
    /\ MaxRequests \in [Clients -> Nat] /\ MaxFaults \in Nat

VARIABLES
    ext,        \* the state of the routing extension of each partition
    pc,         \* where each partition is, and in which call of the SPMC
    job,        \* the request a partition serves: [src, tag], whom it has called yet, if it has asked, what it has got
    inbox,      \* what the call of the SPMC has returned to each partition and client
    caller,     \* whose direct request is with each partition
    client,     \* each client: "idle", "called" or "asked", and its requests so far
    faults

vars == <<ext, pc, job, inbox, caller, client, faults>>

Message(src, dst, bits, tag) == [src |-> src, dst |-> dst, bits |-> bits, tag |-> tag]

NoMessage == Message(SP_ID_INVALID, SP_ID_INVALID, {}, <<>>)

SvcError == Message(SP_ID_INVALID, SP_ID_INVALID, {"failed"}, <<>>)

Job(src, tag) == [src |-> src, tag |-> tag, called |-> FALSE, asked |-> FALSE, got |-> <<>>]

NoJob == Job(SP_ID_INVALID, <<>>)

Context(state, own_id, caller_id, callee_id) ==
    [state |-> state, own_id |-> own_id, caller_id |-> caller_id, callee_id |-> callee_id]

NewExt == Context("idle", SP_ID_INVALID, SP_ID_INVALID, SP_ID_INVALID)

\* At "loop", "serve", "call", "forward", "rc" or "fatal", in "req", "resp", "deny" (a response too), "wait" or "none".
At(place, svc) == [place |-> place, svc |-> svc]

\* The partitions have booted and are in sp_msg_wait.
Init ==
    /\ ext = [s \in SPs |-> NewExt]
    /\ pc = [s \in SPs |-> At("loop", "wait")]
    /\ job = [s \in SPs |-> NoJob]
    /\ inbox = [n \in SPs \cup Clients |-> NoMessage]
    /\ caller = [s \in SPs |-> SP_ID_INVALID]
    /\ client = [c \in Clients |-> [state |-> "idle", at |-> SP_ID_INVALID, requests |-> 0]]
    /\ faults = 0

-----------------------------------------------------------------------------
(* The SPMC, as the calls of ffa.c see it. *)

\* The partition waits for a request, in FFA_MSG_WAIT or after a direct response.
Receptive(s) ==
    /\ pc[s].svc \in {"resp", "deny", "wait"}
    /\ inbox[s] = NoMessage /\ caller[s] = SP_ID_INVALID

\* The call of n fails, and n goes on.
Fails(n) == inbox' = [inbox EXCEPT ![n] = SvcError] /\ UNCHANGED caller

Fault(s) == faults < MaxFaults /\ faults' = faults + 1 /\ Fails(s)

\* The call of n delivers the message, and n goes on when something has come back.
Delivers(n, msg) ==
    inbox' = [m \in DOMAIN inbox |-> IF m = msg.dst THEN msg ELSE IF m = n THEN NoMessage ELSE inbox[m]]

Requested(n, msg) ==
    /\ IF Receptive(msg.dst)
       THEN Delivers(n, msg) /\ caller' = [caller EXCEPT ![msg.dst] = n]
       ELSE Fails(n)
    /\ UNCHANGED faults

ffa_msg_send_direct_req(s, msg) == Requested(s, msg) \/ Fault(s)

\* A response goes to the one whose request is with the partition, and to nobody else.
ffa_msg_send_direct_resp(s, msg) ==
    \/ /\ IF caller[s] = msg.dst
          THEN Delivers(s, msg) /\ caller' = [caller EXCEPT ![s] = SP_ID_INVALID]
          ELSE Fails(s)
       /\ UNCHANGED faults
    \/ Fault(s)

\* The call of one whose request is with the partition ends with an error.
ffa_msg_wait(s) ==
    \/ /\ inbox' = [n \in DOMAIN inbox |-> IF n = s THEN NoMessage ELSE IF n = caller[s] THEN SvcError ELSE inbox[n]]
       /\ caller' = [caller EXCEPT ![s] = SP_ID_INVALID]
       /\ UNCHANGED faults
    \/ Fault(s)

-----------------------------------------------------------------------------
is_rc_message(msg) == "rc" \in msg.bits

is_error_message(msg) == "err" \in msg.bits

\* An error that answers the request.
send_rc_error_message(s, req) == ffa_msg_send_direct_resp(s, Message(req.dst, req.src, {"rc", "err"}, req.tag))

\* Routing bits belong to the extension.
Refused(bits) == bits # {}

Goes(s, place, svc) == pc' = [pc EXCEPT ![s] = At(place, svc)]

Routes(s, changed) == ext' = [ext EXCEPT ![s] = changed]

\* The partition has its caller still, and no callee.
Leaf(e) == Context("leaf", e.own_id, e.caller_id, SP_ID_INVALID)

\* The call that the service has made returns, with the tag of a good answer.
Returns(s, tag) ==
    /\ Goes(s, "serve", "none")
    /\ job' = [job EXCEPT ![s].got = tag]
    /\ inbox' = [inbox EXCEPT ![s] = NoMessage]
    /\ UNCHANGED <<caller, faults>>

-----------------------------------------------------------------------------
(* The message loop. *)

\* What has arrived for a partition that is idle: its service gets a request, an RC message is denied.
request_received_hook(s) ==
    /\ pc[s].place = "loop" /\ inbox[s] \notin {NoMessage, SvcError}
    /\ IF is_rc_message(inbox[s])
       THEN send_rc_error_message(s, inbox[s]) /\ UNCHANGED <<ext, pc, job>>
       ELSE /\ Routes(s, Context("leaf", inbox[s].dst, inbox[s].src, SP_ID_INVALID))
            /\ Goes(s, "serve", "none")
            /\ job' = [job EXCEPT ![s] = Job(inbox[s].src, inbox[s].tag)]
            /\ inbox' = [inbox EXCEPT ![s] = NoMessage]
            /\ UNCHANGED <<caller, faults>>
    /\ UNCHANGED client

\* The loop waits again if a response cannot be sent, and gives up if it cannot wait.
its_sp_main(s) ==
    /\ pc[s].place = "loop" /\ inbox[s] = SvcError
    /\ IF pc[s].svc = "resp" THEN Goes(s, "loop", "wait") /\ ffa_msg_wait(s)
       ELSE Goes(s, "fatal", "none") /\ UNCHANGED <<inbox, caller, faults>>
    /\ UNCHANGED <<ext, job, client>>

\* The response of the service; one with routing bits is refused.
sp_msg_send_direct_resp(s, bits) ==
    /\ pc[s].place = "serve"
    /\ IF Refused(bits)
       THEN Goes(s, "loop", "wait") /\ ffa_msg_wait(s) /\ UNCHANGED ext
       ELSE /\ Routes(s, Context("idle", ext[s].own_id, SP_ID_INVALID, SP_ID_INVALID))
            /\ Goes(s, "loop", "resp")
            /\ ffa_msg_send_direct_resp(s, Message(s, job[s].src, bits, job[s].tag))
    /\ job' = [job EXCEPT ![s] = NoJob]
    /\ UNCHANGED client

-----------------------------------------------------------------------------
(* Calls of other partitions. *)

sp_msg_send_direct_req(s, callee, bits) ==
    /\ pc[s].place = "serve" /\ ~job[s].called
    /\ job' = [job EXCEPT ![s].called = TRUE]
    /\ IF Refused(bits) THEN UNCHANGED <<ext, pc, inbox, caller, faults>>
       ELSE /\ Routes(s, Context("internal", ext[s].own_id, ext[s].caller_id, callee))
            /\ Goes(s, "call", "req")
            /\ ffa_msg_send_direct_req(s, Message(s, callee, bits, job[s].tag))
    /\ UNCHANGED client

\* Mutant: a request on the return channel is taken for the response.
ffa_direct_msg_routing_ext_req_post_hook_Taken(s) ==
    /\ pc[s].place = "call" /\ inbox[s] # NoMessage
    /\ Routes(s, Leaf(ext[s]))
    /\ Returns(s, IF inbox[s] = SvcError THEN <<>> ELSE inbox[s].tag)
    /\ UNCHANGED client

\* What the callee has sent: its response, or a request on the return channel that is forwarded to the caller.
ffa_direct_msg_routing_ext_req_post_hook(s) ==
    LET resp == inbox[s]
    IN  /\ pc[s].place = "call" /\ resp # NoMessage
        /\ IF resp = SvcError \/ (is_rc_message(resp) /\ is_error_message(resp))
           THEN Routes(s, Leaf(ext[s])) /\ Returns(s, <<>>)
           ELSE IF is_rc_message(resp)
           THEN /\ Routes(s, [ext[s] EXCEPT !.state = "forwarding"])
                /\ Goes(s, "forward", "resp")
                /\ ffa_msg_send_direct_resp(s, Message(ext[s].own_id, ext[s].caller_id, resp.bits, resp.tag))
                /\ UNCHANGED job
           ELSE Routes(s, Leaf(ext[s])) /\ Returns(s, resp.tag)
        /\ UNCHANGED client

-----------------------------------------------------------------------------
(* The return channel. *)

\* Mutant: a response of the return channel is taken from anyone.
Expected_Anyone(s) == is_rc_message(inbox[s])

\* Mutant: it is awaited from the callee.
Expected_Callee(s) == is_rc_message(inbox[s]) /\ inbox[s].src = ext[s].callee_id

\* The message that a partition on the return channel waits for.
Expected(s) == is_rc_message(inbox[s]) /\ inbox[s].src = ext[s].caller_id

\* Mutant: anything else is dropped.
deny_unexpected_requests_Silent(s) ==
    /\ pc[s].place \in {"forward", "rc"} /\ inbox[s] \notin {NoMessage, SvcError} /\ ~Expected(s)
    /\ inbox' = [inbox EXCEPT ![s] = NoMessage]
    /\ UNCHANGED <<ext, pc, job, caller, client, faults>>

\* Anything else is answered with an error; if that cannot be sent the partition just waits.
deny_unexpected_requests(s) ==
    /\ pc[s].place \in {"forward", "rc"} /\ inbox[s] # NoMessage
    /\ IF inbox[s] = SvcError
       THEN pc[s].svc = "deny" /\ Goes(s, pc[s].place, "wait") /\ ffa_msg_wait(s)
       ELSE ~Expected(s) /\ Goes(s, pc[s].place, "deny") /\ send_rc_error_message(s, inbox[s])
    /\ UNCHANGED <<ext, job, client>>

\* The call that brought the partition to wait, or the wait itself, has failed.
Lost(s) == inbox[s] = SvcError /\ pc[s].svc # "deny"

\* What the caller has answered goes to the callee, or an error if it could not be asked.
ForwardedDown(s) ==
    LET rc_resp == inbox[s]
    IN  /\ pc[s].place = "forward" /\ rc_resp # NoMessage
        /\ Lost(s) \/ Expected(s)
        /\ Routes(s, IF Lost(s) THEN ext[s] ELSE [ext[s] EXCEPT !.state = "internal"])
        /\ Goes(s, "call", "req")
        /\ ffa_msg_send_direct_req(s, Message(ext[s].own_id, ext[s].callee_id,
                                              IF Lost(s) THEN {"rc", "err"} ELSE rc_resp.bits, rc_resp.tag))
        /\ UNCHANGED <<job, client>>

sp_msg_send_rc_req(s, bits) ==
    /\ pc[s].place = "serve" /\ ~job[s].asked
    /\ job' = [job EXCEPT ![s].asked = TRUE]
    /\ IF Refused(bits) THEN UNCHANGED <<ext, pc, inbox, caller, faults>>
       ELSE /\ Routes(s, [ext[s] EXCEPT !.state = "rc_root"])
            /\ Goes(s, "rc", "resp")
            /\ ffa_msg_send_direct_resp(s, Message(s, job[s].src, bits \cup {"rc"}, job[s].tag))
    /\ UNCHANGED client

ffa_direct_msg_routing_ext_rc_req_post_hook(s) ==
    /\ pc[s].place = "rc" /\ inbox[s] # NoMessage
    /\ Lost(s) \/ Expected(s)
    /\ Routes(s, [ext[s] EXCEPT !.state = "leaf"])
    /\ Returns(s, IF Lost(s) \/ is_error_message(inbox[s]) THEN <<>> ELSE inbox[s].tag)
    /\ UNCHANGED client

-----------------------------------------------------------------------------
(* The clients. *)

Tag(c) == <<c, client[c].requests>>

Request(c, s, bits) ==
    /\ client[c].state = "idle" /\ client[c].requests < MaxRequests[c]
    /\ client' = [client EXCEPT ![c] = [state |-> "called", at |-> s, requests |-> @.requests + 1]]
    /\ Requested(c, Message(c, s, bits, <<c, client[c].requests + 1>>))
    /\ UNCHANGED <<ext, pc, job>>

\* The client gets the response, an error, or a request on the return channel.
Receive(c) ==
    LET asked == is_rc_message(inbox[c]) /\ ~is_error_message(inbox[c])
    IN  /\ client[c].state = "called" /\ inbox[c] # NoMessage
        /\ client' = [client EXCEPT ![c].state = IF asked THEN "asked" ELSE "idle"]
        /\ inbox' = [inbox EXCEPT ![c] = NoMessage]
        /\ UNCHANGED <<ext, pc, job, caller, faults>>

\* The client answers as soon as the partition is not busy with someone else.
Respond(c) ==
    /\ client[c].state = "asked" /\ Receptive(client[c].at)
    /\ client' = [client EXCEPT ![c].state = "called"]
    /\ Requested(c, Message(c, client[c].at, {"rc"}, Tag(c)))
    /\ UNCHANGED <<ext, pc, job>>

-----------------------------------------------------------------------------
Step(s) ==
    \/ request_received_hook(s) \/ its_sp_main(s)
    \/ \E bits \in AppBits :
        \/ sp_msg_send_direct_resp(s, bits)
        \/ sp_msg_send_rc_req(s, bits)
        \/ \E callee \in Callees[s] : sp_msg_send_direct_req(s, callee, bits)
    \/ ffa_direct_msg_routing_ext_req_post_hook(s) \/ deny_unexpected_requests(s)
    \/ ForwardedDown(s) \/ ffa_direct_msg_routing_ext_rc_req_post_hook(s)

Next ==
    \/ \E s \in SPs : Step(s)
    \/ \E c \in Clients :
        \/ Receive(c) \/ Respond(c)
        \/ \E s \in Entries[c], bits \in ClientBits : Request(c, s, bits)

\* Partitions are run whenever they can go on; a client that is asked answers.
Fairness ==
    /\ \A s \in SPs : WF_vars(Step(s))
    /\ \A c \in Clients : WF_vars(Receive(c)) /\ WF_vars(Respond(c))

Spec == Init /\ [][Next]_vars /\ Fairness

-----------------------------------------------------------------------------
Busy(s) == pc[s].place \notin {"loop", "fatal"}

Ids == SPs \cup Clients \cup {SP_ID_INVALID}

Tags == {<<>>} \cup (Clients \X Nat)

TypeOK ==
    /\ ext \in [SPs -> [state : {"idle", "leaf", "rc_root", "internal", "forwarding"},
                        own_id : Ids, caller_id : Ids, callee_id : Ids]]
    /\ pc \in [SPs -> [place : {"loop", "serve", "call", "forward", "rc", "fatal"},
                       svc : {"req", "resp", "deny", "wait", "none"}]]
    /\ job \in [SPs -> [src : Ids, tag : Tags, called : BOOLEAN, asked : BOOLEAN, got : Tags]]
    /\ inbox \in [SPs \cup Clients -> [src : Ids, dst : Ids, bits : SUBSET {"rc", "err", "failed"}, tag : Tags]]
    /\ caller \in [SPs -> Ids]
    /\ client \in [Clients -> [state : {"idle", "called", "asked"}, at : Ids, requests : Nat]]
    /\ faults \in 0 .. MaxFaults

(* Whatever requests come between, a client is sent the response to its    *)
(* own request and asked on behalf of it only; a service that has called   *)
(* another, or asked the client, gets the answer to its own question       *)
(* (deny_unexpected_requests checks the source, the hooks keep caller_id). *)
Correlated ==
    /\ \A c \in Clients : inbox[c] \notin {NoMessage, SvcError} => client[c].state = "called" /\ inbox[c].tag = Tag(c)
    /\ \A s \in SPs : pc[s].place = "serve" => job[s].got \in {<<>>, job[s].tag}

(* The callers of a busy partition lead to a client that waits for it:     *)
(* caller_id and callee_id of neighbours in the chain agree, and serve the *)
(* same request of the client, unless a call of the SPMC has failed.  A    *)
(* service that runs is a leaf in any case: every hook that returns to it  *)
(* has left the states rc_root, internal and forwarding.                   *)
Chained ==
    \A s \in SPs :
        /\ pc[s].place = "serve" => ext[s].state = "leaf"
        /\ Busy(s) /\ faults = 0 =>
             LET up == ext[s].caller_id
             IN  IF up \in Clients THEN client[up].state # "idle" /\ client[up].at = s /\ job[s].tag = Tag(up)
                 ELSE Busy(up) /\ ext[up].callee_id = s /\ job[s].tag = job[up].tag

(* Every request of a client is answered in the end, be it with an error,  *)
(* unless a partition has left its message loop for good.                  *)
Answered == \A c \in Clients : client[c].state # "idle" ~> (client[c].state = "idle" \/ \E s \in SPs : pc[s].place = "fatal")

(* As long as no call of the SPMC fails, a partition that serves a request *)
(* gets back to its message loop: no partition waits for ever for an       *)
(* answer on the return channel.                                           *)
ServesAgain == \A s \in SPs : Busy(s) ~> (~Busy(s) \/ faults > 0)
=============================================================================
