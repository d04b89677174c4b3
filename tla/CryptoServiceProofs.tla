------------------------ MODULE CryptoServiceProofs ------------------------
(***************************************************************************)
(* The isolation of the clients of crypto operations, for any number of    *)
(* clients, operations, contexts and handles, also after the handles have  *)
(* rolled over; and until they do, that a context is what its client takes *)
(* it for, and is there while it is in use.                                *)
(***************************************************************************)
EXTENDS CryptoService, FiniteSetTheorems, FunctionTheorems, WellFoundedInduction, TLAPS

\* The calls that give an input to an operation.
InputCalls == {
    "hash_update", "mac_update", "cipher_generate_iv", "cipher_set_iv", "cipher_update",
    "aead_generate_nonce", "aead_set_nonce", "aead_set_lengths", "aead_update_ad",
    "aead_update", "key_derivation_get_capacity", "key_derivation_set_capacity",
    "key_derivation_input_bytes", "key_derivation_input_key", "key_derivation_output_bytes",
    "key_derivation_output_key", "key_derivation_key_agreement"}

\* The inputs that a client may give to its operations.
InputsOf(client) == {o \in Operations : Client[o] = client} \X InputCalls

\* An operation that has a key and inputs of `client' only.
OwnOp(client, op) ==
    /\ op = [state |-> op.state, key |-> op.key, done |-> op.done]
    /\ op.key \in {client, "none"}
    /\ op.done \in Seq(InputsOf(client))

Context(x) ==
    /\ x = [at |-> x.at, client |-> x.client, op |-> x.op, handle |-> x.handle]
    /\ x.at \in Nat /\ x.handle \in 1 .. HandleMax
    /\ OwnOp(x.client, x.op)

\* What every handler finds, and leaves, also when handles are given out again.
PoolShape(p) ==
    /\ p = [active |-> p.active, recent |-> p.recent, allocs |-> p.allocs]
    /\ p.recent \in 0 .. HandleMax /\ p.allocs \in Nat
    /\ IsFiniteSet(p.active) /\ Cardinality(p.active) <= CRYPTO_CONTEXT_POOL_SIZE
    /\ \A x \in p.active : Context(x)
    /\ \A x, y \in p.active : x.handle = y.handle => x = y

\* The record of an operation that takes an input.
LEMMA FedIs ==
    ASSUME NEW op, op = [state |-> op.state, key |-> op.key, done |-> op.done], NEW input
    PROVE  Fed(op, input) = [state |-> op.state, key |-> op.key, done |-> Append(op.done, input)]
<1>1. PICK state, key, done : op = [state |-> state, key |-> key, done |-> done]
  BY Zenon
<1>2. op.state = state /\ op.key = key /\ op.done = done
  BY ONLY <1>1
<1>3. Fed([state |-> state, key |-> key, done |-> done], input) = [state |-> state, key |-> key, done |-> Append(done, input)]
  BY ONLY TRUE DEF Fed
<1> QED
  BY ONLY <1>1, <1>2, <1>3, Zenon

\* A set of numbers that is not empty has a least one.
LEMMA LeastExists ==
    ASSUME NEW S \in SUBSET Nat, S # {}
    PROVE  \E x \in S : \A y \in S : x <= y
<1> DEFINE R == {ss \in Nat \X Nat : ss[1] < ss[2]}
<1>1. IsWellFoundedOn(R, Nat)
  BY NatLessThanWellFounded, Zenon DEF OpToRel
<1> HIDE DEF R
<1>2. PICK x \in S : \A y \in S : ~(<<y, x>> \in R)
  BY <1>1, WFMin, Zenon
<1>3. \A y \in S : ~(y < x)
  BY <1>2, Zenon DEF R
<1> QED
  BY <1>3

\* Min gives a member of such a set, as alloc_op_handle needs.
LEMMA MinIsLeast ==
    ASSUME NEW S \in SUBSET Nat, S # {}
    PROVE  Min(S) \in S
BY LeastExists, Zenon DEF Min

\* Freeing a context leaves a pool in shape.
LEMMA FreeShape ==
    ASSUME NEW p, PoolShape(p), NEW x
    PROVE  /\ PoolShape(crypto_context_pool_free(p, x))
           /\ crypto_context_pool_free(p, x).active = p.active \ {x}
<1> DEFINE q == crypto_context_pool_free(p, x)
<1>1. q = [active |-> p.active \ {x}, recent |-> p.recent, allocs |-> p.allocs]
  BY DEF crypto_context_pool_free, PoolShape
<1>2. IsFiniteSet(p.active \ {x}) /\ Cardinality(p.active \ {x}) <= Cardinality(p.active)
  <2>1. IsFiniteSet(p.active)
    BY Zenon DEF PoolShape
  <2>2. p.active \ {x} \in SUBSET p.active
    BY Zenon
  <2> QED
    BY ONLY <2>1, <2>2, FS_Subset, Zenon
<1>3. Cardinality(p.active) \in Nat /\ Cardinality(p.active \ {x}) \in Nat
  BY <1>2, FS_CardinalityType, Zenon DEF PoolShape
<1>4. Cardinality(p.active \ {x}) <= CRYPTO_CONTEXT_POOL_SIZE
  BY <1>2, <1>3, PoolAssumption DEF PoolShape
<1> HIDE DEF q
<1>5. PoolShape(q)
  BY <1>1, <1>2, <1>4, Zenon DEF PoolShape
<1> QED
  BY <1>1, <1>5 DEF q

\* If no context is free the oldest one is recycled, and then there is room for another.
LEMMA RecycledShape ==
    ASSUME NEW p, PoolShape(p)
    PROVE  /\ PoolShape(Recycled(p))
           /\ Cardinality(Recycled(p).active) < CRYPTO_CONTEXT_POOL_SIZE
           /\ Recycled(p).active \subseteq p.active
<1>1. CASE Cardinality(p.active) < CRYPTO_CONTEXT_POOL_SIZE
  BY <1>1, Zenon DEF Recycled
<1>2. CASE ~(Cardinality(p.active) < CRYPTO_CONTEXT_POOL_SIZE)
  <2>1. IsFiniteSet(p.active) /\ Cardinality(p.active) \in Nat
    BY FS_CardinalityType, Zenon DEF PoolShape
  <2>2. Cardinality(p.active) = CRYPTO_CONTEXT_POOL_SIZE /\ Cardinality(p.active) # 0
    BY <1>2, <2>1, PoolAssumption DEF PoolShape
  <2>3. p.active # {}
    BY <2>1, <2>2, FS_EmptySet, Zenon
  <2>4. {x.at : x \in p.active} \in SUBSET Nat /\ {x.at : x \in p.active} # {}
    BY <2>3 DEF PoolShape, Context
  <2>5. \E n \in {x.at : x \in p.active} : \A m \in {x.at : x \in p.active} : n <= m
    BY <2>4, LeastExists, Zenon
  <2>6. active_tail(p) \in p.active
    BY <2>5, Zenon DEF active_tail
  <2>7. Cardinality(p.active \ {active_tail(p)}) = Cardinality(p.active) - 1
    BY ONLY <2>1, <2>6, FS_RemoveElement, Zenon
  <2>8. Recycled(p) = crypto_context_pool_free(p, active_tail(p))
    BY <1>2, Zenon DEF Recycled
  <2>9. PoolShape(Recycled(p)) /\ Recycled(p).active = p.active \ {active_tail(p)}
    BY <2>8, FreeShape, Zenon
  <2>10. Cardinality(Recycled(p).active) < CRYPTO_CONTEXT_POOL_SIZE
    BY <2>1, <2>2, <2>7, <2>9, PoolAssumption
  <2> QED
    BY <2>9, <2>10, Zenon
<1> QED
  BY <1>1, <1>2, Zenon

(***************************************************************************)
(* alloc_op_handle finds a handle that is not in use and not 0, wherever   *)
(* the rolling number is: a pool with room has fewer contexts than there   *)
(* are handles.                                                            *)
(***************************************************************************)
LEMMA HandleIsNew ==
    ASSUME NEW q, PoolShape(q), Cardinality(q.active) < CRYPTO_CONTEXT_POOL_SIZE, NEW recent \in 0 .. HandleMax
    PROVE  alloc_op_handle({x.handle : x \in q.active}, recent) \in (1 .. HandleMax) \ {x.handle : x \in q.active}
<1> DEFINE in_use == {x.handle : x \in q.active}
           f == [x \in q.active |-> x.handle]
           above == (recent + 1 .. HandleMax) \ in_use
           all == (1 .. HandleMax) \ in_use
<1>1. IsFiniteSet(q.active) /\ Cardinality(q.active) \in Nat
  BY FS_CardinalityType, Zenon DEF PoolShape
<1>2. f \in Surjection(q.active, in_use)
  BY Zenon DEF Surjection
<1>3. IsFiniteSet(in_use) /\ Cardinality(in_use) <= Cardinality(q.active)
  <2> HIDE DEF f, in_use
  <2> QED
    BY ONLY <1>1, <1>2, FS_Surjection, Zenon
<1> HIDE DEF in_use
<1>4. Cardinality(in_use) \in Nat
  BY <1>3, FS_CardinalityType, Zenon
<1>5. all # {}
  <2> SUFFICES ASSUME 1 .. HandleMax \in SUBSET in_use
               PROVE  FALSE
    BY Zenon
  <2>1. Cardinality(1 .. HandleMax) <= Cardinality(in_use)
    BY <1>3, FS_Subset, Zenon
  <2>2. 1 \in Int /\ HandleMax \in Int /\ HandleMax >= CRYPTO_CONTEXT_POOL_SIZE /\ HandleMax >= 1
    BY PoolAssumption
  <2>3. Cardinality(1 .. HandleMax) = IF 1 > HandleMax THEN 0 ELSE HandleMax - 1 + 1
    BY ONLY <2>2, FS_Interval, Zenon
  <2> QED
    BY <1>1, <1>3, <1>4, <2>1, <2>2, <2>3, PoolAssumption
<1>6. all \in SUBSET Nat /\ above \in SUBSET Nat /\ above \subseteq all
  BY PoolAssumption
<1> HIDE DEF all, above
<1>7. Min(all) \in all
  BY <1>5, <1>6, MinIsLeast, Zenon
<1>8. above # {} => Min(above) \in all
  BY <1>6, MinIsLeast, Zenon
<1>9. alloc_op_handle(in_use, recent) = IF above # {} THEN Min(above) ELSE Min(all)
  BY Zenon DEF alloc_op_handle, above, all
<1>10. alloc_op_handle(in_use, recent) \in all
  BY <1>7, <1>8, <1>9, Zenon
<1> QED
  BY <1>10, Zenon DEF all, in_use

\* A new context has a handle of its own.
LEMMA AllocShape ==
    ASSUME NEW p, PoolShape(p), NEW client, NEW op, OwnOp(client, op)
    PROVE  /\ PoolShape(crypto_context_pool_alloc(p, client, op))
           /\ NewContext(p, client, op).handle \in 1 .. HandleMax
<1> DEFINE new == NewContext(p, client, op)
           q == Recycled(p)
           h == alloc_op_handle({x.handle : x \in q.active}, p.recent)
<1>1. PoolShape(q) /\ Cardinality(q.active) < CRYPTO_CONTEXT_POOL_SIZE
  BY RecycledShape, Zenon
<1>2. p.recent \in 0 .. HandleMax /\ p.allocs \in Nat
  BY Zenon DEF PoolShape
<1>3. h \in (1 .. HandleMax) \ {x.handle : x \in q.active}
  BY <1>1, <1>2, HandleIsNew, Zenon
<1>4. new = [at |-> p.allocs + 1, client |-> client, op |-> op, handle |-> h]
  BY Zenon DEF NewContext
<1>5. crypto_context_pool_alloc(p, client, op) = [active |-> q.active \cup {new}, recent |-> h, allocs |-> p.allocs + 1]
  BY <1>4 DEF crypto_context_pool_alloc
<1> HIDE DEF new, q, h
<1>6. Context(new) /\ h \in 0 .. HandleMax /\ new.handle = h
  BY <1>2, <1>3, <1>4, PoolAssumption DEF Context
<1>7. IsFiniteSet(q.active \cup {new}) /\ Cardinality(q.active \cup {new}) <= CRYPTO_CONTEXT_POOL_SIZE
  <2>1. IsFiniteSet(q.active) /\ Cardinality(q.active) \in Nat
    BY <1>1, FS_CardinalityType, Zenon DEF PoolShape
  <2>2. /\ IsFiniteSet(q.active \cup {new})
        /\ Cardinality(q.active \cup {new}) = IF new \in q.active THEN Cardinality(q.active) ELSE Cardinality(q.active) + 1
    BY ONLY <2>1, FS_AddElement, Zenon
  <2> QED
    BY <1>1, <2>1, <2>2, PoolAssumption
<1>8. \A x \in q.active \cup {new} : Context(x)
  BY <1>1, <1>6, Zenon DEF PoolShape
<1>9. \A x, y \in q.active \cup {new} : x.handle = y.handle => x = y
  BY <1>1, <1>3, <1>6, Zenon DEF PoolShape
<1>10. PoolShape([active |-> q.active \cup {new}, recent |-> h, allocs |-> p.allocs + 1])
  BY <1>2, <1>6, <1>7, <1>8, <1>9 DEF PoolShape
<1> QED
  BY <1>3, <1>5, <1>6, <1>10, Zenon DEF new

\* Another operation in a context, of the same client, leaves a pool in shape.
LEMMA PutShape ==
    ASSUME NEW p, PoolShape(p), NEW x \in p.active, NEW op, OwnOp(x.client, op)
    PROVE  PoolShape(Put(p, x, op))
<1> DEFINE y == [at |-> x.at, client |-> x.client, op |-> op, handle |-> x.handle]
           rest == p.active \ {x}
<1>1. Context(x) /\ [x EXCEPT !.op = op] = y
  BY DEF PoolShape, Context
<1>2. Put(p, x, op) = [active |-> rest \cup {y}, recent |-> p.recent, allocs |-> p.allocs]
  <2>1. Put(p, x, op) = [p EXCEPT !.active = rest \cup {y}]
    BY <1>1, Zenon DEF Put
  <2>2. p = [active |-> p.active, recent |-> p.recent, allocs |-> p.allocs]
    BY Zenon DEF PoolShape
  <2> HIDE DEF rest, y
  <2>3. [p EXCEPT !.active = rest \cup {y}] = [active |-> rest \cup {y}, recent |-> p.recent, allocs |-> p.allocs]
    BY <2>2
  <2> QED
    BY <2>1, <2>3, Zenon
<1>3. IsFiniteSet(p.active) /\ Cardinality(p.active) \in Nat
  BY FS_CardinalityType, Zenon DEF PoolShape
<1>4. IsFiniteSet(rest) /\ Cardinality(rest) = Cardinality(p.active) - 1
  BY ONLY <1>3, x \in p.active, FS_RemoveElement, Zenon
<1>5. IsFiniteSet(rest \cup {y}) /\ Cardinality(rest \cup {y}) = IF y \in rest THEN Cardinality(rest) ELSE Cardinality(rest) + 1
  <2> HIDE DEF rest, y
  <2> QED
    BY ONLY <1>4, FS_AddElement, Zenon
<1>6. Cardinality(rest \cup {y}) <= CRYPTO_CONTEXT_POOL_SIZE
  <2> HIDE DEF rest, y
  <2> QED
    BY <1>3, <1>4, <1>5, PoolAssumption DEF PoolShape
<1>7. Context(y) /\ y.handle = x.handle
  BY <1>1, Zenon DEF Context
<1>8. \A u \in rest : u.handle # x.handle
  BY Zenon DEF PoolShape
<1> HIDE DEF y
<1>9. \A u, v \in rest \cup {y} : u.handle = v.handle => u = v
  BY <1>7, <1>8, Zenon DEF PoolShape
<1>10. \A u \in rest \cup {y} : Context(u)
  BY <1>7, Zenon DEF PoolShape
<1> HIDE DEF rest
<1>11. PoolShape([active |-> rest \cup {y}, recent |-> p.recent, allocs |-> p.allocs])
  BY <1>5, <1>6, <1>9, <1>10, Zenon DEF PoolShape
<1> QED
  BY <1>2, <1>11, Zenon

-----------------------------------------------------------------------------
AnswerShape(a) == a = [pool |-> a.pool, status |-> a.status, handle |-> a.handle] /\ PoolShape(a.pool)

\* All answers of a handler, or of a caller, leave the pool in shape.
AllShape(answers) == \A a \in answers : AnswerShape(a)

\* An answer with a pool in shape.
LEMMA AnswerKeeps ==
    ASSUME NEW p, PoolShape(p), NEW status
    PROVE  AnswerShape(Answer(p, status))
BY Zenon DEF Answer, AnswerShape

\* Requests that are not sent, responses that are not serialized and results that do not fit
\* change the status only.
LEMMA WrappersKeep ==
    ASSUME NEW answers, AllShape(answers)
    PROVE  /\ AllShape(Serialized(answers)) /\ AllShape(Decoded(answers))
           /\ \A p : PoolShape(p) => AllShape(Sent(p, answers))
<1>1. ASSUME NEW a \in answers, NEW status
      PROVE  AnswerShape([a EXCEPT !.status = status])
  <2>1. a = [pool |-> a.pool, status |-> a.status, handle |-> a.handle] /\ PoolShape(a.pool)
    BY Zenon DEF AllShape, AnswerShape
  <2>2. [a EXCEPT !.status = status] = [pool |-> a.pool, status |-> status, handle |-> a.handle]
    BY <2>1
  <2> QED
    BY <2>1, <2>2, Zenon DEF AnswerShape
<1>2. AllShape(Serialized(answers))
  BY <1>1, Zenon DEF AllShape, Serialized
<1>3. AllShape(Decoded(answers))
  BY <1>1, Zenon DEF AllShape, Decoded
<1>4. \A p : PoolShape(p) => AllShape(Sent(p, answers))
  BY AnswerKeeps, Zenon DEF AllShape, Sent
<1> QED
  BY <1>2, <1>3, <1>4, Zenon

\* A setup leaves a pool in shape, whether its context is kept or freed again.
LEMMA SetupKeeps ==
    ASSUME NEW p, PoolShape(p), NEW client
    PROVE  AllShape(Setup(p, client))
<1> DEFINE new == NewContext(p, client, SetUp(client))
           after == crypto_context_pool_alloc(p, client, SetUp(client))
<1>1. OwnOp(client, SetUp(client))
  BY DEF OwnOp, SetUp
<1>2. PoolShape(after)
  BY <1>1, AllocShape, Zenon
<1> HIDE DEF after, new
<1>3. PoolShape(crypto_context_pool_free(after, new))
  BY <1>2, FreeShape, Zenon
<1>4. AnswerShape([pool |-> after, status |-> "SUCCESS", handle |-> new.handle])
  BY <1>2, Zenon DEF AnswerShape
<1>5. AnswerShape(Answer(crypto_context_pool_free(after, new), "ERROR"))
  BY <1>3, AnswerKeeps, Zenon
<1>6. Setup(p, client) = {[pool |-> after, status |-> "SUCCESS", handle |-> new.handle]}
                           \cup {Answer(crypto_context_pool_free(after, new), "ERROR")}
  BY Zenon DEF Setup, after, new
<1> QED
  BY <1>4, <1>5, <1>6, Zenon DEF AllShape

(***************************************************************************)
(* The context that is found is one of the client's: what is put into it   *)
(* has the client's key and inputs, as it had before.                      *)
(***************************************************************************)
LEMMA FoundIsOwn ==
    ASSUME NEW p, PoolShape(p), NEW client, NEW h, NEW x \in crypto_context_pool_find(p, client, h)
    PROVE  /\ x \in p.active /\ x.client = client
           /\ PoolShape(Put(p, x, Refused(x.op)))
           /\ PoolShape(crypto_context_pool_free(p, x))
           /\ \A input \in InputsOf(client) : PoolShape(Put(p, x, Fed(x.op, input)))
<1>1. x \in p.active /\ x.client = client
  BY Zenon DEF crypto_context_pool_find
<1>2. OwnOp(client, x.op)
  BY <1>1, Zenon DEF PoolShape, Context
<1>3. OwnOp(client, Refused(x.op))
  <2>1. Refused(x.op) = [state |-> IF x.op.state = "active" THEN "error" ELSE x.op.state, key |-> x.op.key, done |-> x.op.done]
    BY <1>2 DEF Refused, OwnOp
  <2> QED
    BY <1>2, <2>1 DEF OwnOp
<1>4. ASSUME NEW input \in InputsOf(client)
      PROVE  OwnOp(client, Fed(x.op, input))
  <2>1. Fed(x.op, input) = [state |-> x.op.state, key |-> x.op.key, done |-> Append(x.op.done, input)]
    BY ONLY <1>2, FedIs, Zenon DEF OwnOp
  <2>2. Append(x.op.done, input) \in Seq(InputsOf(client))
    BY <1>2 DEF OwnOp
  <2> QED
    BY <1>2, <2>1, <2>2 DEF OwnOp
<1> QED
  BY <1>1, <1>3, <1>4, PutShape, FreeShape, Zenon

\* An input goes to an operation of its client, or nowhere.
LEMMA InputKeeps ==
    ASSUME NEW p, PoolShape(p), NEW client, NEW h, NEW input \in InputsOf(client)
    PROVE  AllShape(Input(p, client, h, input)) /\ AllShape(InputOutput(p, client, h, input))
<1> DEFINE found == crypto_context_pool_find(p, client, h)
           taken == {Answer(Put(p, x, Fed(x.op, input)), "SUCCESS") : x \in {y \in found : y.op.state = "active"}}
           refused == {Answer(Put(p, x, Refused(x.op)), "ERROR") : x \in found}
<1>1. \A x \in found : PoolShape(Put(p, x, Refused(x.op))) /\ PoolShape(Put(p, x, Fed(x.op, input)))
  BY FoundIsOwn, Zenon
<1>2. AnswerShape(Answer(p, "ERROR"))
  BY AnswerKeeps, Zenon
<1> HIDE DEF found
<1>3. \A a \in taken : AnswerShape(a)
  BY <1>1, AnswerKeeps, Zenon
<1>4. \A a \in refused : AnswerShape(a)
  BY <1>1, AnswerKeeps, Zenon
<1> HIDE DEF taken, refused
<1>5. Input(p, client, h, input) = taken \cup refused \cup (IF found = {} THEN {Answer(p, "ERROR")} ELSE {})
  BY Zenon DEF Input, taken, refused, found
<1>6. AllShape(Input(p, client, h, input))
  BY <1>2, <1>3, <1>4, <1>5, Zenon DEF AllShape
<1>7. AllShape(Serialized(Input(p, client, h, input)))
  BY <1>6, WrappersKeep, Zenon
<1>8. AllShape(InputOutput(p, client, h, input))
  BY <1>2, <1>7, Zenon DEF InputOutput, AllShape
<1> QED
  BY <1>6, <1>8, Zenon

\* A finish or an abort frees a context, or leaves an operation that had an error.
LEMMA FinishKeeps ==
    ASSUME NEW p, PoolShape(p), NEW client, NEW h
    PROVE  AllShape(Finish(p, client, h)) /\ AllShape(Abort(p, client, h))
<1> DEFINE found == crypto_context_pool_find(p, client, h)
           done == {Answer(crypto_context_pool_free(p, x), "SUCCESS") : x \in {y \in found : y.op.state = "active"}}
           refused == {Answer(Put(p, x, Refused(x.op)), "ERROR") : x \in found}
           aborted == UNION {{Answer(crypto_context_pool_free(p, x), s) : s \in {"SUCCESS", "ERROR"}} : x \in found}
<1>1. \A x \in found : PoolShape(Put(p, x, Refused(x.op))) /\ PoolShape(crypto_context_pool_free(p, x))
  BY FoundIsOwn, Zenon
<1>2. AnswerShape(Answer(p, "ERROR")) /\ AnswerShape(Answer(p, "SUCCESS"))
  BY AnswerKeeps, Zenon
<1> HIDE DEF found
<1>3. \A a \in done : AnswerShape(a)
  BY <1>1, AnswerKeeps, Zenon
<1>4. \A a \in refused : AnswerShape(a)
  BY <1>1, AnswerKeeps, Zenon
<1>5. \A a \in aborted : AnswerShape(a)
  BY <1>1, AnswerKeeps
<1> HIDE DEF done, refused, aborted
<1>6. Finish(p, client, h) = done \cup refused \cup (IF found = {} THEN {Answer(p, "ERROR")} ELSE {})
  BY Zenon DEF Finish, done, refused, found
<1>7. Abort(p, client, h) = aborted \cup (IF found = {} THEN {Answer(p, "SUCCESS")} ELSE {})
  BY Zenon DEF Abort, aborted, found
<1> QED
  BY <1>2, <1>3, <1>4, <1>5, <1>6, <1>7, Zenon DEF AllShape

\* A clone is an operation of the client of its source, or one that is not set up.
LEMMA CloneKeeps ==
    ASSUME NEW p, PoolShape(p), NEW client, NEW h
    PROVE  AllShape(hash_clone_handler(p, client, h))
<1> DEFINE Target(op) == crypto_context_pool_alloc(p, client, op)
           One(x) == {[pool |-> Target(x.op), status |-> "SUCCESS", handle |-> NewContext(p, client, x.op).handle]}
           Cloned(x) == Serialized(One(x))
           Clone(x) == (IF x \in Recycled(p).active /\ x.op.state = "active" THEN Cloned(x) ELSE {})
                         \cup {Answer(Target(Inactive), "ERROR")}
           found == crypto_context_pool_find(p, client, h)
<1>1. PoolShape(Target(Inactive))
  <2>1. OwnOp(client, Inactive)
    BY DEF OwnOp, Inactive
  <2> QED
    BY <2>1, AllocShape, Zenon
<1>2. \A x \in found : PoolShape(Target(x.op))
  <2> SUFFICES ASSUME NEW x \in found
               PROVE  PoolShape(Target(x.op))
    BY Zenon
  <2>1. x \in p.active /\ x.client = client
    BY FoundIsOwn, Zenon
  <2>2. OwnOp(client, x.op)
    BY <2>1, Zenon DEF PoolShape, Context
  <2> QED
    BY <2>2, AllocShape, Zenon
<1> HIDE DEF Target, found
<1>3. \A x \in found : AllShape(One(x))
  BY <1>2 DEF AllShape, AnswerShape
<1> HIDE DEF One
<1>4. \A x \in found : AllShape(Cloned(x))
  BY <1>3, WrappersKeep, Zenon
<1>5. AnswerShape(Answer(Target(Inactive), "ERROR")) /\ AnswerShape(Answer(p, "ERROR"))
  BY <1>1, AnswerKeeps, Zenon
<1> HIDE DEF Cloned
<1>6. \A x \in found : AllShape(Clone(x))
  BY <1>4, <1>5, Zenon DEF AllShape
<1>7. hash_clone_handler(p, client, h) = IF found = {} THEN {Answer(p, "ERROR")} ELSE UNION {Clone(x) : x \in found}
  BY Zenon DEF hash_clone_handler, found, Cloned, One, Target
<1> HIDE DEF Clone
<1> QED
  BY <1>5, <1>6, <1>7, Zenon DEF AllShape

-----------------------------------------------------------------------------
(***************************************************************************)
(* What a client may rely on, until a handle is given out again.           *)
(***************************************************************************)
(***************************************************************************)
(* While no handle has been given out twice, handles are given out in the  *)
(* order of the allocations: the at-th context has the handle `at'.        *)
(***************************************************************************)
Numbered(p) ==
    /\ p.recent = p.allocs
    /\ \A x \in p.active : x.handle = x.at /\ x.at <= p.allocs

\* What the client of an operation object may rely on.
Tracked(o) ==
    /\ view[o].state = "live" =>
        /\ handle[o] = view[o].at
        /\ \A x \in Found(o) : x.op = [state |-> "active", key |-> Client[o], done |-> view[o].sent]
        /\ pool.allocs < view[o].at + CRYPTO_CONTEXT_POOL_SIZE => Found(o) # {}
    /\ view[o].state = "ended" => Found(o) = {}

\* No two operation objects have the same handle, and none has one that is still to be given out.
OwnHandles ==
    /\ \A o \in Operations : handle[o] \in 0 .. pool.allocs
    /\ \A o, t \in Operations : handle[o] = handle[t] /\ handle[o] # 0 => o = t

\* The handles and the views are functions of the operation objects, with records for views.
Views ==
    /\ handle = [o \in Operations |-> handle[o]]
    /\ view = [o \in Operations |-> view[o]]
    /\ \A o \in Operations : view[o] = [state |-> view[o].state, sent |-> view[o].sent, at |-> view[o].at]

\* The inductive invariant.
Inv ==
    /\ PoolShape(pool)
    /\ Views
    /\ Unique => Numbered(pool) /\ OwnHandles /\ \A o \in Operations : Tracked(o)

\* Only the context of `client' with the handle `h' differs.
Same(p, q, client, h) ==
    /\ q.recent = p.recent /\ q.allocs = p.allocs
    /\ Numbered(p) => Numbered(q)
    /\ \A c, k : c # client \/ k # h => crypto_context_pool_find(q, c, k) = crypto_context_pool_find(p, c, k)
    /\ crypto_context_pool_find(p, client, h) = {} => crypto_context_pool_find(q, client, h) = {}

\* One more context has been allocated: old ones may be gone for it, but none of the most recent.
Grown(p, q) ==
    /\ q.allocs = p.allocs + 1
    /\ Numbered(p) /\ q.allocs <= HandleMax =>
        /\ Numbered(q)
        /\ \A c : \A k \in 0 .. p.allocs :
            /\ crypto_context_pool_find(q, c, k) \subseteq crypto_context_pool_find(p, c, k)
            /\ q.allocs < k + CRYPTO_CONTEXT_POOL_SIZE =>
                crypto_context_pool_find(q, c, k) = crypto_context_pool_find(p, c, k)


\* The context that is found is freed: nothing is found any more.
LEMMA FreeSame ==
    ASSUME NEW p, PoolShape(p), NEW client, NEW h, NEW x \in crypto_context_pool_find(p, client, h)
    PROVE  /\ Same(p, crypto_context_pool_free(p, x), client, h)
           /\ crypto_context_pool_find(crypto_context_pool_free(p, x), client, h) = {}
<1> DEFINE q == crypto_context_pool_free(p, x)
<1>1. q = [active |-> p.active \ {x}, recent |-> p.recent, allocs |-> p.allocs]
  <2>1. p = [active |-> p.active, recent |-> p.recent, allocs |-> p.allocs]
    BY Zenon DEF PoolShape
  <2> QED
    BY ONLY <2>1 DEF crypto_context_pool_free
<1>2. q.active = p.active \ {x} /\ q.recent = p.recent /\ q.allocs = p.allocs
  BY <1>1
<1> HIDE DEF q
<1>3. x \in p.active /\ x.handle = h /\ x.client = client
  BY Zenon DEF crypto_context_pool_find
<1>4. \A y \in p.active : y.handle = h => y = x
  BY <1>3, Zenon DEF PoolShape
<1>5. \A c, k : c # client \/ k # h => crypto_context_pool_find(q, c, k) = crypto_context_pool_find(p, c, k)
  BY <1>2, <1>3, Zenon DEF crypto_context_pool_find
<1>6. Numbered(p) => Numbered(q)
  BY <1>2, Zenon DEF Numbered
<1>7. crypto_context_pool_find(q, client, h) = {}
  BY <1>2, <1>4, Zenon DEF crypto_context_pool_find
<1> QED
  BY <1>2, <1>5, <1>6, <1>7, Zenon DEF Same, q

\* Another operation is put into the context that is found: it is what is found now.
LEMMA PutSame ==
    ASSUME NEW p, PoolShape(p), NEW client, NEW h, NEW x \in crypto_context_pool_find(p, client, h), NEW op
    PROVE  /\ Same(p, Put(p, x, op), client, h)
           /\ crypto_context_pool_find(Put(p, x, op), client, h) # {}
           /\ \A y \in crypto_context_pool_find(Put(p, x, op), client, h) : y.op = op
<1> DEFINE y == [at |-> x.at, client |-> x.client, op |-> op, handle |-> x.handle]
           q == Put(p, x, op)
<1>1. x \in p.active /\ x.handle = h /\ x.client = client
  BY Zenon DEF crypto_context_pool_find
<1>2. [x EXCEPT !.op = op] = y
  BY <1>1 DEF PoolShape, Context
<1>3. q = [active |-> (p.active \ {x}) \cup {y}, recent |-> p.recent, allocs |-> p.allocs]
  <2>1. q = [p EXCEPT !.active = (p.active \ {x}) \cup {y}]
    BY <1>2, Zenon DEF Put
  <2>2. p = [active |-> p.active, recent |-> p.recent, allocs |-> p.allocs]
    BY Zenon DEF PoolShape
  <2> HIDE DEF y, q
  <2> QED
    BY <2>1, <2>2, Zenon
<1>4. y.at = x.at /\ y.client = x.client /\ y.op = op /\ y.handle = x.handle
  BY Zenon
<1> HIDE DEF y, q
<1>5. q.active = (p.active \ {x}) \cup {y} /\ q.recent = p.recent /\ q.allocs = p.allocs
  BY <1>3, Zenon
<1>6. \A z \in p.active : z.handle = h => z = x
  BY <1>1, Zenon DEF PoolShape
<1>7. \A c, k : c # client \/ k # h => crypto_context_pool_find(q, c, k) = crypto_context_pool_find(p, c, k)
  BY <1>1, <1>4, <1>5, Zenon DEF crypto_context_pool_find
<1>8. Numbered(p) => Numbered(q)
  BY <1>1, <1>4, <1>5, Zenon DEF Numbered
<1>9. crypto_context_pool_find(q, client, h) = {y}
  BY <1>1, <1>4, <1>5, <1>6, Zenon DEF crypto_context_pool_find
<1> QED
  BY <1>4, <1>5, <1>7, <1>8, <1>9, Zenon DEF Same, q

(***************************************************************************)
(* The oldest context is recycled only if as many contexts as the pool can *)
(* hold have been allocated since, the one it is recycled for included.    *)
(***************************************************************************)
LEMMA RecycledIsOld ==
    ASSUME NEW p, PoolShape(p), Numbered(p), NEW x \in p.active, x \notin Recycled(p).active
    PROVE  p.allocs + 1 >= x.at + CRYPTO_CONTEXT_POOL_SIZE
<1>1. Cardinality(p.active) \in Nat /\ IsFiniteSet(p.active) /\ Cardinality(p.active) <= CRYPTO_CONTEXT_POOL_SIZE
  BY FS_CardinalityType, Zenon DEF PoolShape
<1>2. ~(Cardinality(p.active) < CRYPTO_CONTEXT_POOL_SIZE)
  BY Zenon DEF Recycled
<1>3. Cardinality(p.active) = CRYPTO_CONTEXT_POOL_SIZE
  BY <1>1, <1>2, PoolAssumption
<1>4. Recycled(p).active = p.active \ {active_tail(p)}
  BY <1>2, FreeShape, Zenon DEF Recycled
<1>5. x = active_tail(p)
  BY <1>4, Zenon
<1>6. \A y \in p.active : y.at \in Nat /\ y.handle = y.at /\ y.at <= p.allocs
  BY Zenon DEF PoolShape, Context, Numbered
<1>7. \A y \in p.active : x.at <= y.at
  <2>1. {y.at : y \in p.active} \in SUBSET Nat /\ {y.at : y \in p.active} # {}
    BY <1>6, Zenon
  <2>2. \E n \in {y.at : y \in p.active} : \A m \in {y.at : y \in p.active} : n <= m
    BY <2>1, LeastExists, Zenon
  <2>3. \E z \in p.active : \A y \in p.active : z.at <= y.at
    BY <2>2, Zenon
  <2> QED
    BY <1>5, <2>3, Zenon DEF active_tail
<1> DEFINE I == x.at .. p.allocs
           f == [y \in p.active |-> y.at]
<1>8. x.at \in Int /\ p.allocs \in Int /\ x.at <= p.allocs
  BY <1>6 DEF PoolShape
<1>9. f \in Injection(p.active, I)
  <2>1. \A y \in p.active : y.at \in I
    BY <1>6, <1>7, <1>8
  <2>2. \A y, z \in p.active : y.at = z.at => y = z
    BY <1>6, Zenon DEF PoolShape
  <2> HIDE DEF I
  <2> QED
    BY <2>1, <2>2, Fun_IsInj, Zenon
<1>10. IsFiniteSet(I) /\ Cardinality(I) = p.allocs - x.at + 1
  <2>1. IsFiniteSet(x.at .. p.allocs) /\ Cardinality(x.at .. p.allocs) = IF x.at > p.allocs THEN 0 ELSE p.allocs - x.at + 1
    BY ONLY <1>8, FS_Interval, Zenon
  <2> QED
    BY <1>8, <2>1
<1> HIDE DEF I, f
<1>11. Cardinality(p.active) <= Cardinality(I)
  BY ONLY <1>9, <1>10, FS_Injection, Zenon
<1> QED
  BY <1>3, <1>8, <1>10, <1>11, PoolAssumption

\* While no handle has been given out twice, alloc_op_handle gives out the next one.
LEMMA NextHandle ==
    ASSUME NEW p, PoolShape(p), Numbered(p), p.allocs < HandleMax
    PROVE  alloc_op_handle({x.handle : x \in Recycled(p).active}, p.recent) = p.allocs + 1
<1> DEFINE in_use == {x.handle : x \in Recycled(p).active}
           above == (p.recent + 1 .. HandleMax) \ in_use
<1>1. p.recent = p.allocs /\ p.allocs \in Nat /\ HandleMax \in Nat
  BY PoolAssumption, Zenon DEF PoolShape, Numbered
<1>2. \A h \in in_use : h <= p.allocs
  BY RecycledShape, Zenon DEF Numbered
<1>3. \A h \in in_use : h \in Nat
  BY RecycledShape DEF PoolShape, Context
<1> HIDE DEF in_use
<1>4. p.allocs + 1 \in above /\ \A h \in above : p.allocs + 1 <= h
  BY <1>1, <1>2, <1>3
<1>5. above \in SUBSET Nat
  BY <1>1
<1> HIDE DEF above
<1>6. Min(above) = p.allocs + 1
  <2>1. \E x \in above : \A y \in above : x <= y
    BY <1>4, Zenon
  <2>2. Min(above) \in above /\ \A y \in above : Min(above) <= y
    BY <2>1, Zenon DEF Min
  <2>3. Min(above) <= p.allocs + 1 /\ p.allocs + 1 <= Min(above) /\ Min(above) \in Nat
    BY <1>4, <1>5, <2>2, Zenon
  <2> QED
    BY <1>1, <2>3
<1>7. alloc_op_handle(in_use, p.recent) = Min(above)
  BY <1>4, Zenon DEF alloc_op_handle, above
<1> QED
  BY <1>6, <1>7, Zenon DEF in_use

\* What crypto_context_pool_alloc does to all contexts, also if the new one is freed at once.
LEMMA AllocGrows ==
    ASSUME NEW p, PoolShape(p), NEW client, NEW op
    PROVE  /\ Grown(p, crypto_context_pool_alloc(p, client, op))
           /\ Grown(p, crypto_context_pool_free(crypto_context_pool_alloc(p, client, op), NewContext(p, client, op)))
           /\ NewContext(p, client, op).op = op
           /\ (Numbered(p) /\ crypto_context_pool_alloc(p, client, op).allocs <= HandleMax) =>
                /\ NewContext(p, client, op).handle = crypto_context_pool_alloc(p, client, op).allocs
                /\ crypto_context_pool_find(crypto_context_pool_alloc(p, client, op), client, NewContext(p, client, op).handle)
                     = {NewContext(p, client, op)}
<1> DEFINE new == NewContext(p, client, op)
           after == crypto_context_pool_alloc(p, client, op)
           freed == crypto_context_pool_free(after, new)
           q == Recycled(p)
           h == alloc_op_handle({x.handle : x \in q.active}, p.recent)
<1>1. new = [at |-> p.allocs + 1, client |-> client, op |-> op, handle |-> h]
  BY Zenon DEF NewContext
<1>2. after = [active |-> q.active \cup {new}, recent |-> h, allocs |-> p.allocs + 1]
  BY <1>1 DEF crypto_context_pool_alloc
<1>3. freed = [active |-> (q.active \cup {new}) \ {new}, recent |-> h, allocs |-> p.allocs + 1]
  <2> HIDE DEF after, new, q, h
  <2> QED
    BY <1>2 DEF crypto_context_pool_free
<1>4. Numbered(p) /\ p.allocs + 1 <= HandleMax => h = p.allocs + 1
  <2>1. p.allocs \in Nat /\ HandleMax \in Nat
    BY PoolAssumption, Zenon DEF PoolShape
  <2>2. p.allocs + 1 <= HandleMax => p.allocs < HandleMax
    BY <2>1
  <2> QED
    BY <2>2, NextHandle, Zenon
<1> HIDE DEF h, q, new
<1>5. new.at = p.allocs + 1 /\ new.client = client /\ new.op = op /\ new.handle = h
  BY <1>1, Zenon
<1> HIDE DEF after, freed
<1>6. after.active = q.active \cup {new} /\ after.recent = h /\ after.allocs = p.allocs + 1
  BY <1>2, Zenon
<1>7. freed.active = q.active \ {new} /\ freed.recent = h /\ freed.allocs = p.allocs + 1
  BY <1>3, Zenon
<1>8. q.active \subseteq p.active /\ p.allocs \in Nat
  BY RecycledShape, Zenon DEF q, PoolShape
<1>9. \A x \in p.active : x.at \in Nat
  BY Zenon DEF PoolShape, Context
<1>10. ASSUME Numbered(p), p.allocs + 1 <= HandleMax, NEW r, r.recent = h, r.allocs = p.allocs + 1,
              q.active \ {new} \subseteq r.active, r.active \subseteq q.active \cup {new}
       PROVE  /\ Numbered(r)
              /\ \A c : \A k \in 0 .. p.allocs :
                    /\ crypto_context_pool_find(r, c, k) \subseteq crypto_context_pool_find(p, c, k)
                    /\ r.allocs < k + CRYPTO_CONTEXT_POOL_SIZE =>
                        crypto_context_pool_find(r, c, k) = crypto_context_pool_find(p, c, k)
  <2>1. h = p.allocs + 1
    BY <1>4, <1>10, Zenon
  <2>2. \A x \in q.active : x.handle = x.at /\ x.at <= p.allocs /\ x.at \in Nat
    BY <1>8, <1>9, <1>10, Zenon DEF Numbered
  <2>3. Numbered(r)
    BY <1>5, <1>8, <1>10, <2>1, <2>2 DEF Numbered
  <2>4. ASSUME NEW c, NEW k \in 0 .. p.allocs
        PROVE  /\ crypto_context_pool_find(r, c, k) \subseteq crypto_context_pool_find(p, c, k)
               /\ r.allocs < k + CRYPTO_CONTEXT_POOL_SIZE =>
                        crypto_context_pool_find(r, c, k) = crypto_context_pool_find(p, c, k)
    <3>1. k \in Nat /\ k # new.handle
      BY <1>5, <1>8, <2>1
    <3>2. crypto_context_pool_find(r, c, k) \subseteq crypto_context_pool_find(p, c, k)
      BY <1>8, <1>10, <3>1, Zenon DEF crypto_context_pool_find
    <3>3. ASSUME r.allocs < k + CRYPTO_CONTEXT_POOL_SIZE, NEW x \in crypto_context_pool_find(p, c, k)
          PROVE  x \in crypto_context_pool_find(r, c, k)
      <4>1. x \in p.active /\ x.handle = k /\ x.client = c
        BY Zenon DEF crypto_context_pool_find
      <4>2. x.at = k
        BY <1>10, <4>1, Zenon DEF Numbered
      <4>3. x \in q.active
        <5> SUFFICES ASSUME x \notin q.active
                     PROVE  FALSE
          BY Zenon
        <5>1. p.allocs + 1 >= x.at + CRYPTO_CONTEXT_POOL_SIZE
          BY <1>10, <4>1, RecycledIsOld, Zenon DEF q
        <5> QED
          BY <1>8, <1>10, <3>1, <3>3, <4>2, <5>1, PoolAssumption
      <4>4. x \in r.active
        BY <1>10, <3>1, <4>1, <4>3, Zenon
      <4> QED
        BY <4>1, <4>4, Zenon DEF crypto_context_pool_find
    <3>4. ASSUME r.allocs < k + CRYPTO_CONTEXT_POOL_SIZE
          PROVE  crypto_context_pool_find(r, c, k) = crypto_context_pool_find(p, c, k)
      BY <3>2, <3>3, <3>4, Zenon
    <3> QED
      BY <3>2, <3>4, Zenon
  <2> QED
    BY <2>3, <2>4, Zenon
<1>11. Grown(p, after)
  BY <1>6, <1>10, Zenon DEF Grown
<1>12. Grown(p, freed)
  BY <1>7, <1>10, Zenon DEF Grown
<1>13. ASSUME Numbered(p), after.allocs <= HandleMax
       PROVE  new.handle = after.allocs /\ crypto_context_pool_find(after, client, new.handle) = {new}
  <2>1. h = p.allocs + 1
    BY <1>4, <1>6, <1>13, Zenon
  <2>2. \A x \in q.active : x.handle # h
    BY <1>8, <1>9, <1>13, <2>1 DEF Numbered
  <2>3. crypto_context_pool_find(after, client, h) = {new}
    BY <1>5, <1>6, <2>2, Zenon DEF crypto_context_pool_find
  <2> QED
    BY <1>5, <1>6, <2>1, <2>3, Zenon
<1> QED
  BY <1>5, <1>11, <1>12, <1>13, Zenon DEF new, after, freed

-----------------------------------------------------------------------------
(***************************************************************************)
(* What the answers to the calls of `client' may be, by the kind of call.  *)
(***************************************************************************)
\* Nothing has happened, or there is a new context, with one of `ops' if the call is successful.
IsNew(p, client, ops, a) ==
    /\ AnswerShape(a)
    /\ \/ a.pool = p /\ a.status # "SUCCESS"
       \/ /\ Grown(p, a.pool)
          /\ (a.status = "SUCCESS" /\ Numbered(p) /\ a.pool.allocs <= HandleMax) =>
                /\ a.handle = a.pool.allocs
                /\ crypto_context_pool_find(a.pool, client, a.handle) # {}
                /\ \E op \in ops : \A x \in crypto_context_pool_find(a.pool, client, a.handle) : x.op = op

\* Only the client's context with this handle has changed; it has taken `input' if the call is successful.
IsFed(p, client, h, input, a) ==
    /\ AnswerShape(a)
    /\ Same(p, a.pool, client, h)
    /\ a.status = "SUCCESS" =>
        /\ crypto_context_pool_find(a.pool, client, h) # {}
        /\ \E x \in crypto_context_pool_find(p, client, h) :
            \A y \in crypto_context_pool_find(a.pool, client, h) : y.op = Fed(x.op, input)

\* Only the client's context with this handle has changed; it is gone if the call is successful.
IsEnd(p, client, h, a) ==
    /\ AnswerShape(a)
    /\ Same(p, a.pool, client, h)
    /\ a.status = "SUCCESS" => crypto_context_pool_find(a.pool, client, h) = {}

AllNew(p, client, ops, answers) == \A a \in answers : IsNew(p, client, ops, a)
AllFed(p, client, h, input, answers) == \A a \in answers : IsFed(p, client, h, input, a)
AllEnd(p, client, h, answers) == \A a \in answers : IsEnd(p, client, h, a)

\* A call that has no effect.
LEMMA SamePool ==
    ASSUME NEW p, NEW client, NEW h
    PROVE  Same(p, p, client, h)
BY Zenon DEF Same

\* An answer that says nothing about the pool but that it is not a success.
LEMMA AnswerFields ==
    ASSUME NEW p, NEW status
    PROVE  Answer(p, status).pool = p /\ Answer(p, status).status = status
BY Zenon DEF Answer

\* What the wrappers add: answers with the same pool that are no success.
LEMMA Wrapped ==
    ASSUME NEW answers, AllShape(answers), NEW b \in Serialized(answers) \cup Decoded(answers)
    PROVE  b \in answers \/ \E a \in answers : AnswerShape(b) /\ b.pool = a.pool /\ b.status # "SUCCESS"
<1>1. ASSUME NEW a \in answers, NEW status
      PROVE  [a EXCEPT !.status = status] = [pool |-> a.pool, status |-> status, handle |-> a.handle] /\ PoolShape(a.pool)
  BY DEF AllShape, AnswerShape
<1>2. \/ b \in answers
      \/ \E a \in answers : b = [a EXCEPT !.status = "ERROR"]
      \/ \E a \in answers : b = [a EXCEPT !.status = "BUFFER_TOO_SMALL"]
  BY Zenon DEF Serialized, Decoded
<1>3. ASSUME NEW a \in answers, NEW status, b = [a EXCEPT !.status = status], status # "SUCCESS"
      PROVE  AnswerShape(b) /\ b.pool = a.pool /\ b.status # "SUCCESS"
  <2>1. b = [pool |-> a.pool, status |-> status, handle |-> a.handle] /\ PoolShape(a.pool)
    BY <1>1, <1>3, Zenon
  <2>2. b.pool = a.pool /\ b.status = status /\ b.handle = a.handle
    BY <2>1, Zenon
  <2> QED
    BY <1>3, <2>1, <2>2, Zenon DEF AnswerShape
<1>4. "ERROR" # "SUCCESS" /\ "BUFFER_TOO_SMALL" # "SUCCESS"
  BY Zenon
<1> QED
  BY <1>2, <1>3, <1>4, Zenon

\* What is not sent, or not serialized, or does not fit keeps what is said of all inputs.
LEMMA WrappedFed ==
    ASSUME NEW p, PoolShape(p), NEW client, NEW h, NEW input, NEW answers, AllFed(p, client, h, input, answers)
    PROVE  /\ AllFed(p, client, h, input, Serialized(answers))
           /\ AllFed(p, client, h, input, Decoded(answers))
           /\ AllFed(p, client, h, input, Sent(p, answers))
           /\ IsFed(p, client, h, input, Answer(p, "ERROR"))
<1>1. AllShape(answers)
  BY Zenon DEF AllFed, IsFed, AllShape
<1>2. ASSUME NEW a \in answers, NEW b, AnswerShape(b), b.pool = a.pool, b.status # "SUCCESS"
      PROVE  IsFed(p, client, h, input, b)
  <2>1. IsFed(p, client, h, input, a)
    BY Zenon DEF AllFed
  <2> QED
    BY <1>2, <2>1, Zenon DEF IsFed
<1>3. \A b \in Serialized(answers) \cup Decoded(answers) : IsFed(p, client, h, input, b)
  BY <1>1, <1>2, Wrapped, Zenon DEF AllFed
<1>4. IsFed(p, client, h, input, Answer(p, "ERROR"))
  <2>1. AnswerShape(Answer(p, "ERROR")) /\ Answer(p, "ERROR").pool = p /\ Answer(p, "ERROR").status # "SUCCESS"
    BY AnswerKeeps, AnswerFields
  <2> QED
    BY <2>1, SamePool, Zenon DEF IsFed
<1> QED
  BY <1>3, <1>4, Zenon DEF AllFed, Sent

\* The same for the ends of operations.
LEMMA WrappedEnd ==
    ASSUME NEW p, PoolShape(p), NEW client, NEW h, NEW answers, AllEnd(p, client, h, answers)
    PROVE  /\ AllEnd(p, client, h, Serialized(answers))
           /\ AllEnd(p, client, h, Decoded(answers))
           /\ AllEnd(p, client, h, Sent(p, answers))
           /\ IsEnd(p, client, h, Answer(p, "ERROR"))
<1>1. AllShape(answers)
  BY Zenon DEF AllEnd, IsEnd, AllShape
<1>2. ASSUME NEW a \in answers, NEW b, AnswerShape(b), b.pool = a.pool, b.status # "SUCCESS"
      PROVE  IsEnd(p, client, h, b)
  <2>1. IsEnd(p, client, h, a)
    BY Zenon DEF AllEnd
  <2> QED
    BY <1>2, <2>1, Zenon DEF IsEnd
<1>3. \A b \in Serialized(answers) \cup Decoded(answers) : IsEnd(p, client, h, b)
  BY <1>1, <1>2, Wrapped, Zenon DEF AllEnd
<1>4. IsEnd(p, client, h, Answer(p, "ERROR"))
  <2>1. AnswerShape(Answer(p, "ERROR")) /\ Answer(p, "ERROR").pool = p /\ Answer(p, "ERROR").status # "SUCCESS"
    BY AnswerKeeps, AnswerFields
  <2> QED
    BY <2>1, SamePool, Zenon DEF IsEnd
<1> QED
  BY <1>3, <1>4, Zenon DEF AllEnd, Sent

\* The same for new operations.
LEMMA WrappedNew ==
    ASSUME NEW p, PoolShape(p), NEW client, NEW ops, NEW answers, AllNew(p, client, ops, answers)
    PROVE  /\ AllNew(p, client, ops, Serialized(answers))
           /\ AllNew(p, client, ops, Sent(p, answers))
           /\ IsNew(p, client, ops, Answer(p, "ERROR"))
<1>1. AllShape(answers)
  BY Zenon DEF AllNew, IsNew, AllShape
<1>2. ASSUME NEW a \in answers, NEW b, AnswerShape(b), b.pool = a.pool, b.status # "SUCCESS"
      PROVE  IsNew(p, client, ops, b)
  <2>1. IsNew(p, client, ops, a)
    BY Zenon DEF AllNew
  <2> QED
    BY <1>2, <2>1, Zenon DEF IsNew
<1>3. \A b \in Serialized(answers) \cup Decoded(answers) : IsNew(p, client, ops, b)
  BY <1>1, <1>2, Wrapped, Zenon DEF AllNew
<1>4. IsNew(p, client, ops, Answer(p, "ERROR"))
  <2>1. AnswerShape(Answer(p, "ERROR")) /\ Answer(p, "ERROR").pool = p /\ Answer(p, "ERROR").status # "SUCCESS"
    BY AnswerKeeps, AnswerFields
  <2> QED
    BY <2>1, Zenon DEF IsNew
<1> QED
  BY <1>3, <1>4, Zenon DEF AllNew, Sent

\* A setup has a new context, whether it is kept or freed again.
LEMMA SetupNew ==
    ASSUME NEW p, PoolShape(p), NEW client
    PROVE  AllNew(p, client, {SetUp(client)}, Setup(p, client))
<1> DEFINE new == NewContext(p, client, SetUp(client))
           after == crypto_context_pool_alloc(p, client, SetUp(client))
           kept == [pool |-> after, status |-> "SUCCESS", handle |-> new.handle]
           freed == Answer(crypto_context_pool_free(after, new), "ERROR")
<1>1. AllShape(Setup(p, client)) /\ Setup(p, client) = {kept} \cup {freed}
  BY SetupKeeps, Zenon DEF Setup
<1>2. /\ Grown(p, after) /\ Grown(p, crypto_context_pool_free(after, new)) /\ new.op = SetUp(client)
      /\ (Numbered(p) /\ after.allocs <= HandleMax) =>
            /\ new.handle = after.allocs
            /\ crypto_context_pool_find(after, client, new.handle) = {new}
  BY AllocGrows
<1> HIDE DEF new, after
<1>3. kept.pool = after /\ kept.handle = new.handle /\ freed.status # "SUCCESS" /\ freed.pool = crypto_context_pool_free(after, new)
  BY AnswerFields
<1> HIDE DEF kept, freed
<1>4. AnswerShape(kept) /\ AnswerShape(freed)
  BY <1>1, Zenon DEF AllShape
<1>5. IsNew(p, client, {SetUp(client)}, kept)
  BY <1>2, <1>3, <1>4, Zenon DEF IsNew
<1>6. IsNew(p, client, {SetUp(client)}, freed)
  BY <1>2, <1>3, <1>4, Zenon DEF IsNew
<1> QED
  BY <1>1, <1>5, <1>6, Zenon DEF AllNew

\* An input is taken by the context that is found, or it is no success.
LEMMA InputFed ==
    ASSUME NEW p, PoolShape(p), NEW client, NEW h, NEW input \in InputsOf(client)
    PROVE  AllFed(p, client, h, input, Input(p, client, h, input)) /\ AllFed(p, client, h, input, InputOutput(p, client, h, input))
<1> DEFINE found == crypto_context_pool_find(p, client, h)
           taken == {Answer(Put(p, x, Fed(x.op, input)), "SUCCESS") : x \in {y \in found : y.op.state = "active"}}
           refused == {Answer(Put(p, x, Refused(x.op)), "ERROR") : x \in found}
<1>1. AllShape(Input(p, client, h, input))
  BY InputKeeps, Zenon
<1>2. AnswerShape(Answer(p, "ERROR")) /\ Answer(p, "ERROR").pool = p /\ Answer(p, "ERROR").status # "SUCCESS"
  BY AnswerKeeps, AnswerFields
<1>3. Input(p, client, h, input) = taken \cup refused \cup (IF found = {} THEN {Answer(p, "ERROR")} ELSE {})
  BY Zenon DEF Input
<1>4. \A a \in Input(p, client, h, input) : AnswerShape(a)
  BY <1>1, Zenon DEF AllShape
<1>5. ASSUME NEW x \in found, NEW a \in Input(p, client, h, input), a = Answer(Put(p, x, Fed(x.op, input)), "SUCCESS")
      PROVE  IsFed(p, client, h, input, a)
  <2>1. AnswerShape(a) /\ a.pool = Put(p, x, Fed(x.op, input))
    BY <1>4, <1>5, AnswerFields, Zenon
  <2>2. /\ Same(p, a.pool, client, h)
        /\ crypto_context_pool_find(a.pool, client, h) # {}
        /\ \A y \in crypto_context_pool_find(a.pool, client, h) : y.op = Fed(x.op, input)
    BY <2>1, PutSame
  <2> QED
    BY <2>1, <2>2, Zenon DEF IsFed
<1>6. ASSUME NEW x \in found, NEW a \in Input(p, client, h, input), a = Answer(Put(p, x, Refused(x.op)), "ERROR")
      PROVE  IsFed(p, client, h, input, a)
  <2>1. AnswerShape(a) /\ a.pool = Put(p, x, Refused(x.op)) /\ a.status # "SUCCESS"
    BY <1>4, <1>6, AnswerFields
  <2>2. Same(p, a.pool, client, h)
    BY <2>1, PutSame
  <2> QED
    BY <2>1, <2>2, Zenon DEF IsFed
<1>7. IsFed(p, client, h, input, Answer(p, "ERROR"))
  BY <1>2, SamePool, Zenon DEF IsFed
<1>8. AllFed(p, client, h, input, Input(p, client, h, input))
  <2>1. \A a \in Input(p, client, h, input) :
            a \in taken \/ a \in refused \/ a = Answer(p, "ERROR")
    BY <1>3, Zenon
  <2> QED
    BY <1>5, <1>6, <1>7, <2>1, Zenon DEF AllFed
<1>9. AllFed(p, client, h, input, Serialized(Input(p, client, h, input)))
  BY <1>8, WrappedFed, Zenon
<1>10. AllFed(p, client, h, input, InputOutput(p, client, h, input))
  BY <1>7, <1>9, Zenon DEF InputOutput, AllFed
<1> QED
  BY <1>8, <1>10, Zenon

\* A finish and an abort are successful only if there is no context any more.
LEMMA FinishEnd ==
    ASSUME NEW p, PoolShape(p), NEW client, NEW h
    PROVE  AllEnd(p, client, h, Finish(p, client, h)) /\ AllEnd(p, client, h, Abort(p, client, h))
<1> DEFINE found == crypto_context_pool_find(p, client, h)
           done == {Answer(crypto_context_pool_free(p, x), "SUCCESS") : x \in {y \in found : y.op.state = "active"}}
           refused == {Answer(Put(p, x, Refused(x.op)), "ERROR") : x \in found}
           aborted == UNION {{Answer(crypto_context_pool_free(p, x), s) : s \in {"SUCCESS", "ERROR"}} : x \in found}
<1>1. AllShape(Finish(p, client, h)) /\ AllShape(Abort(p, client, h))
  BY FinishKeeps, Zenon
<1>2. /\ Answer(p, "ERROR").pool = p /\ Answer(p, "ERROR").status # "SUCCESS"
      /\ Answer(p, "SUCCESS").pool = p
  BY AnswerFields
<1>3. Finish(p, client, h) = done \cup refused \cup (IF found = {} THEN {Answer(p, "ERROR")} ELSE {})
  BY Zenon DEF Finish
<1>4. Abort(p, client, h) = aborted \cup (IF found = {} THEN {Answer(p, "SUCCESS")} ELSE {})
  BY Zenon DEF Abort
<1>5. ASSUME NEW x \in found, NEW s, NEW a, AnswerShape(a), a = Answer(crypto_context_pool_free(p, x), s)
      PROVE  IsEnd(p, client, h, a)
  <2>1. a.pool = crypto_context_pool_free(p, x)
    BY <1>5, AnswerFields, Zenon
  <2>2. Same(p, a.pool, client, h) /\ crypto_context_pool_find(a.pool, client, h) = {}
    BY <2>1, FreeSame, Zenon
  <2> QED
    BY <1>5, <2>2, Zenon DEF IsEnd
<1>6. ASSUME NEW x \in found, NEW a, AnswerShape(a), a = Answer(Put(p, x, Refused(x.op)), "ERROR")
      PROVE  IsEnd(p, client, h, a)
  <2>1. a.pool = Put(p, x, Refused(x.op)) /\ a.status # "SUCCESS"
    BY <1>6, AnswerFields
  <2>2. Same(p, a.pool, client, h)
    BY <2>1, PutSame
  <2> QED
    BY <1>6, <2>1, <2>2, Zenon DEF IsEnd
<1>7. AnswerShape(Answer(p, "ERROR")) /\ AnswerShape(Answer(p, "SUCCESS"))
  BY AnswerKeeps, Zenon
<1>8. IsEnd(p, client, h, Answer(p, "ERROR")) /\ (found = {} => IsEnd(p, client, h, Answer(p, "SUCCESS")))
  BY <1>2, <1>7, SamePool, Zenon DEF IsEnd
<1>9. AllEnd(p, client, h, Finish(p, client, h))
  <2>1. \A a \in Finish(p, client, h) : AnswerShape(a) /\ (a \in done \/ a \in refused \/ a = Answer(p, "ERROR"))
    BY <1>1, <1>3, Zenon DEF AllShape
  <2> QED
    BY <1>5, <1>6, <1>8, <2>1, Zenon DEF AllEnd
<1>10. AllEnd(p, client, h, Abort(p, client, h))
  <2>1. \A a \in Abort(p, client, h) : AnswerShape(a) /\ (a \in aborted \/ (found = {} /\ a = Answer(p, "SUCCESS")))
    BY <1>1, <1>4, Zenon DEF AllShape
  <2> QED
    BY <1>5, <1>8, <2>1, Zenon DEF AllEnd
<1> QED
  BY <1>9, <1>10, Zenon

\* A clone has what an active operation of its client has done.
LEMMA CloneNew ==
    ASSUME NEW p, PoolShape(p), NEW client, NEW h
    PROVE  AllNew(p, client, {x.op : x \in {y \in crypto_context_pool_find(p, client, h) : y.op.state = "active"}},
                  hash_clone_handler(p, client, h))
<1> DEFINE Target(op) == crypto_context_pool_alloc(p, client, op)
           One(x) == {[pool |-> Target(x.op), status |-> "SUCCESS", handle |-> NewContext(p, client, x.op).handle]}
           Cloned(x) == Serialized(One(x))
           Clone(x) == (IF x \in Recycled(p).active /\ x.op.state = "active" THEN Cloned(x) ELSE {})
                         \cup {Answer(Target(Inactive), "ERROR")}
           found == crypto_context_pool_find(p, client, h)
           ops == {x.op : x \in {y \in found : y.op.state = "active"}}
<1>1. hash_clone_handler(p, client, h) = IF found = {} THEN {Answer(p, "ERROR")} ELSE UNION {Clone(x) : x \in found}
  BY Zenon DEF hash_clone_handler
<1>2. AllShape(hash_clone_handler(p, client, h))
  BY CloneKeeps, Zenon
<1>3. IsNew(p, client, ops, Answer(p, "ERROR"))
  BY AnswerKeeps, AnswerFields DEF IsNew
<1>4. IsNew(p, client, ops, Answer(Target(Inactive), "ERROR"))
  <2>1. OwnOp(client, Inactive)
    BY DEF OwnOp, Inactive
  <2>2. PoolShape(Target(Inactive)) /\ Grown(p, Target(Inactive))
    BY <2>1, AllocShape, AllocGrows, Zenon
  <2> HIDE DEF Target
  <2> QED
    BY <2>2, AnswerKeeps, AnswerFields DEF IsNew
<1>a. ASSUME NEW op
      PROVE  (Numbered(p) /\ Target(op).allocs <= HandleMax) =>
                 /\ NewContext(p, client, op).handle = Target(op).allocs
                 /\ crypto_context_pool_find(Target(op), client, NewContext(p, client, op).handle) = {NewContext(p, client, op)}
  BY ONLY PoolShape(p), AllocGrows
<1>5. ASSUME NEW x \in found, x.op.state = "active"
      PROVE  AllNew(p, client, ops, Cloned(x))
  <2> DEFINE a == [pool |-> Target(x.op), status |-> "SUCCESS", handle |-> NewContext(p, client, x.op).handle]
  <2>1. OwnOp(client, x.op)
    <3>1. x \in p.active /\ x.client = client
      BY FoundIsOwn, Zenon
    <3> QED
      BY <3>1, Zenon DEF PoolShape, Context
  <2>2. PoolShape(Target(x.op))
    BY <2>1, AllocShape, Zenon
  <2>3. Grown(p, Target(x.op)) /\ NewContext(p, client, x.op).op = x.op
    BY AllocGrows
  <2>4. (Numbered(p) /\ Target(x.op).allocs <= HandleMax) =>
            /\ NewContext(p, client, x.op).handle = Target(x.op).allocs
            /\ crypto_context_pool_find(Target(x.op), client, NewContext(p, client, x.op).handle) = {NewContext(p, client, x.op)}
    BY <1>a, Zenon
  <2>5. x.op \in ops
    BY <1>5, Zenon
  <2> HIDE DEF Target, ops
  <2>6. a.pool = Target(x.op) /\ a.handle = NewContext(p, client, x.op).handle /\ AnswerShape(a)
    BY <2>2, Zenon DEF AnswerShape
  <2>7. One(x) = {a}
    BY Zenon
  <2> HIDE DEF a, One
  <2>8. IsNew(p, client, ops, a)
    BY <2>3, <2>4, <2>5, <2>6, Zenon DEF IsNew
  <2>9. AllNew(p, client, ops, One(x))
    BY <2>7, <2>8, Zenon DEF AllNew
  <2> QED
    BY <2>9, WrappedNew, Zenon
<1> HIDE DEF ops, Cloned, Target, found
<1>6. \A x \in found : AllNew(p, client, ops, Clone(x))
  BY <1>4, <1>5, Zenon DEF AllNew
<1> HIDE DEF Clone
<1>7. AllNew(p, client, ops, hash_clone_handler(p, client, h))
  <2>1. CASE found = {}
    BY <1>1, <1>3, <2>1, Zenon DEF AllNew
  <2>2. CASE found # {}
    <3>1. hash_clone_handler(p, client, h) = UNION {Clone(x) : x \in found}
      BY <1>1, <2>2, Zenon
    <3> QED
      BY <1>6, <3>1, Zenon DEF AllNew
  <2> QED
    BY <2>1, <2>2, Zenon
<1> QED
  BY <1>7, Zenon DEF ops, found

-----------------------------------------------------------------------------
(***************************************************************************)
(* The steps of the clients.                                               *)
(***************************************************************************)
\* No context has the handle 0.
LEMMA ZeroFindsNothing ==
    ASSUME NEW p, PoolShape(p), NEW client
    PROVE  crypto_context_pool_find(p, client, 0) = {}
BY DEF PoolShape, Context, crypto_context_pool_find

\* A call for one operation object leaves what the others may rely on.
LEMMA OthersKeep ==
    ASSUME Inv, Unique, NEW o \in Operations, PoolShape(pool'), Same(pool, pool', Client[o], handle[o]),
           handle' = handle, NEW t \in Operations, t # o, view'[t] = view[t]
    PROVE  Tracked(t)'
<1>1. Tracked(t) /\ PoolShape(pool) /\ OwnHandles
  BY Zenon DEF Inv
<1>2. crypto_context_pool_find(pool', Client[t], handle[t]) = crypto_context_pool_find(pool, Client[t], handle[t])
  <2>1. CASE Client[t] # Client[o] \/ handle[t] # handle[o]
    BY <2>1, Zenon DEF Same
  <2>2. CASE handle[t] = handle[o]
    <3>1. handle[t] = 0
      BY <1>1, <2>2, Zenon DEF OwnHandles
    <3> QED
      BY <1>1, <3>1, ZeroFindsNothing, Zenon
  <2> QED
    BY <2>1, <2>2, Zenon
<1>3. Found(t)' = Found(t) /\ pool'.allocs = pool.allocs
  BY <1>2, Zenon DEF Found, Same
<1> QED
  BY <1>1, <1>3, Zenon DEF Tracked

\* A call of an operation object that makes no new one.
LEMMA CallKeepsInv ==
    ASSUME Inv, NEW o \in Operations, PoolShape(pool'), Same(pool, pool', Client[o], handle[o]), handle' = handle,
           NEW v, view' = [view EXCEPT ![o] = v], v = [state |-> v.state, sent |-> v.sent, at |-> v.at],
           Unique => (Tracked(o)' \/ v.state \notin {"live", "ended"})
    PROVE  Inv'
<1>1. PoolShape(pool) /\ Views /\ (Unique => Numbered(pool) /\ OwnHandles /\ \A t \in Operations : Tracked(t))
  BY Zenon DEF Inv
<1>2. view'[o] = v /\ \A t \in Operations : t # o => view'[t] = view[t]
  BY <1>1, Zenon DEF Views
<1>3. Views'
  <2>1. view' = [t \in Operations |-> view'[t]]
    BY <1>1, Zenon DEF Views
  <2>2. \A t \in Operations : view'[t] = [state |-> view'[t].state, sent |-> view'[t].sent, at |-> view'[t].at]
    BY <1>1, <1>2, Zenon DEF Views
  <2> QED
    BY <1>1, <2>1, <2>2, Zenon DEF Views
<1>4. pool'.allocs = pool.allocs /\ Unique' = Unique
  BY Zenon DEF Same, Unique
<1>5. ASSUME Unique
      PROVE  Numbered(pool)' /\ OwnHandles' /\ \A t \in Operations : Tracked(t)'
  <2>1. Numbered(pool)'
    BY <1>1, <1>5, Zenon DEF Same, Numbered
  <2>2. OwnHandles'
    BY <1>1, <1>4, <1>5, Zenon DEF OwnHandles
  <2>3. Tracked(o)'
    <3>1. v.state \notin {"live", "ended"} => Tracked(o)'
      BY <1>2, Zenon DEF Tracked
    <3> QED
      BY <1>5, <3>1, Zenon
  <2> QED
    BY <1>2, <1>5, <2>1, <2>2, <2>3, OthersKeep, Zenon
<1> QED
  BY <1>3, <1>4, <1>5, Zenon DEF Inv

\* An input of a client is added to what it has sent exactly if its context has taken it.
LEMMA InputStep ==
    ASSUME Inv, NEW o \in Operations, NEW call, NEW answers, NEW extra,
           AllFed(pool, Client[o], handle[o], Data(o, call), answers), InputCall(o, call, answers, extra)
    PROVE  Inv'
<1> DEFINE input == Data(o, call)
<1>1. PICK a \in answers :
        /\ pool' = a.pool
        /\ view' = [view EXCEPT ![o] =
                        IF @.state = "live" /\ a.status = "SUCCESS" THEN Live(Append(@.sent, input), @.at)
                        ELSE IF @.state = "live" THEN Failed ELSE @]
  BY Zenon DEF InputCall
<1>2. handle' = handle
  BY Zenon DEF InputCall
<1>3. /\ PoolShape(pool') /\ Same(pool, pool', Client[o], handle[o])
      /\ a.status = "SUCCESS" =>
            /\ crypto_context_pool_find(pool', Client[o], handle[o]) # {}
            /\ \E x \in crypto_context_pool_find(pool, Client[o], handle[o]) :
                \A y \in crypto_context_pool_find(pool', Client[o], handle[o]) : y.op = Fed(x.op, input)
  BY <1>1, Zenon DEF AllFed, IsFed, AnswerShape
<1>4. /\ view[o] = [state |-> view[o].state, sent |-> view[o].sent, at |-> view[o].at]
      /\ view = [t \in Operations |-> view[t]]
  BY Zenon DEF Inv, Views
<1>5. Found(o) = crypto_context_pool_find(pool, Client[o], handle[o])
     /\ Found(o)' = crypto_context_pool_find(pool', Client[o], handle[o])
  BY <1>2, Zenon DEF Found
<1>6. pool'.allocs = pool.allocs
  BY <1>3, Zenon DEF Same
<1> HIDE DEF input
<1>7. CASE view[o].state = "live" /\ a.status = "SUCCESS"
  <2> DEFINE v == Live(Append(view[o].sent, input), view[o].at)
  <2>1. v = [state |-> v.state, sent |-> v.sent, at |-> v.at]
    BY Zenon DEF Live
  <2>2. v.state = "live" /\ v.sent = Append(view[o].sent, input) /\ v.at = view[o].at
    BY Zenon DEF Live
  <2> HIDE DEF v
  <2>3. view' = [view EXCEPT ![o] = v]
    BY <1>1, <1>7, Zenon DEF v
  <2>4. view'[o] = v
    BY <1>4, <2>3, Zenon
  <2>5. ASSUME Unique
        PROVE  Tracked(o)'
    <3>1. Tracked(o)
      BY <2>5, Zenon DEF Inv
    <3>2. handle'[o] = view'[o].at
      BY <1>2, <1>7, <2>2, <2>4, <3>1, Zenon DEF Tracked
    <3>3. PICK x \in Found(o) : \A y \in Found(o)' : y.op = Fed(x.op, input)
      BY <1>3, <1>5, <1>7, Zenon
    <3>4. x.op = [state |-> "active", key |-> Client[o], done |-> view[o].sent]
      BY <1>7, <3>1, <3>3, Zenon DEF Tracked
    <3>5. Fed(x.op, input) = [state |-> "active", key |-> Client[o], done |-> Append(view[o].sent, input)]
      <4>1. x.op.state = "active" /\ x.op.key = Client[o] /\ x.op.done = view[o].sent
        BY ONLY <3>4
      <4> QED
        BY <3>4, <4>1, FedIs, Zenon
    <3>6. \A y \in Found(o)' : y.op = [state |-> "active", key |-> Client[o], done |-> view'[o].sent]
      BY <2>2, <2>4, <3>3, <3>5, Zenon
    <3>7. Found(o)' # {}
      BY <1>3, <1>5, <1>7, Zenon
    <3>8. view'[o].state # "ended"
      BY <2>2, <2>4, Zenon
    <3> QED
      BY <3>2, <3>6, <3>7, <3>8, Zenon DEF Tracked
  <2> QED
    BY <1>2, <1>3, <2>1, <2>3, <2>5, CallKeepsInv, Zenon
<1>8. CASE view[o].state = "live" /\ a.status # "SUCCESS"
  <2>1. view' = [view EXCEPT ![o] = Failed]
    BY <1>1, <1>8, Zenon
  <2>2. Failed.state \notin {"live", "ended"} /\ Failed = [state |-> Failed.state, sent |-> Failed.sent, at |-> Failed.at]
    BY Zenon DEF Failed
  <2> QED
    BY <1>2, <1>3, <2>1, <2>2, CallKeepsInv, Zenon
<1>9. CASE view[o].state # "live"
  <2>1. view' = [view EXCEPT ![o] = view[o]]
    BY <1>1, <1>9, Zenon
  <2>2. view'[o] = view[o]
    BY <1>4, <2>1, Zenon
  <2>3. ASSUME Unique
        PROVE  Tracked(o)'
    <3>1. Tracked(o)
      BY <2>3, Zenon DEF Inv
    <3>2. view[o].state = "ended" => Found(o)' = {}
      BY <1>3, <1>5, <3>1, Zenon DEF Same, Tracked
    <3> QED
      BY <1>9, <2>2, <3>2, Zenon DEF Tracked
  <2> QED
    BY <1>2, <1>3, <1>4, <2>1, <2>3, CallKeepsInv, Zenon
<1> QED
  BY <1>7, <1>8, <1>9, Zenon

\* An operation has ended for its client exactly if there is no context for it any more.
LEMMA EndStep ==
    ASSUME Inv, NEW o \in Operations, NEW call, NEW answers, NEW aborts,
           AllEnd(pool, Client[o], handle[o], answers),
           FinishCall(o, call, answers, aborts) \/ AbortCall(o, call, answers)
    PROVE  Inv'
<1>1. PICK a \in answers :
        /\ pool' = a.pool
        /\ view' = [view EXCEPT ![o] = IF view[o].state = "none" THEN view[o] ELSE IF a.status = "SUCCESS" THEN Ended ELSE Failed]
  BY Zenon DEF FinishCall, AbortCall
<1>2. handle' = handle
  BY Zenon DEF FinishCall, AbortCall
<1>3. /\ PoolShape(pool') /\ Same(pool, pool', Client[o], handle[o])
      /\ a.status = "SUCCESS" => crypto_context_pool_find(pool', Client[o], handle[o]) = {}
  BY <1>1, Zenon DEF AllEnd, IsEnd, AnswerShape
<1>4. /\ view[o] = [state |-> view[o].state, sent |-> view[o].sent, at |-> view[o].at]
      /\ view = [t \in Operations |-> view[t]]
  BY Zenon DEF Inv, Views
<1>5. PICK v : /\ view' = [view EXCEPT ![o] = v]
               /\ v = IF view[o].state = "none" THEN view[o] ELSE IF a.status = "SUCCESS" THEN Ended ELSE Failed
  BY <1>1, Zenon
<1>6. view'[o] = v
  BY <1>4, <1>5, Zenon
<1>7. v = [state |-> v.state, sent |-> v.sent, at |-> v.at]
  <2>1. Ended = [state |-> Ended.state, sent |-> Ended.sent, at |-> Ended.at]
    BY Zenon DEF Ended
  <2>2. Failed = [state |-> Failed.state, sent |-> Failed.sent, at |-> Failed.at]
    BY Zenon DEF Failed
  <2> QED
    BY <1>4, <1>5, <2>1, <2>2, Zenon
<1>8. v.state \notin {"live", "ended"} \/ (v.state = "ended" /\ a.status = "SUCCESS")
  BY <1>5, Zenon DEF Ended, Failed
<1>9. v.state = "ended" /\ a.status = "SUCCESS" => Tracked(o)'
  <2>1. Found(o)' = crypto_context_pool_find(pool', Client[o], handle[o])
    BY <1>2, Zenon DEF Found
  <2>2. v.state = "ended" => view'[o].state # "live"
    BY <1>6, Zenon
  <2> QED
    BY <1>3, <2>1, <2>2, Zenon DEF Tracked
<1> QED
  BY <1>2, <1>3, <1>5, <1>7, <1>8, <1>9, CallKeepsInv, Zenon

\* A new context leaves what the other operation objects may rely on.
LEMMA GrownKeeps ==
    ASSUME Inv, Unique, Unique', Grown(pool, pool'), NEW t \in Operations, handle'[t] = handle[t], view'[t] = view[t]
    PROVE  Tracked(t)'
<1>1. Tracked(t) /\ Numbered(pool) /\ handle[t] \in 0 .. pool.allocs /\ pool.allocs \in Nat
  BY Zenon DEF Inv, OwnHandles, PoolShape
<1>2. pool'.allocs = pool.allocs + 1 /\ pool'.allocs <= HandleMax
  BY Zenon DEF Grown, Unique
<1>3. /\ crypto_context_pool_find(pool', Client[t], handle[t]) \subseteq crypto_context_pool_find(pool, Client[t], handle[t])
      /\ pool'.allocs < handle[t] + CRYPTO_CONTEXT_POOL_SIZE =>
            crypto_context_pool_find(pool', Client[t], handle[t]) = crypto_context_pool_find(pool, Client[t], handle[t])
  BY <1>1, <1>2, Zenon DEF Grown
<1>4. Found(t)' \subseteq Found(t) /\ (pool'.allocs < handle[t] + CRYPTO_CONTEXT_POOL_SIZE => Found(t)' = Found(t))
  BY <1>3, Zenon DEF Found
<1>5. pool'.allocs < handle[t] + CRYPTO_CONTEXT_POOL_SIZE => pool.allocs < handle[t] + CRYPTO_CONTEXT_POOL_SIZE
  BY <1>1, <1>2, PoolAssumption
<1>6. view[t].state = "live" => handle[t] = view[t].at
  BY <1>1, Zenon DEF Tracked
<1> QED
  BY <1>1, <1>4, <1>5, <1>6, Zenon DEF Tracked

(***************************************************************************)
(* A call that makes a new context, for the operation object t if it is    *)
(* successful: its handle is greater than all that were given out, so it   *)
(* names no other context, and no other operation object has it.           *)
(***************************************************************************)
LEMMA NewKeepsInv ==
    ASSUME Inv, NEW t \in Operations, NEW a, AnswerShape(a), pool' = a.pool,
           Views',
           \A o \in Operations : o # t => handle'[o] = handle[o] /\ view'[o] = view[o],
           a.status # "SUCCESS" => handle'[t] = handle[t] /\ view'[t] = view[t],
           a.status = "SUCCESS" => handle'[t] = a.handle,
           (a.pool = pool /\ a.status # "SUCCESS") \/ Grown(pool, a.pool),
           (Unique /\ Unique' /\ a.status = "SUCCESS") => (a.handle = a.pool.allocs /\ Tracked(t)')
    PROVE  Inv'
<1>1. PoolShape(pool) /\ Views /\ (Unique => Numbered(pool) /\ OwnHandles /\ \A o \in Operations : Tracked(o))
  BY Zenon DEF Inv
<1>2. PoolShape(pool')
  BY Zenon DEF AnswerShape
<1>5. pool.allocs \in Nat /\ (pool'.allocs = pool.allocs \/ pool'.allocs = pool.allocs + 1)
  BY <1>1, Zenon DEF PoolShape, Grown
<1>6. Unique' => Unique
  BY <1>5, PoolAssumption DEF Unique
<1>7. ASSUME Unique'
      PROVE  Numbered(pool)' /\ OwnHandles' /\ \A o \in Operations : Tracked(o)'
  <2>1. CASE a.pool = pool /\ a.status # "SUCCESS"
    <3>1. \A o \in Operations : handle'[o] = handle[o] /\ view'[o] = view[o]
      BY <2>1, Zenon
    <3>2. pool' = pool
      BY <2>1, Zenon
    <3>3. OwnHandles'
      <4>1. OwnHandles
        BY <1>1, <1>6, <1>7, Zenon
      <4> QED
        BY ONLY <4>1, <3>1, <3>2, Zenon DEF OwnHandles
    <3>4. ASSUME NEW o \in Operations
          PROVE  Tracked(o)'
      <4>1. Tracked(o) /\ handle'[o] = handle[o] /\ view'[o] = view[o]
        BY <1>1, <1>6, <1>7, <3>1, Zenon
      <4>2. Found(o)' = Found(o)
        BY <3>2, <4>1, Zenon DEF Found
      <4> QED
        BY <3>2, <4>1, <4>2, Zenon DEF Tracked
    <3> QED
      BY <1>1, <1>6, <1>7, <3>2, <3>3, <3>4, Zenon
  <2>2. CASE Grown(pool, a.pool)
    <3>1. Grown(pool, pool') /\ pool'.allocs = pool.allocs + 1 /\ pool'.allocs <= HandleMax
      BY <1>7, <2>2, Zenon DEF Grown, Unique
    <3>2. Numbered(pool)'
      <4>1. Numbered(pool')
        BY <1>1, <1>6, <1>7, <3>1, Zenon DEF Grown
      <4> QED
        BY <4>1, Zenon DEF Numbered
    <3>3. \A o \in Operations : handle[o] \in 0 .. pool.allocs
      BY <1>1, <1>6, <1>7, Zenon DEF OwnHandles
    <3>4. \A o, u \in Operations : handle[o] = handle[u] /\ handle[o] # 0 => o = u
      BY <1>1, <1>6, <1>7, Zenon DEF OwnHandles
    <3>5. \A o \in Operations : handle'[o] = handle[o] \/ (o = t /\ handle'[o] = pool.allocs + 1)
      BY <1>6, <1>7, <3>1, Zenon
    <3>6. \A o \in Operations : handle'[o] \in 0 .. pool'.allocs
      BY <1>5, <3>1, <3>3, <3>5
    <3>7. \A o, u \in Operations : handle'[o] = handle'[u] /\ handle'[o] # 0 => o = u
      BY <1>5, <3>3, <3>4, <3>5
    <3>8. OwnHandles'
      BY <3>6, <3>7, Zenon DEF OwnHandles
    <3>9. ASSUME NEW o \in Operations
          PROVE  Tracked(o)'
      <4>1. CASE o = t /\ a.status = "SUCCESS"
        BY <1>6, <1>7, <4>1, Zenon
      <4>2. CASE ~(o = t /\ a.status = "SUCCESS")
        <5>1. handle'[o] = handle[o] /\ view'[o] = view[o]
          BY <4>2, Zenon
        <5> QED
          BY <1>6, <1>7, <3>1, <5>1, GrownKeeps, Zenon
      <4> QED
        BY <4>1, <4>2, Zenon
    <3> QED
      BY <3>2, <3>8, <3>9, Zenon
  <2> QED
    BY <2>1, <2>2, Zenon
<1> QED
  BY <1>2, <1>7, Zenon DEF Inv

\* The context of an operation that is set up is new and has taken nothing.
LEMMA SetupStep ==
    ASSUME Inv, NEW o \in Operations, NEW call, NEW answers,
           AllNew(pool, Client[o], {SetUp(Client[o])}, answers), SetupCall(o, call, answers)
    PROVE  Inv'
<1>1. PICK a \in answers :
        /\ pool' = a.pool
        /\ handle' = [handle EXCEPT ![o] = IF a.status = "SUCCESS" THEN a.handle ELSE @]
        /\ view' = [view EXCEPT ![o] = IF a.status = "SUCCESS" THEN Live(<<>>, a.pool.allocs) ELSE @]
  BY Zenon DEF SetupCall
<1>2. PICK v : v = Live(<<>>, a.pool.allocs)
  BY Zenon
<1>3. view' = [view EXCEPT ![o] = IF a.status # "SUCCESS" THEN @ ELSE v]
  BY <1>1, <1>2, Zenon
<1>4. /\ v = [state |-> v.state, sent |-> v.sent, at |-> v.at]
      /\ v.state = "live" /\ v.sent = <<>> /\ v.at = a.pool.allocs
  BY <1>2, Zenon DEF Live
<1>5. IsNew(pool, Client[o], {SetUp(Client[o])}, a)
  BY Zenon DEF AllNew
<1>6. AnswerShape(a) /\ ((a.pool = pool /\ a.status # "SUCCESS") \/ Grown(pool, a.pool))
  BY <1>5, Zenon DEF IsNew
<1>7. ASSUME Unique, Unique', a.status = "SUCCESS"
      PROVE  a.handle = a.pool.allocs /\ Tracked(o)'
  <2>1. Numbered(pool) /\ handle = [t \in Operations |-> handle[t]] /\ view = [t \in Operations |-> view[t]]
    BY <1>7, Zenon DEF Inv, Views
  <2>2. a.pool.allocs <= HandleMax
    BY <1>1, <1>7, Zenon DEF Unique
  <2>3. /\ a.handle = a.pool.allocs
        /\ crypto_context_pool_find(a.pool, Client[o], a.handle) # {}
        /\ \A x \in crypto_context_pool_find(a.pool, Client[o], a.handle) : x.op = SetUp(Client[o])
    BY <1>5, <1>7, <2>1, <2>2, Zenon DEF IsNew
  <2>4. handle'[o] = a.handle /\ view'[o] = v
    BY <1>1, <1>3, <1>7, <2>1, Zenon
  <2>5. Found(o)' = crypto_context_pool_find(a.pool, Client[o], a.handle)
    BY <1>1, <2>4, Zenon DEF Found
  <2>6. SetUp(Client[o]) = [state |-> "active", key |-> Client[o], done |-> view'[o].sent]
    BY <1>4, <2>4, Zenon DEF SetUp
  <2>7. view'[o].state # "ended"
    BY <1>4, <2>4, Zenon
  <2>8. Tracked(o)'
    BY <1>4, <2>3, <2>4, <2>5, <2>6, <2>7, Zenon DEF Tracked
  <2> QED
    BY <2>3, <2>8, Zenon
<1>8. handle = [u \in Operations |-> handle[u]] /\ view = [u \in Operations |-> view[u]]
  BY Zenon DEF Inv, Views
<1>9. /\ \A u \in Operations : u # o => handle'[u] = handle[u] /\ view'[u] = view[u]
      /\ a.status # "SUCCESS" => handle'[o] = handle[o] /\ view'[o] = view[o]
      /\ a.status = "SUCCESS" => handle'[o] = a.handle /\ view'[o] = v
  BY <1>1, <1>3, <1>8, Zenon
<1>10. Views'
  <2>1. view' = [u \in Operations |-> view'[u]] /\ handle' = [u \in Operations |-> handle'[u]]
    BY <1>1, <1>3, <1>8, Zenon
  <2>2. \A u \in Operations : view[u] = [state |-> view[u].state, sent |-> view[u].sent, at |-> view[u].at]
    BY Zenon DEF Inv, Views
  <2>3. \A u \in Operations : view'[u] = view[u] \/ view'[u] = v
    BY <1>9, Zenon
  <2> QED
    BY <1>4, <2>1, <2>2, <2>3, Zenon DEF Views
<1>11. (Unique /\ Unique' /\ a.status = "SUCCESS") => (a.handle = a.pool.allocs /\ Tracked(o)')
  BY <1>7, Zenon
<1> QED
  BY <1>1, <1>6, <1>9, <1>10, <1>11, NewKeepsInv, Zenon

\* The context of a clone is new and has taken what its source has.
LEMMA CloneStep ==
    ASSUME Inv, NEW o \in Operations, NEW t \in Operations, NEW answers,
           AllNew(pool, Client[o],
                  {x.op : x \in {y \in crypto_context_pool_find(pool, Client[o], handle[o]) : y.op.state = "active"}}, answers),
           CloneCall(o, t, answers)
    PROVE  Inv'
<1> DEFINE ops == {x.op : x \in {y \in Found(o) : y.op.state = "active"}}
<1>0. AllNew(pool, Client[o], ops, answers)
  BY Zenon DEF Found
<1>1. PICK a \in answers :
        /\ pool' = a.pool
        /\ handle' = [handle EXCEPT ![t] = IF a.status = "SUCCESS" THEN a.handle ELSE @]
        /\ view' = [view EXCEPT ![t] = IF a.status # "SUCCESS" THEN @
                                       ELSE IF view[o].state = "live" THEN Live(view[o].sent, a.pool.allocs)
                                       ELSE Failed]
  BY Zenon DEF CloneCall
<1>2. PICK v : v = IF view[o].state = "live" THEN Live(view[o].sent, a.pool.allocs) ELSE Failed
  BY Zenon
<1>3. view' = [view EXCEPT ![t] = IF a.status # "SUCCESS" THEN @ ELSE v]
  BY <1>1, <1>2, Zenon
<1>4. /\ v = [state |-> v.state, sent |-> v.sent, at |-> v.at] /\ v.state # "ended"
      /\ v.state = "live" => view[o].state = "live" /\ v.sent = view[o].sent /\ v.at = a.pool.allocs
  BY <1>2, Zenon DEF Live, Failed
<1> HIDE DEF ops
<1>5. IsNew(pool, Client[o], ops, a) /\ Client[o] = Client[t]
  BY <1>0, Zenon DEF AllNew, CloneCall
<1>6. AnswerShape(a) /\ ((a.pool = pool /\ a.status # "SUCCESS") \/ Grown(pool, a.pool))
  BY <1>5, Zenon DEF IsNew
<1>7. ASSUME Unique, Unique', a.status = "SUCCESS"
      PROVE  a.handle = a.pool.allocs /\ Tracked(t)'
  <2>1. Numbered(pool) /\ handle = [u \in Operations |-> handle[u]] /\ view = [u \in Operations |-> view[u]] /\ Tracked(o)
    BY <1>7, Zenon DEF Inv, Views
  <2>2. a.pool.allocs <= HandleMax
    BY <1>1, <1>7, Zenon DEF Unique
  <2>3. /\ a.handle = a.pool.allocs
        /\ crypto_context_pool_find(a.pool, Client[t], a.handle) # {}
        /\ \E op \in ops : \A x \in crypto_context_pool_find(a.pool, Client[t], a.handle) : x.op = op
    BY <1>5, <1>7, <2>1, <2>2, Zenon DEF IsNew
  <2>4. handle'[t] = a.handle /\ view'[t] = v
    BY <1>1, <1>3, <1>7, <2>1, Zenon
  <2>5. Found(t)' = crypto_context_pool_find(a.pool, Client[t], a.handle)
    BY <1>1, <2>4, Zenon DEF Found
  <2>6. view[o].state = "live" => \A op \in ops : op = [state |-> "active", key |-> Client[t], done |-> view[o].sent]
    BY <1>5, <2>1, Zenon DEF Tracked, ops
  <2>7. Tracked(t)'
    BY <1>4, <2>3, <2>4, <2>5, <2>6, Zenon DEF Tracked
  <2> QED
    BY <2>3, <2>7, Zenon
<1>8. handle = [u \in Operations |-> handle[u]] /\ view = [u \in Operations |-> view[u]]
  BY Zenon DEF Inv, Views
<1>9. /\ \A u \in Operations : u # t => handle'[u] = handle[u] /\ view'[u] = view[u]
      /\ a.status # "SUCCESS" => handle'[t] = handle[t] /\ view'[t] = view[t]
      /\ a.status = "SUCCESS" => handle'[t] = a.handle /\ view'[t] = v
  BY <1>1, <1>3, <1>8, Zenon
<1>10. Views'
  <2>1. view' = [u \in Operations |-> view'[u]] /\ handle' = [u \in Operations |-> handle'[u]]
    BY <1>1, <1>3, <1>8, Zenon
  <2>2. \A u \in Operations : view[u] = [state |-> view[u].state, sent |-> view[u].sent, at |-> view[u].at]
    BY Zenon DEF Inv, Views
  <2>3. \A u \in Operations : view'[u] = view[u] \/ view'[u] = v
    BY <1>9, Zenon
  <2> QED
    BY <1>4, <2>1, <2>2, <2>3, Zenon DEF Views
<1>11. (Unique /\ Unique' /\ a.status = "SUCCESS") => (a.handle = a.pool.allocs /\ Tracked(t)')
  BY <1>7, Zenon
<1> QED
  BY <1>1, <1>6, <1>9, <1>10, <1>11, NewKeepsInv, Zenon

\* What the handlers of all kinds are made of, for the call of an operation object.
LEMMA PartsGive ==
    ASSUME PoolShape(pool), NEW o \in Operations
    PROVE  /\ AllNew(pool, Client[o], {SetUp(Client[o])}, Setup(pool, Client[o]))
           /\ AllEnd(pool, Client[o], handle[o], Finish(pool, Client[o], handle[o]))
           /\ AllEnd(pool, Client[o], handle[o], Abort(pool, Client[o], handle[o]))
           /\ \A input \in InputsOf(Client[o]) :
                /\ AllFed(pool, Client[o], handle[o], input, Input(pool, Client[o], handle[o], input))
                /\ AllFed(pool, Client[o], handle[o], input, InputOutput(pool, Client[o], handle[o], input))
BY SetupNew, InputFed, FinishEnd, Zenon

\* The hash functions keep the invariant.
LEMMA HashKeeps ==
    ASSUME Inv, NEW o \in Operations, psa_hash(o)
    PROVE  Inv'
<1>0. PoolShape(pool)
  BY Zenon DEF Inv
<1>1. Data(o, "hash_update") \in InputsOf(Client[o])
  BY Zenon DEF Data, InputsOf, InputCalls
<1>2. AllNew(pool, Client[o], {SetUp(Client[o])}, crypto_caller_hash_setup(pool, Client[o]))
  BY <1>0, PartsGive, WrappedNew, Zenon DEF crypto_caller_hash_setup, hash_setup_handler
<1>3. AllFed(pool, Client[o], handle[o], Data(o, "hash_update"),
             crypto_caller_hash_update(pool, Client[o], handle[o], Data(o, "hash_update")))
  BY <1>0, <1>1, PartsGive, WrappedFed, Zenon DEF crypto_caller_hash_update, hash_update_handler
<1>4. AllEnd(pool, Client[o], handle[o], crypto_caller_hash_finish(pool, Client[o], handle[o]))
  BY <1>0, PartsGive, WrappedEnd, Zenon DEF crypto_caller_hash_finish, hash_finish_handler
<1>5. AllEnd(pool, Client[o], handle[o], crypto_caller_hash_abort(pool, Client[o], handle[o]))
  BY <1>0, PartsGive, WrappedEnd, Zenon DEF crypto_caller_hash_abort, hash_abort_handler
<1>6. AllEnd(pool, Client[o], handle[o], crypto_caller_hash_verify(pool, Client[o], handle[o]))
  BY <1>0, PartsGive, WrappedEnd, Zenon DEF crypto_caller_hash_verify, hash_verify_handler
<1>7. AllNew(pool, Client[o],
             {x.op : x \in {y \in Found(o) : y.op.state = "active"}}, crypto_caller_hash_clone(pool, Client[o], handle[o]))
  BY <1>0, CloneNew, WrappedNew, Zenon DEF crypto_caller_hash_clone, Found
<1> QED
  BY <1>2, <1>3, <1>4, <1>5, <1>6, <1>7, SetupStep, InputStep, EndStep, CloneStep, Zenon DEF psa_hash, Found

\* The MAC functions keep the invariant.
LEMMA MacKeeps ==
    ASSUME Inv, NEW o \in Operations, psa_mac(o)
    PROVE  Inv'
<1>0. PoolShape(pool)
  BY Zenon DEF Inv
<1>1. Data(o, "mac_update") \in InputsOf(Client[o])
  BY Zenon DEF Data, InputsOf, InputCalls
<1>2. AllNew(pool, Client[o], {SetUp(Client[o])}, common_mac_setup(pool, Client[o]))
  BY <1>0, PartsGive, WrappedNew, Zenon DEF common_mac_setup, mac_setup_handler
<1>3. AllFed(pool, Client[o], handle[o], Data(o, "mac_update"),
             crypto_caller_mac_update(pool, Client[o], handle[o], Data(o, "mac_update")))
  BY <1>0, <1>1, PartsGive, WrappedFed, Zenon DEF crypto_caller_mac_update, mac_update_handler
<1>4. AllEnd(pool, Client[o], handle[o], crypto_caller_mac_sign_finish(pool, Client[o], handle[o]))
  BY <1>0, PartsGive, WrappedEnd, Zenon DEF crypto_caller_mac_sign_finish, mac_sign_finish_handler
<1>5. AllEnd(pool, Client[o], handle[o], crypto_caller_mac_verify_finish(pool, Client[o], handle[o]))
  BY <1>0, PartsGive, WrappedEnd, Zenon DEF crypto_caller_mac_verify_finish, mac_verify_finish_handler
<1>6. AllEnd(pool, Client[o], handle[o], crypto_caller_mac_abort(pool, Client[o], handle[o]))
  BY <1>0, PartsGive, WrappedEnd, Zenon DEF crypto_caller_mac_abort, mac_abort_handler
<1> QED
  BY <1>2, <1>3, <1>4, <1>5, <1>6, SetupStep, InputStep, EndStep, Zenon DEF psa_mac

\* The cipher functions keep the invariant.
LEMMA CipherKeeps ==
    ASSUME Inv, NEW o \in Operations, psa_cipher(o)
    PROVE  Inv'
<1>0. PoolShape(pool)
  BY Zenon DEF Inv
<1>1. /\ Data(o, "cipher_generate_iv") \in InputsOf(Client[o])
      /\ Data(o, "cipher_set_iv") \in InputsOf(Client[o])
      /\ Data(o, "cipher_update") \in InputsOf(Client[o])
  BY Zenon DEF Data, InputsOf, InputCalls
<1>2. AllNew(pool, Client[o], {SetUp(Client[o])}, common_cipher_setup(pool, Client[o]))
  BY <1>0, PartsGive, WrappedNew, Zenon DEF common_cipher_setup, cipher_setup_handler
<1>3. AllFed(pool, Client[o], handle[o], Data(o, "cipher_generate_iv"),
             crypto_caller_cipher_generate_iv(pool, Client[o], handle[o], Data(o, "cipher_generate_iv")))
  BY <1>0, <1>1, PartsGive, WrappedFed, Zenon DEF crypto_caller_cipher_generate_iv, cipher_generate_iv_handler
<1>4. AllFed(pool, Client[o], handle[o], Data(o, "cipher_set_iv"),
             crypto_caller_cipher_set_iv(pool, Client[o], handle[o], Data(o, "cipher_set_iv")))
  BY <1>0, <1>1, PartsGive, WrappedFed, Zenon DEF crypto_caller_cipher_set_iv, cipher_set_iv_handler
<1>5. AllFed(pool, Client[o], handle[o], Data(o, "cipher_update"),
             crypto_caller_cipher_update(pool, Client[o], handle[o], Data(o, "cipher_update")))
  BY <1>0, <1>1, PartsGive, WrappedFed, Zenon DEF crypto_caller_cipher_update, cipher_update_handler
<1>6. AllEnd(pool, Client[o], handle[o], crypto_caller_cipher_finish(pool, Client[o], handle[o]))
  BY <1>0, PartsGive, WrappedEnd, Zenon DEF crypto_caller_cipher_finish, cipher_finish_handler
<1>7. AllEnd(pool, Client[o], handle[o], crypto_caller_cipher_abort(pool, Client[o], handle[o]))
  BY <1>0, PartsGive, WrappedEnd, Zenon DEF crypto_caller_cipher_abort, cipher_abort_handler
<1> QED
  BY <1>2, <1>3, <1>4, <1>5, <1>6, <1>7, SetupStep, InputStep, EndStep, Zenon DEF psa_cipher

\* The AEAD functions keep the invariant.
LEMMA AeadKeeps ==
    ASSUME Inv, NEW o \in Operations, psa_aead(o)
    PROVE  Inv'
<1>0. PoolShape(pool)
  BY Zenon DEF Inv
<1>1. /\ Data(o, "aead_generate_nonce") \in InputsOf(Client[o])
      /\ Data(o, "aead_set_nonce") \in InputsOf(Client[o])
      /\ Data(o, "aead_set_lengths") \in InputsOf(Client[o])
      /\ Data(o, "aead_update_ad") \in InputsOf(Client[o])
      /\ Data(o, "aead_update") \in InputsOf(Client[o])
  BY Zenon DEF Data, InputsOf, InputCalls
<1>2. AllNew(pool, Client[o], {SetUp(Client[o])}, common_aead_setup(pool, Client[o]))
  BY <1>0, PartsGive, WrappedNew, Zenon DEF common_aead_setup, aead_setup_handler
<1>3. AllFed(pool, Client[o], handle[o], Data(o, "aead_generate_nonce"),
             crypto_caller_aead_generate_nonce(pool, Client[o], handle[o], Data(o, "aead_generate_nonce")))
  BY <1>0, <1>1, PartsGive, WrappedFed, Zenon DEF crypto_caller_aead_generate_nonce, aead_generate_nonce_handler
<1>4. AllFed(pool, Client[o], handle[o], Data(o, "aead_set_nonce"),
             crypto_caller_aead_set_nonce(pool, Client[o], handle[o], Data(o, "aead_set_nonce")))
  BY <1>0, <1>1, PartsGive, WrappedFed, Zenon DEF crypto_caller_aead_set_nonce, aead_set_nonce_handler
<1>5. AllFed(pool, Client[o], handle[o], Data(o, "aead_set_lengths"),
             crypto_caller_aead_set_lengths(pool, Client[o], handle[o], Data(o, "aead_set_lengths")))
  BY <1>0, <1>1, PartsGive, WrappedFed, Zenon DEF crypto_caller_aead_set_lengths, aead_set_lengths_handler
<1>6. AllFed(pool, Client[o], handle[o], Data(o, "aead_update_ad"),
             crypto_caller_aead_update_ad(pool, Client[o], handle[o], Data(o, "aead_update_ad")))
  BY <1>0, <1>1, PartsGive, WrappedFed, Zenon DEF crypto_caller_aead_update_ad, aead_update_ad_handler
<1>7. AllFed(pool, Client[o], handle[o], Data(o, "aead_update"),
             crypto_caller_aead_update(pool, Client[o], handle[o], Data(o, "aead_update")))
  BY <1>0, <1>1, PartsGive, WrappedFed, Zenon DEF crypto_caller_aead_update, aead_update_handler
<1>8. AllEnd(pool, Client[o], handle[o], crypto_caller_aead_finish(pool, Client[o], handle[o]))
  BY <1>0, PartsGive, WrappedEnd, Zenon DEF crypto_caller_aead_finish, aead_finish_handler
<1>9. AllEnd(pool, Client[o], handle[o], crypto_caller_aead_verify(pool, Client[o], handle[o]))
  BY <1>0, PartsGive, WrappedEnd, Zenon DEF crypto_caller_aead_verify, aead_verify_handler
<1>10. AllEnd(pool, Client[o], handle[o], crypto_caller_aead_abort(pool, Client[o], handle[o]))
  BY <1>0, PartsGive, WrappedEnd, Zenon DEF crypto_caller_aead_abort, aead_abort_handler
<1> QED
  BY <1>2, <1>3, <1>4, <1>5, <1>6, <1>7, <1>8, <1>9, <1>10, SetupStep, InputStep, EndStep, Zenon DEF psa_aead

\* The key derivation functions keep the invariant.
LEMMA KeyDerivationKeeps ==
    ASSUME Inv, NEW o \in Operations, psa_key_derivation(o)
    PROVE  Inv'
<1>0. PoolShape(pool)
  BY Zenon DEF Inv
<1>1. /\ Data(o, "key_derivation_get_capacity") \in InputsOf(Client[o])
      /\ Data(o, "key_derivation_set_capacity") \in InputsOf(Client[o])
      /\ Data(o, "key_derivation_input_bytes") \in InputsOf(Client[o])
      /\ Data(o, "key_derivation_input_key") \in InputsOf(Client[o])
      /\ Data(o, "key_derivation_output_bytes") \in InputsOf(Client[o])
      /\ Data(o, "key_derivation_output_key") \in InputsOf(Client[o])
      /\ Data(o, "key_derivation_key_agreement") \in InputsOf(Client[o])
  BY Zenon DEF Data, InputsOf, InputCalls
<1>2. AllNew(pool, Client[o], {SetUp(Client[o])}, crypto_caller_key_derivation_setup(pool, Client[o]))
  BY <1>0, PartsGive, WrappedNew, Zenon DEF crypto_caller_key_derivation_setup, key_derivation_setup_handler
<1>3. AllFed(pool, Client[o], handle[o], Data(o, "key_derivation_get_capacity"),
             crypto_caller_key_derivation_get_capacity(pool, Client[o], handle[o], Data(o, "key_derivation_get_capacity")))
  BY <1>0, <1>1, PartsGive, WrappedFed, Zenon DEF crypto_caller_key_derivation_get_capacity,
     key_derivation_get_capacity_handler
<1>4. AllFed(pool, Client[o], handle[o], Data(o, "key_derivation_set_capacity"),
             crypto_caller_key_derivation_set_capacity(pool, Client[o], handle[o], Data(o, "key_derivation_set_capacity")))
  BY <1>0, <1>1, PartsGive, WrappedFed, Zenon DEF crypto_caller_key_derivation_set_capacity,
     key_derivation_set_capacity_handler
<1>5. AllFed(pool, Client[o], handle[o], Data(o, "key_derivation_input_bytes"),
             crypto_caller_key_derivation_input_bytes(pool, Client[o], handle[o], Data(o, "key_derivation_input_bytes")))
  BY <1>0, <1>1, PartsGive, WrappedFed, Zenon DEF crypto_caller_key_derivation_input_bytes,
     key_derivation_input_bytes_handler
<1>6. AllFed(pool, Client[o], handle[o], Data(o, "key_derivation_input_key"),
             crypto_caller_key_derivation_input_key(pool, Client[o], handle[o], Data(o, "key_derivation_input_key")))
  <2>1. AllFed(pool, Client[o], handle[o], Data(o, "key_derivation_input_key"),
               key_derivation_input_key_handler(pool, Client[o], handle[o], Data(o, "key_derivation_input_key")))
    BY <1>0, <1>1, PartsGive, WrappedFed, Zenon DEF key_derivation_input_key_handler, AllFed
  <2> QED
    BY <1>0, <2>1, WrappedFed, Zenon DEF crypto_caller_key_derivation_input_key
<1>7. AllFed(pool, Client[o], handle[o], Data(o, "key_derivation_output_bytes"),
             crypto_caller_key_derivation_output_bytes(pool, Client[o], handle[o], Data(o, "key_derivation_output_bytes")))
  BY <1>0, <1>1, PartsGive, WrappedFed, Zenon DEF crypto_caller_key_derivation_output_bytes,
     key_derivation_output_bytes_handler
<1>8. AllFed(pool, Client[o], handle[o], Data(o, "key_derivation_output_key"),
             crypto_caller_key_derivation_output_key(pool, Client[o], handle[o], Data(o, "key_derivation_output_key")))
  BY <1>0, <1>1, PartsGive, WrappedFed, Zenon DEF crypto_caller_key_derivation_output_key,
     key_derivation_output_key_handler
<1>9. AllEnd(pool, Client[o], handle[o], crypto_caller_key_derivation_abort(pool, Client[o], handle[o]))
  BY <1>0, PartsGive, WrappedEnd, Zenon DEF crypto_caller_key_derivation_abort, key_derivation_abort_handler
<1>10. AllFed(pool, Client[o], handle[o], Data(o, "key_derivation_key_agreement"),
              crypto_caller_key_derivation_key_agreement(pool, Client[o], handle[o], Data(o, "key_derivation_key_agreement")))
  BY <1>0, <1>1, PartsGive, WrappedFed, Zenon DEF crypto_caller_key_derivation_key_agreement,
     key_derivation_key_agreement_handler
<1> QED
  BY <1>2, <1>3, <1>4, <1>5, <1>6, <1>7, <1>8, <1>9, <1>10, SetupStep, InputStep, EndStep, Zenon DEF psa_key_derivation

\* Steps that leave the pool, the handles and the views alone.
LEMMA SameInv ==
    ASSUME Inv, pool' = pool, handle' = handle, view' = view
    PROVE  Inv'
<1>1. Numbered(pool) => Numbered(pool)'
  BY Zenon DEF Numbered
<1>2. ASSUME NEW o \in Operations, Tracked(o)
      PROVE  Tracked(o)'
  <2>1. Found(o)' = Found(o)
    BY Zenon DEF Found
  <2> QED
    BY <1>2, <2>1, Zenon DEF Tracked
<1>3. OwnHandles => OwnHandles'
  BY Zenon DEF OwnHandles
<1>4. Views => Views'
  BY Zenon DEF Views
<1>5. PoolShape(pool) => PoolShape(pool)'
  BY Zenon DEF PoolShape
<1>6. Unique' = Unique
  BY Zenon DEF Unique
<1> QED
  BY <1>1, <1>2, <1>3, <1>4, <1>5, <1>6, Zenon DEF Inv

\* An operation object that is initialized anew has no handle.
LEMMA DiscardKeeps ==
    ASSUME Inv, NEW o \in Operations, Discard(o)
    PROVE  Inv'
<1>1. pool' = pool /\ handle' = [handle EXCEPT ![o] = 0] /\ view' = [view EXCEPT ![o] = None]
  BY Zenon DEF Discard
<1>2. PoolShape(pool) /\ Views /\ (Unique => Numbered(pool) /\ OwnHandles /\ \A t \in Operations : Tracked(t))
  BY Zenon DEF Inv
<1>3. /\ handle'[o] = 0 /\ view'[o] = None
      /\ \A t \in Operations : t # o => handle'[t] = handle[t] /\ view'[t] = view[t]
  BY <1>1, <1>2, Zenon DEF Views
<1>4. Views'
  <2>1. view' = [t \in Operations |-> view'[t]] /\ handle' = [t \in Operations |-> handle'[t]]
    BY <1>1, <1>2, Zenon DEF Views
  <2>2. None = [state |-> None.state, sent |-> None.sent, at |-> None.at]
    BY Zenon DEF None
  <2> QED
    BY <1>2, <1>3, <2>1, <2>2, Zenon DEF Views
<1>5. ASSUME Unique
      PROVE  Numbered(pool)' /\ OwnHandles' /\ \A t \in Operations : Tracked(t)'
  <2>1. Numbered(pool)'
    BY <1>1, <1>2, <1>5, Zenon DEF Numbered
  <2>2. OwnHandles'
    <3>1. pool.allocs \in Nat
      BY <1>2, Zenon DEF PoolShape
    <3> QED
      BY <1>1, <1>2, <1>3, <1>5, <3>1 DEF OwnHandles
  <2>3. ASSUME NEW t \in Operations, t # o
        PROVE  Tracked(t)'
    <3>1. Tracked(t) /\ handle'[t] = handle[t] /\ view'[t] = view[t]
      BY <1>2, <1>3, <1>5, <2>3, Zenon
    <3>2. Found(t)' = Found(t)
      BY <1>1, <3>1, Zenon DEF Found
    <3> QED
      BY <1>1, <3>1, <3>2, Zenon DEF Tracked
  <2>4. Tracked(o)'
    <3>1. view'[o].state # "live" /\ view'[o].state # "ended"
      BY <1>3 DEF None
    <3> QED
      BY <3>1, Zenon DEF Tracked
  <2> QED
    BY <2>1, <2>2, <2>3, <2>4, Zenon
<1>6. Unique' = Unique /\ PoolShape(pool)'
  BY <1>1, <1>2, Zenon DEF Unique
<1> QED
  BY <1>4, <1>5, <1>6, Zenon DEF Inv

\* A step of a client keeps the invariant.
LEMMA StepKeepsInv ==
    ASSUME Inv, [Next]_vars
    PROVE  Inv'
<1>1. CASE UNCHANGED vars
  <2>1. pool' = pool /\ handle' = handle /\ view' = view
    BY <1>1, Zenon DEF vars
  <2> QED
    BY <2>1, SameInv, Zenon
<1>2. ASSUME NEW o \in Operations, OneShot(o) \/ GiveUp(o)
      PROVE  Inv'
  <2>1. pool' = pool /\ handle' = handle /\ view' = view
    BY <1>2, Zenon DEF OneShot, GiveUp
  <2> QED
    BY <2>1, SameInv, Zenon
<1> QED
  BY <1>1, <1>2, DiscardKeeps, HashKeeps, MacKeeps, CipherKeeps, AeadKeeps, KeyDerivationKeeps, Zenon DEF Next

\* No context has been allocated, and no operation object has a handle.
LEMMA InitInv ==
    ASSUME Init
    PROVE  Inv
<1>1. IsFiniteSet({}) /\ Cardinality({}) = 0
  BY FS_EmptySet, Zenon
<1>2. PoolShape(pool)
  BY <1>1, PoolAssumption DEF Init, crypto_context_pool_init, PoolShape
<1>3. pool.recent = 0 /\ pool.allocs = 0 /\ pool.active = {}
  BY Zenon DEF Init, crypto_context_pool_init
<1>4. handle = [o \in Operations |-> 0] /\ view = [o \in Operations |-> None]
  BY Zenon DEF Init
<1>5. \A o \in Operations : handle[o] = 0 /\ view[o] = None
  BY <1>4, Zenon
<1>6. Views
  BY <1>4, Zenon DEF Views, None
<1>7. Numbered(pool) /\ OwnHandles
  BY <1>3, <1>5 DEF Numbered, OwnHandles
<1>8. None.state # "live" /\ None.state # "ended"
  BY Zenon DEF None
<1>9. \A o \in Operations : Tracked(o)
  BY <1>5, <1>8, Zenon DEF Tracked
<1> QED
  BY <1>2, <1>6, <1>7, <1>9, Zenon DEF Inv

\* The invariant always holds.
LEMMA AlwaysInv == Spec => []Inv
<1>1. Inv /\ [Next]_vars => Inv'
  BY StepKeepsInv, Zenon
<1> QED
  BY <1>1, InitInv, PTL DEF Spec


\* A pool in shape has what RollOverSafe says.
LEMMA ShapeIsSafe ==
    ASSUME PoolShape(pool)
    PROVE  RollOverSafe
<1>1. HandlesIdentify
  BY DEF PoolShape, Context, HandlesIdentify
<1>2. OnlyOwnInputs
  <2> SUFFICES ASSUME NEW x \in pool.active
               PROVE  /\ x.op.key \in {x.client, Inactive.key}
                      /\ \A i \in DOMAIN x.op.done : \E o \in Operations : Client[o] = x.client /\ x.op.done[i][1] = o
    BY Zenon DEF OnlyOwnInputs
  <2>1. OwnOp(x.client, x.op)
    BY Zenon DEF PoolShape, Context
  <2>2. x.op.key \in {x.client, Inactive.key}
    BY <2>1, Zenon DEF OwnOp, Inactive
  <2>3. \A i \in DOMAIN x.op.done : x.op.done[i] \in InputsOf(x.client)
    BY <2>1 DEF OwnOp
  <2> QED
    BY <2>2, <2>3, Zenon DEF InputsOf
<1> QED
  BY <1>1, <1>2, Zenon DEF RollOverSafe

(***************************************************************************)
(* Whatever the clients do, in any interleaving of their requests and for  *)
(* any pool size and largest handle: active handles tell the operations of *)
(* a provider apart, and no input or key of a client gets into an          *)
(* operation of another one, although alloc_op_handle gives out handles    *)
(* again that clients may still hold.                                      *)
(***************************************************************************)
THEOREM RollOver == Spec => []RollOverSafe
<1>1. Inv => RollOverSafe
  BY ShapeIsSafe, Zenon DEF Inv
<1> QED
  BY <1>1, AlwaysInv, PTL

(***************************************************************************)
(* For any number of clients, operation objects and contexts: until a      *)
(* handle is given out for the second time, the context that a provider    *)
(* finds for an operation has taken exactly what its client has sent for   *)
(* it, in this order, with a key of this client.  Requests that are not    *)
(* sent, setups that fail, responses that are lost, operations that are    *)
(* recycled, cloned or given up in between change nothing in that.         *)
(***************************************************************************)
THEOREM ContextsAreOwn == Spec => []OwnContexts
<1>1. Inv => OwnContexts
  BY Zenon DEF Inv, OwnContexts, Tracked
<1> QED
  BY <1>1, AlwaysInv, PTL

(***************************************************************************)
(* Until then crypto_context_pool_find also finds every operation in use   *)
(* of the CRYPTO_CONTEXT_POOL_SIZE that were allocated last, and none that *)
(* has been finished, verified or aborted.                                 *)
(***************************************************************************)
THEOREM UsedAreFound == Spec => []FoundWhileInUse
<1>1. Inv => FoundWhileInUse
  BY Zenon DEF Inv, FoundWhileInUse, RecentSurvive, EndedAreGone, Tracked
<1> QED
  BY <1>1, AlwaysInv, PTL
=============================================================================
