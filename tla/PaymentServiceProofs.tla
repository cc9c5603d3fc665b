------------------------ MODULE PaymentServiceProofs ------------------------
(***************************************************************************)
(* Proofs about PaymentService, for any sets of requests, merchants and    *)
(* keys, any workload and any faults.                                      *)
(***************************************************************************)
EXTENDS PaymentService, TLAPS

(* The gateway has carried out op for transaction t.                       *)
Did(op, t) == \E e \in gw : e.op = op /\ e.order = t

(* A request that has not arrived has left no trace.                       *)
IdleInv == \A r \in Id : pc[r] = "idle" => input[r] = NoInput /\ err[r] = "nil"

(* A request that has arrived has an input, and only at the stages of its  *)
(* operation; past cachedIdempotency its key is known to be a UUID.        *)
StageInv ==
    \A r \in Id : pc[r] # "idle" =>
        /\ input[r] \in Input
        /\ pc[r] \in {"lock", "read", "insert", "release"} => Locks(r)
        /\ pc[r] = "save" => ~Locks(r)
        /\ pc[r] = "idem" => input[r].op \notin {"capture", "void"}
        /\ pc[r] = "insert" => input[r].op = "refund"
        /\ pc[r] \in {"save", "gateway", "update"} /\ ~Locks(r) =>
              Parse[input[r].key] # Nil

(* Only handlers that keep idempotency entries start a background save.    *)
SaveInv ==
    \A r \in bg : /\ pc[r] # "idle"
                  /\ input[r].op \notin {"capture", "void"}
                  /\ Parse[input[r].key] # Nil

BasicInv == TypeOK /\ IdleInv /\ StageInv /\ SaveInv

(* Only requests that read a transaction have a gateway reference.         *)
RefInv == \A r \in Id : ref[r] # Nil => pc[r] # "idle" /\ Locks(r)

(* Every transaction row is the one its request inserted: merchant and key *)
(* are the request's, and the request is past its insert.                  *)
RowInv ==
    \A t \in DOMAIN txs :
        /\ pc[t] \notin {"idle", "idem", "save"}
        /\ ~Locks(t)
        /\ txs[t].merchant = input[t].merchant
        /\ txs[t].key = input[t].key

(* The UNIQUE constraint on transactions.idempotency_key.                  *)
UniqueInv == \A t, u \in DOMAIN txs : txs[t].key = txs[u].key => t = u

(* A transaction that got past pending successfully has its reference, and *)
(* every status is backed by what the gateway did.                         *)
EvidenceInv ==
    \A t \in DOMAIN txs :
        /\ txs[t].status \in {"authorized", "captured", "voided", "refunded"} =>
              txs[t].ref = t /\ Did("authorize", t)
        /\ txs[t].status \in {"captured", "refunded"} => Did("capture", t)
        /\ txs[t].status = "voided" => Did("void", t)
        /\ txs[t].status = "refunded" => Did("refund", t)

(* What a request between its read and its last write relies on.           *)
LocalInv ==
    \A r \in Id : pc[r] \in {"gateway", "update", "insert"} =>
        /\ ~Locks(r) => r \in DOMAIN txs /\ ref[r] = Nil
        /\ Locks(r) =>
              /\ FindByIDAndMerchantID(input[r].tx, input[r].merchant)
              /\ ref[r] = input[r].tx
              /\ Did("authorize", input[r].tx)
              /\ input[r].op = "refund" => Did("capture", input[r].tx)
        /\ pc[r] = "update" => input[r].op # "charge"
        /\ pc[r] = "update" /\ reply[r] = "ok" => Did(input[r].op, Target(r))
        /\ pc[r] \in {"update", "insert"} /\ input[r].op = "refund" => reply[r] = "ok"

(* The gateway's books are about stored transactions of the caller, and a  *)
(* hold is placed by the request that made the transaction.                *)
EffectInv ==
    \A e \in gw :
        /\ pc[e.by] # "idle"
        /\ FindByIDAndMerchantID(e.order, input[e.by].merchant)
        /\ e.op = "authorize" => e.order = e.by
        /\ e.op = input[e.by].op
        /\ e.op \in {"capture", "void"} => Did("authorize", e.order)
        /\ e.op = "refund" => Did("capture", e.order)

Inv ==
    /\ BasicInv /\ RefInv /\ RowInv /\ UniqueInv /\ EvidenceInv /\ LocalInv
    /\ EffectInv /\ PanicsOnlyInCharge

(* The lock really protects: a request in its critical section is the one  *)
(* whose value the lock holds.                                             *)
HoldsLock == \A r \in Id : InCritical(r) => lock[input[r].tx] = r

-----------------------------------------------------------------------------
(* What an input struct of each operation holds.                           *)
LEMMA InputFacts ==
    ASSUME NEW i \in Input
    PROVE  /\ i.op \in Op /\ i.merchant \in Merchant
           /\ i.op \in {"authorize", "charge"} => i.key \in RawKey /\ i.tx = Nil
           /\ i.op \in {"capture", "void"} => i.key = Nil /\ i.tx \in Id
           /\ i.op = "refund" => i.key \in RawKey /\ Parse[i.key] # Nil /\ i.tx \in Id
BY DEF Input, Op

(* A request that moves on leaves the others where they are.               *)
LEMMA GotoFacts ==
    ASSUME BasicInv, NEW r \in Id, pc[r] # "idle", NEW stage \in Stage \ {"idle"},
           Goto(r, stage), UNCHANGED <<input, out, err>>,
           stage \in {"lock", "read", "insert", "release"} => Locks(r),
           stage = "save" => ~Locks(r),
           stage = "idem" => input[r].op \notin {"capture", "void"},
           stage = "insert" => input[r].op = "refund",
           stage \in {"save", "gateway", "update"} /\ ~Locks(r) => Parse[input[r].key] # Nil
    PROVE  /\ pc' \in [Id -> Stage]
           /\ \A s \in Id : pc[s] # "idle" => pc'[s] # "idle"
           /\ IdleInv' /\ StageInv'
BY DEF BasicInv, TypeOK, IdleInv, StageInv, Goto, Locks

(* So does one that returns; if it holds the lock it has to release it.    *)
LEMMA ReturnFacts ==
    ASSUME BasicInv, NEW r \in Id, pc[r] # "idle", NEW e \in Errors, NEW o \in Output,
           Return(r, e, o), UNCHANGED input
    PROVE  /\ pc' \in [Id -> Stage] /\ err' \in [Id -> Errors] /\ out' \in [Id -> Output]
           /\ \A s \in Id : pc[s] # "idle" => pc'[s] # "idle"
           /\ IdleInv' /\ StageInv'
BY DEF BasicInv, TypeOK, IdleInv, StageInv, Return, Goto, Stage, InCritical, Locks

(* The result literals of Return are error values.                         *)
LEMMA ErrorFacts ==
    /\ {"nil", "gorm.ErrRecordNotFound", "ErrTokenizeCard", "ErrDuplicateIdempotencyKey",
        "ErrTransactionAlreadyVoided", "ErrTransactionNotCapturable",
        "ErrTransactionAlreadyRefunded", "ErrGatewayRejected", "ErrTransactionNotFound",
        "ErrInvalidGatewayRef", "ErrTransactionNotRefundable", "redis.Nil",
        "context.DeadlineExceeded", "dbError", "redisError", "panic"} \subseteq Errors
    /\ NoOutput \in Output
BY DEF Errors, NotFound, NotAcceptable, Conflict, Unprocessable, PaymentRequired, Unlisted,
       NoOutput, Output

(* What the update of a request records.                                   *)
LEMMA ToFacts ==
    ASSUME NEW r \in Id
    PROVE  /\ To(r) \in TransactionStatus
           /\ NewRef(r) \in Id \cup {Nil}
           /\ UpdateErr(r) \in {"nil", "ErrGatewayRejected"}
BY DEF To, TransactionStatus, NewRef, UpdateErr

(* The update leaves the columns it does not name, and every other row.    *)
LEMMA UpdatedFacts ==
    ASSUME RepositoryTypeOK, NEW r \in Id
    PROVE  /\ DOMAIN Updated(r) = DOMAIN txs
           /\ \A u \in DOMAIN txs :
                 /\ Updated(r)[u] \in TxRow
                 /\ Updated(r)[u].merchant = txs[u].merchant
                 /\ Updated(r)[u].key = txs[u].key
                 /\ ~(u = Target(r) /\ txs[u].status = From(r)) => Updated(r)[u] = txs[u]
           /\ Matches(Target(r), From(r)) =>
                 /\ Updated(r)[Target(r)].status = To(r)
                 /\ Updated(r)[Target(r)].ref =
                       IF NewRef(r) = Nil THEN txs[Target(r)].ref ELSE NewRef(r)
<1> DEFINE t == Target(r)
           row == [txs[t] EXCEPT !.status = To(r),
                                 !.ref = IF NewRef(r) = Nil THEN @ ELSE NewRef(r)]
<1>1. CASE Matches(t, From(r))
  <2>1. txs[t] \in TxRow
    BY <1>1 DEF Matches, RepositoryTypeOK
  <2>2. /\ row \in TxRow /\ row.merchant = txs[t].merchant /\ row.key = txs[t].key
        /\ row.status = To(r) /\ row.ref = IF NewRef(r) = Nil THEN txs[t].ref ELSE NewRef(r)
    BY <2>1, ToFacts DEF TxRow
  <2>3. Updated(r) = [txs EXCEPT ![t] = row]
    BY <1>1 DEF Updated, UpdateByQuery
  <2> HIDE DEF row
  <2>4. /\ DOMAIN Updated(r) = DOMAIN txs /\ Updated(r)[t] = row
        /\ \A u \in DOMAIN txs \ {t} : Updated(r)[u] = txs[u]
    BY <1>1, <2>3 DEF Matches
  <2> QED
    BY <1>1, <2>2, <2>4 DEF Matches, RepositoryTypeOK
<1>2. CASE ~Matches(t, From(r))
  BY <1>2 DEF Updated, UpdateByQuery, RepositoryTypeOK, Matches
<1> QED
  BY <1>1, <1>2

(* The transaction a request is about has an identifier.                   *)
LEMMA TargetFacts ==
    ASSUME BasicInv, NEW r \in Id, pc[r] # "idle"
    PROVE  Target(r) \in Id
BY InputFacts DEF Target, Locks, BasicInv, StageInv

(* Whatever findTransaction makes of a row is an error value.              *)
LEMMA RowErrFacts ==
    ASSUME NEW r, NEW row
    PROVE  RowErr(r, row) \in {"nil", "ErrInvalidGatewayRef", "ErrTransactionNotCapturable",
                               "ErrTransactionAlreadyVoided", "ErrTransactionAlreadyRefunded",
                               "ErrTransactionNotRefundable"}
BY DEF RowErr, TxAuthorizedErr, VoidErr, RefundErr

(* TypeOK, IdleInv, StageInv and SaveInv together are inductive.           *)
LEMMA BasicStep == BasicInv /\ [Next]_vars => BasicInv'
<1> SUFFICES ASSUME BasicInv, [Next]_vars
             PROVE  BasicInv'
  OBVIOUS
<1> USE DEF tables, locals
<1>0. /\ RepositoryTypeOK /\ LockTypeOK /\ gw \subseteq Effect
      /\ ref \in [Id -> Id \cup {Nil}] /\ reply \in [Id -> {"none", "ok", "err"}]
      /\ pc \in [Id -> Stage] /\ input \in [Id -> Input \cup {NoInput}]
      /\ out \in [Id -> Output] /\ err \in [Id -> Errors] /\ bg \subseteq Id
      /\ \A r \in Id : pc[r] # "idle" => input[r] \in Input
  BY DEF BasicInv, TypeOK, StageInv
<1>1. ASSUME NEW r \in Id, Arrive(r)
      PROVE  BasicInv'
  <2>1. PICK i \in Workload[r] : /\ input' = [input EXCEPT ![r] = i]
                                 /\ Goto(r, IF i.op \in {"capture", "void"} THEN "lock" ELSE "idem")
    BY <1>1 DEF Arrive
  <2>2. i \in Input
    BY <2>1, WorkloadAssumption
  <2>3. pc' \in [Id -> Stage] /\ input' \in [Id -> Input \cup {NoInput}]
    BY <1>0, <2>1, <2>2 DEF Goto, Stage
  <2>4. IdleInv' /\ StageInv'
    BY <1>0, <1>1, <2>1, <2>2, InputFacts DEF Arrive, Goto, BasicInv, IdleInv, StageInv, Locks, Op
  <2>5. SaveInv'
    BY <1>0, <1>1, <2>1 DEF Arrive, Goto, BasicInv, SaveInv
  <2> QED
    BY <1>0, <1>1, <2>3, <2>4, <2>5 DEF Arrive, BasicInv, TypeOK, RepositoryTypeOK, LockTypeOK
<1>2. ASSUME NEW r \in Id, MustParsePanics(r)
      PROVE  BasicInv'
  BY <1>0, <1>2, ReturnFacts, ErrorFacts
     DEF MustParsePanics, BasicInv, TypeOK, RepositoryTypeOK, LockTypeOK, SaveInv
<1>3. ASSUME NEW r \in Id, CacheHit(r)
      PROVE  BasicInv'
  <2>1. idem[Parse[input[r].key]] \in IdemRow
    BY <1>0, <1>3 DEF CacheHit, FindByKeyAndMerchantID, RepositoryTypeOK
  <2>2. Unmarshal(idem[Parse[input[r].key]].response, Shape(r)) \in Output
    BY <2>1 DEF Unmarshal, Shape, IdemRow, Output
  <2> QED
    BY <1>0, <1>3, <2>2, ReturnFacts, ErrorFacts
       DEF CacheHit, BasicInv, TypeOK, RepositoryTypeOK, LockTypeOK, SaveInv
<1>4. ASSUME NEW r \in Id, CacheMiss(r)
      PROVE  BasicInv'
  BY <1>4 DEF CacheMiss, Goto, Stage, BasicInv, TypeOK, RepositoryTypeOK, LockTypeOK, IdleInv,
              StageInv, SaveInv, Locks
<1>5. ASSUME NEW r \in Id, tokenizeCardToGateway(r)
      PROVE  BasicInv'
  BY <1>0, <1>5, ReturnFacts, ErrorFacts
     DEF tokenizeCardToGateway, BasicInv, TypeOK, RepositoryTypeOK, LockTypeOK, SaveInv
<1>6. ASSUME NEW r \in Id, saveTransaction(r)
      PROVE  BasicInv'
  <2>1. input[r] \in Input /\ ~Locks(r) /\ Parse[input[r].key] # Nil
    BY <1>0, <1>6 DEF saveTransaction, BasicInv, StageInv
  <2>2. PendingRow(r) \in TxRow
    BY <2>1, InputFacts DEF PendingRow, TxRow, PaymentType, TransactionStatus, Op, Locks
  <2>3. txs' = txs \/ txs' = Insert(txs, r, PendingRow(r))
    BY <1>6 DEF saveTransaction
  <2>4. RepositoryTypeOK'
    <3>1. DOMAIN txs' \subseteq Id /\ \A t \in DOMAIN txs' : txs'[t] \in TxRow
      BY <1>0, <2>2, <2>3 DEF Insert, RepositoryTypeOK
    <3> QED
      BY <1>0, <1>6, <3>1 DEF saveTransaction, RepositoryTypeOK
  <2>5. CASE Goto(r, "gateway") /\ UNCHANGED <<out, err>>
    BY <1>0, <1>6, <2>1, <2>4, <2>5, GotoFacts
       DEF saveTransaction, Stage, BasicInv, TypeOK, LockTypeOK, SaveInv
  <2>6. CASE \E e \in Errors : Return(r, e, NoOutput)
    BY <1>0, <1>6, <2>4, <2>6, ReturnFacts, ErrorFacts
       DEF saveTransaction, BasicInv, TypeOK, LockTypeOK, SaveInv
  <2> QED
    BY <1>6, <2>5, <2>6, ErrorFacts DEF saveTransaction
<1>7. ASSUME NEW r \in Id, aquireLock(r)
      PROVE  BasicInv'
  <2>1. Locks(r)
    BY <1>7 DEF aquireLock, BasicInv, StageInv
  <2>2. LockTypeOK'
    BY <1>0, <1>7 DEF aquireLock, Acquired, Refused, LockTypeOK
  <2>3. CASE Goto(r, "read") /\ UNCHANGED <<out, err>>
    BY <1>0, <1>7, <2>1, <2>2, <2>3, GotoFacts
       DEF aquireLock, Stage, BasicInv, TypeOK, RepositoryTypeOK, SaveInv
  <2>4. CASE \E e \in Errors : Return(r, e, NoOutput)
    BY <1>0, <1>7, <2>2, <2>4, ReturnFacts, ErrorFacts
       DEF aquireLock, BasicInv, TypeOK, RepositoryTypeOK, SaveInv
  <2> QED
    BY <1>7, <2>3, <2>4, ErrorFacts DEF aquireLock
<1>8. ASSUME NEW r \in Id, findTransaction(r)
      PROVE  BasicInv'
  <2>1. ref' \in [Id -> Id \cup {Nil}]
    BY <1>0, <1>8 DEF findTransaction, FindByIDAndMerchantID, TxRow, RepositoryTypeOK
  <2>2. Locks(r)
    BY <1>8 DEF findTransaction, BasicInv, StageInv
  <2>3. CASE Goto(r, "gateway") /\ UNCHANGED <<out, err>>
    BY <1>0, <1>8, <2>1, <2>2, <2>3, GotoFacts
       DEF findTransaction, Stage, BasicInv, TypeOK, RepositoryTypeOK, LockTypeOK, SaveInv
  <2>4. CASE \E e \in Errors : Return(r, e, NoOutput)
    BY <1>0, <1>8, <2>1, <2>4, ReturnFacts, ErrorFacts
       DEF findTransaction, BasicInv, TypeOK, RepositoryTypeOK, LockTypeOK, SaveInv
  <2> QED
    BY <1>8, <2>3, <2>4, RowErrFacts, ErrorFacts DEF findTransaction
<1>9. ASSUME NEW r \in Id, callGatewayPanics(r)
      PROVE  BasicInv'
  BY <1>0, <1>9, ReturnFacts, ErrorFacts
     DEF callGatewayPanics, BasicInv, TypeOK, RepositoryTypeOK, LockTypeOK, SaveInv
<1>10. ASSUME NEW r \in Id, callGatewayOk(r) \/ callGatewayErr(r)
       PROVE  BasicInv'
  <2>1. EffectOf(r) \in Effect
    BY <1>0, <1>10, TargetFacts, InputFacts
       DEF callGatewayOk, callGatewayErr, DereferencesNil, EffectOf, Effect, GatewayOp, Op
  <2>2. gw' \subseteq Effect /\ reply' \in [Id -> {"none", "ok", "err"}]
    BY <1>0, <1>10, <2>1 DEF callGatewayOk, callGatewayErr
  <2>3. ~Locks(r) => Parse[input[r].key] # Nil
    BY <1>10 DEF callGatewayOk, callGatewayErr, BasicInv, StageInv
  <2>4. CASE Goto(r, "update") /\ UNCHANGED <<out, err>>
    BY <1>0, <1>10, <2>2, <2>3, <2>4, GotoFacts
       DEF callGatewayOk, callGatewayErr, Stage, BasicInv, TypeOK, RepositoryTypeOK, LockTypeOK,
           SaveInv
  <2>5. CASE \E e \in Errors : Return(r, e, NoOutput)
    BY <1>0, <1>10, <2>2, <2>5, ReturnFacts, ErrorFacts
       DEF callGatewayOk, callGatewayErr, BasicInv, TypeOK, RepositoryTypeOK, LockTypeOK, SaveInv
  <2> QED
    BY <1>10, <2>4, <2>5, ErrorFacts DEF callGatewayOk, callGatewayErr
<1>11. ASSUME NEW r \in Id, updateTransaction(r) \/ updateRefunded(r)
       PROVE  BasicInv'
  <2>1. txs' \in {txs, Updated(r)}
    BY <1>11 DEF updateTransaction, updateRefunded
  <2>2. RepositoryTypeOK'
    <3>1. DOMAIN txs' = DOMAIN txs /\ \A t \in DOMAIN txs : txs'[t] \in TxRow
      <4>1. CASE txs' = txs
        BY <1>0, <4>1 DEF RepositoryTypeOK
      <4>2. CASE txs' = Updated(r)
        BY <1>0, <4>2, UpdatedFacts
      <4> QED
        BY <2>1, <4>1, <4>2
    <3> QED
      BY <1>0, <1>11, <3>1 DEF RepositoryTypeOK, updateTransaction, updateRefunded
  <2>3. UpdateErr(r) \in Errors /\ UpdateOutput(r) \in Output
    <3>1. ReturnedId(Target(r), From(r)) \in Id \cup {Nil}
      BY <1>11, TargetFacts DEF ReturnedId, updateTransaction, updateRefunded
    <3> QED
      BY <3>1, ToFacts, ErrorFacts DEF UpdateOutput, Output
  <2>4. CASE Goto(r, "insert") /\ UNCHANGED <<out, err, bg>> /\ input[r].op = "refund"
    BY <1>0, <1>11, <2>2, <2>4, GotoFacts
       DEF updateTransaction, updateRefunded, Stage, Locks, BasicInv, TypeOK, LockTypeOK, SaveInv
  <2>5. CASE \E e \in Errors, o \in Output : Return(r, e, o)
    <3>1. bg' \subseteq Id /\ SaveInv'
      BY <1>0, <1>11, <2>5, ReturnFacts, InputFacts
         DEF updateTransaction, updateRefunded, BasicInv, SaveInv, StageInv, Locks, Op
    <3> QED
      BY <1>0, <1>11, <2>2, <2>5, <3>1, ReturnFacts
         DEF updateTransaction, updateRefunded, BasicInv, TypeOK, LockTypeOK
  <2> QED
    BY <1>11, <2>3, <2>4, <2>5, ErrorFacts DEF updateTransaction, updateRefunded
<1>12. ASSUME NEW r \in Id, createRefund(r)
       PROVE  BasicInv'
  <2>1. input[r].op = "refund" /\ ProcessingRow(r) \in RefundRow
    BY <1>0, <1>12, InputFacts
       DEF createRefund, ProcessingRow, RefundRow, RefundStatus, BasicInv, StageInv
  <2>2. refunds' = refunds \/ refunds' = Insert(refunds, r, ProcessingRow(r))
    BY <1>12 DEF createRefund
  <2>3. RepositoryTypeOK'
    <3>1. DOMAIN refunds' \subseteq Id /\ \A f \in DOMAIN refunds' : refunds'[f] \in RefundRow
      BY <1>0, <2>1, <2>2 DEF Insert, RepositoryTypeOK
    <3> QED
      BY <1>0, <1>12, <3>1 DEF createRefund, RepositoryTypeOK
  <2>4. \E e \in Errors, o \in Output : Return(r, e, o)
    BY <1>12, ErrorFacts DEF createRefund, Output, RefundStatus
  <2>5. bg' \subseteq Id /\ SaveInv'
    BY <1>0, <1>12, <2>1, <2>4, ReturnFacts, InputFacts DEF createRefund, BasicInv, SaveInv
  <2> QED
    BY <1>0, <1>12, <2>3, <2>4, <2>5, ReturnFacts DEF createRefund, BasicInv, TypeOK, LockTypeOK
<1>13. ASSUME NEW r \in Id, releaseLock(r)
       PROVE  BasicInv'
  <2>1. LockTypeOK'
    BY <1>0, <1>13 DEF releaseLock, Released, LockTypeOK
  <2> QED
    BY <1>0, <1>13, <2>1, GotoFacts
       DEF releaseLock, Stage, BasicInv, TypeOK, RepositoryTypeOK, SaveInv
<1>14. ASSUME NEW r \in Id, saveIdempotency(r)
       PROVE  BasicInv'
  <2> DEFINE k == Parse[input[r].key]
             row == [merchant |-> input[r].merchant, response |-> out[r], live |-> TRUE]
  <2>1. input[r] \in Input /\ input[r].op \notin {"capture", "void"} /\ k # Nil
    BY <1>0, <1>14 DEF saveIdempotency, BasicInv, SaveInv
  <2>2. k \in Uuid /\ row \in IdemRow
    BY <1>0, <2>1, ParseAssumption, InputFacts DEF IdemRow, Op
  <2>3. idem' = idem \/ idem' = Insert(idem, k, row)
    BY <1>14 DEF saveIdempotency
  <2>4. UNCHANGED <<txs, refunds, lock, gw, locals>> /\ bg' = bg \ {r}
    BY <1>14 DEF saveIdempotency
  <2> HIDE DEF k, row
  <2>5. RepositoryTypeOK'
    <3>1. DOMAIN idem' \subseteq Uuid /\ \A x \in DOMAIN idem' : idem'[x] \in IdemRow
      BY <1>0, <2>2, <2>3 DEF Insert, RepositoryTypeOK
    <3> QED
      BY <1>0, <2>4, <3>1 DEF RepositoryTypeOK
  <2> QED
    BY <1>0, <2>4, <2>5 DEF BasicInv, TypeOK, LockTypeOK, IdleInv, StageInv, SaveInv, Locks
<1>15. ASSUME NEW k \in Uuid, expireIdempotency(k)
       PROVE  BasicInv'
  <2>1. k \in DOMAIN idem /\ [idem[k] EXCEPT !.live = FALSE] \in IdemRow
    BY <1>0, <1>15 DEF expireIdempotency, IdemRow, RepositoryTypeOK
  <2>2. RepositoryTypeOK'
    BY <1>0, <1>15, <2>1 DEF expireIdempotency, RepositoryTypeOK
  <2> QED
    BY <1>0, <1>15, <2>2
       DEF expireIdempotency, BasicInv, TypeOK, LockTypeOK, IdleInv, StageInv, SaveInv, Locks
<1>16. ASSUME NEW t \in Id, expireLock(t)
       PROVE  BasicInv'
  BY <1>16 DEF expireLock, Expired, BasicInv, TypeOK, RepositoryTypeOK, LockTypeOK, IdleInv,
               StageInv, SaveInv, Locks
<1>17. CASE crash
  BY <1>17 DEF crash, InFlight, Stage, BasicInv, TypeOK, RepositoryTypeOK, LockTypeOK, IdleInv,
               StageInv, SaveInv, Locks
<1>18. CASE UNCHANGED vars
  BY <1>18 DEF vars, BasicInv, TypeOK, RepositoryTypeOK, LockTypeOK, IdleInv, StageInv, SaveInv,
               Locks
<1> QED
  BY <1>1, <1>2, <1>3, <1>4, <1>5, <1>6, <1>7, <1>8, <1>9, <1>10, <1>11, <1>12, <1>13,
     <1>14, <1>15, <1>16, <1>17, <1>18
     DEF Next, Handler, cachedIdempotency, callGateway

(* BasicInv holds initially.                                               *)
LEMMA BasicInit == Init => BasicInv
<1> SUFFICES ASSUME Init
             PROVE  BasicInv
  OBVIOUS
<1>1. NoOutput \in Output /\ "nil" \in Errors
  BY ErrorFacts
<1> QED
  BY <1>1 DEF Init, RepositoryInit, LockInit, BasicInv, TypeOK, RepositoryTypeOK, LockTypeOK,
              IdleInv, StageInv, SaveInv, Stage

(* TypeOK, the type invariant of the payment service and its stores: every *)
(* row, lock, gateway effect and response is well formed in every state    *)
(* the service reaches.                                                    *)
THEOREM TypeCorrect == Spec => []TypeOK
<1>1. BasicInv => TypeOK
  BY DEF BasicInv
<1> QED
  BY <1>1, BasicInit, BasicStep, PTL DEF Spec

-----------------------------------------------------------------------------
(* What a step may never undo, whichever handler takes it: an arrived      *)
(* request keeps its input and does not go back before its insert; a       *)
(* request that does not move keeps what it has read; a stored transaction *)
(* keeps its merchant and key; and the gateway forgets nothing.            *)
InputsKept ==
    \A r \in Id : pc[r] # "idle" =>
        /\ input'[r] = input[r]
        /\ pc'[r] # "idle"
        /\ pc[r] \notin {"idem", "save"} => pc'[r] \notin {"idem", "save"}
        /\ pc'[r] = pc[r] => ref'[r] = ref[r] /\ reply'[r] = reply[r]

RowsKept ==
    \A t \in DOMAIN txs :
        /\ t \in DOMAIN txs'
        /\ txs'[t].merchant = txs[t].merchant
        /\ txs'[t].key = txs[t].key

(* The steps that touch neither the transactions nor the gateway's books.  *)
Quiet == UNCHANGED <<txs, gw>>

(* Each step is quiet, or one of the four that are not.                    *)
LEMMA QuietOrNot ==
    ASSUME [Next]_vars
    PROVE  \/ Quiet
           \/ \E r \in Id : saveTransaction(r)
           \/ \E r \in Id : callGatewayOk(r) \/ callGatewayErr(r)
           \/ \E r \in Id : updateTransaction(r) \/ updateRefunded(r)
BY DEF Next, Handler, cachedIdempotency, callGateway, vars, tables, Quiet, Arrive,
       MustParsePanics, CacheHit, CacheMiss, tokenizeCardToGateway, aquireLock,
       findTransaction, callGatewayPanics, createRefund, releaseLock, saveIdempotency,
       expireIdempotency, expireLock, crash

(* Inputs are kept by every step.                                          *)
LEMMA InputsStep == BasicInv /\ [Next]_vars => InputsKept
<1> SUFFICES ASSUME BasicInv, [Next]_vars
             PROVE  InputsKept
  OBVIOUS
<1>0. /\ pc \in [Id -> Stage] /\ input \in [Id -> Input \cup {NoInput}]
      /\ ref \in [Id -> Id \cup {Nil}] /\ reply \in [Id -> {"none", "ok", "err"}]
  BY DEF BasicInv, TypeOK
<1>1. ASSUME NEW r \in Id, Arrive(r)
      PROVE  InputsKept
  BY <1>0, <1>1 DEF Arrive, Goto, InputsKept
<1>2. ASSUME NEW r \in Id, Handler(r)
      PROVE  InputsKept
  <2>1. UNCHANGED input /\ \A s \in Id \ {r} : pc'[s] = pc[s] /\ ref'[s] = ref[s] /\ reply'[s] = reply[s]
    BY <1>0, <1>2
       DEF Handler, cachedIdempotency, callGateway, MustParsePanics, CacheHit, CacheMiss,
           tokenizeCardToGateway, saveTransaction, aquireLock, findTransaction,
           callGatewayPanics, callGatewayOk, callGatewayErr, updateTransaction,
           updateRefunded, createRefund, releaseLock, Goto, Return
  <2>2. /\ pc[r] # "idle" /\ pc'[r] # "idle" /\ pc'[r] # pc[r]
        /\ pc[r] \notin {"idem", "save"} => pc'[r] \notin {"idem", "save"}
    BY <1>0, <1>2
       DEF Handler, cachedIdempotency, callGateway, MustParsePanics, CacheHit, CacheMiss,
           tokenizeCardToGateway, saveTransaction, aquireLock, findTransaction,
           callGatewayPanics, callGatewayOk, callGatewayErr, updateTransaction,
           updateRefunded, createRefund, releaseLock, Goto, Return, InCritical
  <2> QED
    BY <2>1, <2>2 DEF InputsKept
<1>3. CASE crash
  BY <1>0, <1>3 DEF crash, InFlight, InputsKept
<1>4. CASE UNCHANGED locals
  BY <1>4 DEF locals, InputsKept
<1> QED
  BY <1>1, <1>2, <1>3, <1>4
     DEF Next, vars, locals, saveIdempotency, expireIdempotency, expireLock

(* What saveTransaction leaves of the transactions table.                  *)
LEMMA SaveFacts ==
    ASSUME BasicInv, RowInv, NEW r \in Id, saveTransaction(r)
    PROVE  /\ r \notin DOMAIN txs /\ UNCHANGED gw
           /\ \/ UNCHANGED txs /\ pc'[r] = "done"
              \/ /\ ~KeyTaken(input[r].key)
                 /\ DOMAIN txs' = DOMAIN txs \cup {r}
                 /\ txs'[r] = PendingRow(r)
                 /\ \A t \in DOMAIN txs : txs'[t] = txs[t]
                 /\ pc'[r] \in {"gateway", "done"}
<1>1. pc[r] = "save" /\ UNCHANGED gw
  BY DEF saveTransaction
<1>2. r \notin DOMAIN txs
  BY <1>1 DEF RowInv
<1>3. ~Locks(r) /\ pc \in [Id -> Stage]
  BY <1>1 DEF BasicInv, TypeOK, StageInv
<1>4. CASE UNCHANGED txs
  <2>1. ~(txs' = Insert(txs, r, PendingRow(r)))
    BY <1>2, <1>4 DEF Insert
  <2> QED
    BY <1>1, <1>2, <1>3, <1>4, <2>1 DEF saveTransaction, Return, Goto, InCritical
<1>5. CASE txs' = Insert(txs, r, PendingRow(r)) /\ ~KeyTaken(input[r].key)
  <2>1. pc'[r] \in {"gateway", "done"}
    BY <1>1, <1>3 DEF saveTransaction, Return, Goto, InCritical
  <2>2. /\ DOMAIN txs' = DOMAIN txs \cup {r} /\ txs'[r] = PendingRow(r)
        /\ \A t \in DOMAIN txs : txs'[t] = txs[t]
    BY <1>2, <1>5 DEF Insert
  <2> QED
    BY <1>1, <1>2, <1>5, <2>1, <2>2
<1> QED
  BY <1>4, <1>5 DEF saveTransaction

(* Rows are kept by every step.                                            *)
LEMMA RowsStep == BasicInv /\ RowInv /\ [Next]_vars => RowsKept
<1> SUFFICES ASSUME BasicInv, RowInv, [Next]_vars
             PROVE  RowsKept
  OBVIOUS
<1>1. CASE Quiet
  BY <1>1 DEF Quiet, RowsKept
<1>2. ASSUME NEW r \in Id, saveTransaction(r)
      PROVE  RowsKept
  BY <1>2, SaveFacts DEF RowsKept
<1>3. ASSUME NEW r \in Id, callGatewayOk(r) \/ callGatewayErr(r)
      PROVE  RowsKept
  BY <1>3 DEF callGatewayOk, callGatewayErr, tables, RowsKept
<1>4. ASSUME NEW r \in Id, updateTransaction(r) \/ updateRefunded(r)
      PROVE  RowsKept
  <2>1. txs' \in {txs, Updated(r)}
    BY <1>4 DEF updateTransaction, updateRefunded
  <2>2. RepositoryTypeOK
    BY DEF BasicInv, TypeOK
  <2> QED
    BY <2>1, <2>2, UpdatedFacts DEF RowsKept
<1> QED
  BY <1>1, <1>2, <1>3, <1>4, QuietOrNot

(* The gateway forgets nothing.                                            *)
LEMMA GatewayStep == [Next]_vars => gw \subseteq gw'
<1> SUFFICES ASSUME [Next]_vars
             PROVE  gw \subseteq gw'
  OBVIOUS
<1>1. ASSUME NEW r \in Id,
             \/ saveTransaction(r) \/ callGatewayOk(r) \/ callGatewayErr(r)
             \/ updateTransaction(r) \/ updateRefunded(r)
      PROVE  gw \subseteq gw'
  BY <1>1 DEF saveTransaction, callGatewayOk, callGatewayErr, updateTransaction, updateRefunded
<1> QED
  BY <1>1, QuietOrNot DEF Quiet

(* RowInv and UniqueInv are preserved: the only new row is that of a       *)
(* request between its insert and its gateway call, under a key no row has.*)
LEMMA RowStep == BasicInv /\ RowInv /\ UniqueInv /\ [Next]_vars => RowInv' /\ UniqueInv'
<1> SUFFICES ASSUME BasicInv, RowInv, UniqueInv, [Next]_vars
             PROVE  RowInv' /\ UniqueInv'
  OBVIOUS
<1>1. InputsKept /\ RowsKept
  BY InputsStep, RowsStep
<1>2. DOMAIN txs \subseteq Id
  BY DEF BasicInv, TypeOK, RepositoryTypeOK
<1>3. CASE DOMAIN txs' = DOMAIN txs
  BY <1>1, <1>2, <1>3 DEF InputsKept, RowsKept, RowInv, UniqueInv, Locks
<1>4. ASSUME NEW r \in Id, saveTransaction(r), ~UNCHANGED txs
      PROVE  RowInv' /\ UniqueInv'
  <2>1. /\ ~KeyTaken(input[r].key) /\ DOMAIN txs' = DOMAIN txs \cup {r}
        /\ txs'[r] = PendingRow(r) /\ pc'[r] \in {"gateway", "done"}
        /\ \A t \in DOMAIN txs : txs'[t] = txs[t]
    BY <1>4, SaveFacts
  <2>2. input'[r] = input[r] /\ ~Locks(r)
    BY <1>4 DEF saveTransaction, BasicInv, StageInv
  <2>3. txs'[r].key = input[r].key /\ txs'[r].merchant = input[r].merchant
    BY <2>1 DEF PendingRow
  <2>4. RowInv'
    BY <1>1, <1>2, <2>1, <2>2, <2>3 DEF InputsKept, RowInv, Locks
  <2>5. UniqueInv'
    BY <2>1, <2>3 DEF UniqueInv, KeyTaken
  <2> QED
    BY <2>4, <2>5
<1>5. ASSUME NEW r \in Id, updateTransaction(r) \/ updateRefunded(r)
      PROVE  DOMAIN txs' = DOMAIN txs
  BY <1>5, UpdatedFacts DEF updateTransaction, updateRefunded, BasicInv, TypeOK
<1>6. ASSUME NEW r \in Id, callGatewayOk(r) \/ callGatewayErr(r)
      PROVE  DOMAIN txs' = DOMAIN txs
  BY <1>6 DEF callGatewayOk, callGatewayErr, tables
<1> QED
  BY <1>3, <1>4, <1>5, <1>6, QuietOrNot DEF Quiet

(* What the gateway did, it did.                                           *)
LEMMA DidStep ==
    ASSUME [Next]_vars, NEW op, NEW t, Did(op, t)
    PROVE  Did(op, t)'
BY GatewayStep DEF Did

(* EvidenceInv is preserved.  A status is written only by the request      *)
(* whose gateway call justifies it, and only over the status that call     *)
(* started from.                                                           *)
LEMMA EvidenceStep ==
    BasicInv /\ RowInv /\ EvidenceInv /\ LocalInv /\ [Next]_vars => EvidenceInv'
<1> SUFFICES ASSUME BasicInv, RowInv, EvidenceInv, LocalInv, [Next]_vars,
                    NEW t \in DOMAIN txs'
             PROVE  /\ txs'[t].status \in {"authorized", "captured", "voided", "refunded"} =>
                          txs'[t].ref = t /\ Did("authorize", t)'
                    /\ txs'[t].status \in {"captured", "refunded"} => Did("capture", t)'
                    /\ txs'[t].status = "voided" => Did("void", t)'
                    /\ txs'[t].status = "refunded" => Did("refund", t)'
  BY DEF EvidenceInv
<1>1. CASE t \in DOMAIN txs /\ txs'[t] = txs[t]
  <2>1. \A op : Did(op, t) => Did(op, t)'
    BY DidStep
  <2> QED
    BY <1>1, <2>1 DEF EvidenceInv
<1>2. CASE UNCHANGED txs
  BY <1>1, <1>2
<1>3. ASSUME NEW r \in Id, saveTransaction(r)
      PROVE  \/ t \in DOMAIN txs /\ txs'[t] = txs[t]
             \/ txs'[t].status = "pending"
  <2>1. PendingRow(r).status = "pending"
    BY DEF PendingRow
  <2> QED
    BY <1>3, <2>1, SaveFacts
<1>4. ASSUME NEW r \in Id, updateTransaction(r) \/ updateRefunded(r), txs'[t] # txs[t]
      PROVE  /\ txs'[t].status \in {"authorized", "captured", "voided", "refunded"} =>
                   txs'[t].ref = t /\ Did("authorize", t)'
             /\ txs'[t].status \in {"captured", "refunded"} => Did("capture", t)'
             /\ txs'[t].status = "voided" => Did("void", t)'
             /\ txs'[t].status = "refunded" => Did("refund", t)'
  <2>1. /\ pc[r] = "update" /\ input[r] \in Input /\ txs' = Updated(r)
        /\ RepositoryTypeOK /\ t \in DOMAIN txs /\ ref \in [Id -> Id \cup {Nil}]
    <3>1. pc[r] = "update" /\ txs' \in {txs, Updated(r)}
      BY <1>4 DEF updateTransaction, updateRefunded
    <3>2. RepositoryTypeOK /\ ref \in [Id -> Id \cup {Nil}] /\ input[r] \in Input
      BY <3>1 DEF BasicInv, TypeOK, StageInv
    <3> QED
      BY <1>4, <3>1, <3>2, UpdatedFacts
  <2>2. t = Target(r) /\ txs[t].status = From(r) /\ txs'[t].status = To(r)
    BY <1>4, <2>1, UpdatedFacts DEF Matches
  <2>3. txs'[t].ref = IF NewRef(r) = Nil THEN txs[t].ref ELSE NewRef(r)
    BY <2>1, <2>2, UpdatedFacts DEF Matches
  <2>4. CASE reply[r] # "ok"
    <3>1. To(r) = "failed"
      BY <2>4 DEF To
    <3> QED
      BY <2>2, <3>1
  <2>5. CASE reply[r] = "ok" /\ ~Locks(r)
    <3>1. input[r].op = "authorize" /\ t = r /\ Did("authorize", r)
      BY <2>1, <2>2, <2>5, InputFacts DEF LocalInv, Locks, Op, Target
    <3>2. To(r) = "authorized" /\ NewRef(r) = r /\ r # Nil
      BY <2>5, <3>1, NilAssumption DEF To, NewRef
    <3> QED
      BY <2>2, <2>3, <3>1, <3>2, DidStep
  <2>6. CASE reply[r] = "ok" /\ Locks(r)
    <3>1. Did(input[r].op, t) /\ txs[t].status \in {"authorized", "captured"}
      BY <2>1, <2>2, <2>6 DEF LocalInv, From, Locks
    <3>2. txs'[t].ref = txs[t].ref
      BY <2>3, <2>6 DEF NewRef
    <3>3. txs[t].ref = t /\ Did("authorize", t)
      BY <2>1, <3>1 DEF EvidenceInv
    <3>4. input[r].op = "refund" => Did("capture", t)
      BY <2>1, <2>2, <2>6 DEF LocalInv, Target
    <3>5. CASE input[r].op = "capture"
      BY <2>2, <2>6, <3>1, <3>2, <3>3, <3>5, DidStep DEF To
    <3>6. CASE input[r].op = "void"
      BY <2>2, <2>6, <3>1, <3>2, <3>3, <3>6, DidStep DEF To
    <3>7. CASE input[r].op = "refund"
      BY <2>2, <2>6, <3>1, <3>2, <3>3, <3>4, <3>7, DidStep DEF To
    <3> QED
      BY <2>6, <3>5, <3>6, <3>7 DEF Locks
  <2> QED
    BY <2>4, <2>5, <2>6
<1>5. ASSUME NEW r \in Id, updateTransaction(r) \/ updateRefunded(r)
      PROVE  DOMAIN txs' = DOMAIN txs
  BY <1>5, UpdatedFacts DEF updateTransaction, updateRefunded, BasicInv, TypeOK
<1>6. ASSUME NEW r \in Id, callGatewayOk(r) \/ callGatewayErr(r)
      PROVE  UNCHANGED txs
  BY <1>6 DEF callGatewayOk, callGatewayErr, tables
<1> QED
  BY <1>1, <1>2, <1>3, <1>4, <1>5, <1>6, QuietOrNot DEF Quiet

(* A transaction found for a merchant stays that merchant's.               *)
LEMMA OwnerStep ==
    ASSUME RowsKept, NEW t, NEW m, FindByIDAndMerchantID(t, m)
    PROVE  FindByIDAndMerchantID(t, m)'
BY DEF RowsKept, FindByIDAndMerchantID

(* The only ways into the stages LocalInv is about.                        *)
LEMMA Entering ==
    ASSUME BasicInv, [Next]_vars, NEW r \in Id,
           pc'[r] \in {"gateway", "update", "insert"}, pc'[r] # pc[r]
    PROVE  \/ saveTransaction(r) /\ pc'[r] = "gateway"
           \/ findTransaction(r) /\ pc'[r] = "gateway"
           \/ (callGatewayOk(r) \/ callGatewayErr(r)) /\ pc'[r] = "update"
           \/ updateRefunded(r) /\ pc'[r] = "insert"
<1>0. pc \in [Id -> Stage]
  BY DEF BasicInv, TypeOK
<1>1. ASSUME NEW s \in Id, Arrive(s)
      PROVE  FALSE
  BY <1>0, <1>1 DEF Arrive, Goto
<1>2. ASSUME NEW s \in Id, Handler(s), s # r
      PROVE  FALSE
  BY <1>0, <1>2
     DEF Handler, cachedIdempotency, callGateway, MustParsePanics, CacheHit, CacheMiss,
         tokenizeCardToGateway, saveTransaction, aquireLock, findTransaction,
         callGatewayPanics, callGatewayOk, callGatewayErr, updateTransaction,
         updateRefunded, createRefund, releaseLock, Goto, Return
<1>3. CASE Handler(r)
  BY <1>0, <1>3
     DEF Handler, cachedIdempotency, callGateway, MustParsePanics, CacheHit, CacheMiss,
         tokenizeCardToGateway, saveTransaction, aquireLock, findTransaction,
         callGatewayPanics, callGatewayOk, callGatewayErr, updateTransaction,
         updateRefunded, createRefund, releaseLock, Goto, Return
<1>4. CASE crash
  BY <1>0, <1>4 DEF crash
<1>5. CASE UNCHANGED pc
  BY <1>5
<1> QED
  BY <1>1, <1>2, <1>3, <1>4, <1>5
     DEF Next, vars, locals, saveIdempotency, expireIdempotency, expireLock

(* RefInv is preserved: findTransaction alone writes the reference.        *)
LEMMA RefStep == BasicInv /\ RefInv /\ [Next]_vars => RefInv'
<1> SUFFICES ASSUME BasicInv, RefInv, [Next]_vars
             PROVE  RefInv'
  OBVIOUS
<1>1. InputsKept /\ ref \in [Id -> Id \cup {Nil}]
  BY InputsStep DEF BasicInv, TypeOK
<1>2. CASE UNCHANGED ref
  BY <1>1, <1>2 DEF RefInv, InputsKept, Locks
<1>3. ASSUME NEW r \in Id, findTransaction(r)
      PROVE  RefInv'
  <2>1. pc[r] # "idle" /\ Locks(r) /\ \A s \in Id \ {r} : ref'[s] = ref[s]
    BY <1>1, <1>3 DEF findTransaction, BasicInv, StageInv
  <2> QED
    BY <1>1, <2>1 DEF RefInv, InputsKept, Locks
<1>4. \/ UNCHANGED ref
      \/ \E r \in Id : findTransaction(r)
  BY DEF Next, Handler, cachedIdempotency, callGateway, vars, locals, Arrive, MustParsePanics,
         CacheHit, CacheMiss, tokenizeCardToGateway, saveTransaction, aquireLock,
         callGatewayPanics, callGatewayOk, callGatewayErr, updateTransaction, updateRefunded,
         createRefund, releaseLock, saveIdempotency, expireIdempotency, expireLock, crash
<1> QED
  BY <1>2, <1>3, <1>4

(* What LocalInv says of one request.                                      *)
LocalOK(r) ==
    /\ ~Locks(r) => r \in DOMAIN txs /\ ref[r] = Nil
    /\ Locks(r) =>
          /\ FindByIDAndMerchantID(input[r].tx, input[r].merchant)
          /\ ref[r] = input[r].tx
          /\ Did("authorize", input[r].tx)
          /\ input[r].op = "refund" => Did("capture", input[r].tx)
    /\ pc[r] = "update" => input[r].op # "charge"
    /\ pc[r] = "update" /\ reply[r] = "ok" => Did(input[r].op, Target(r))
    /\ pc[r] \in {"update", "insert"} /\ input[r].op = "refund" => reply[r] = "ok"

(* LocalInv is preserved: the row a request has read may be changed by     *)
(* others before it is used, but not its owner, nor what the gateway has   *)
(* done about it.                                                          *)
LEMMA LocalStep ==
    BasicInv /\ RefInv /\ RowInv /\ EvidenceInv /\ LocalInv /\ [Next]_vars => LocalInv'
<1> SUFFICES ASSUME BasicInv, RefInv, RowInv, EvidenceInv, LocalInv, [Next]_vars,
                    NEW r \in Id, pc'[r] \in {"gateway", "update", "insert"}
             PROVE  LocalOK(r)'
  BY DEF LocalInv, LocalOK
<1>0. /\ InputsKept /\ RowsKept
      /\ pc \in [Id -> Stage] /\ ref \in [Id -> Id \cup {Nil}]
      /\ reply \in [Id -> {"none", "ok", "err"}]
  BY InputsStep, RowsStep DEF BasicInv, TypeOK
<1>1. \A op, t : Did(op, t) => Did(op, t)'
  BY DidStep
<1>2. \A t, m : FindByIDAndMerchantID(t, m) => FindByIDAndMerchantID(t, m)'
  BY <1>0, OwnerStep
<1>3. CASE pc'[r] = pc[r]
  <2>1. /\ input'[r] = input[r] /\ ref'[r] = ref[r] /\ reply'[r] = reply[r]
    BY <1>0, <1>3 DEF InputsKept
  <2>2. LocalOK(r)
    BY <1>3 DEF LocalInv, LocalOK
  <2> QED
    BY <1>0, <1>1, <1>2, <1>3, <2>1, <2>2 DEF LocalOK, RowsKept, Locks, Target
<1>4. CASE saveTransaction(r) /\ pc'[r] = "gateway"
  <2>1. r \in DOMAIN txs'
    BY <1>4, SaveFacts
  <2>2. ~Locks(r) /\ input'[r] = input[r] /\ ref'[r] = ref[r] /\ ref[r] = Nil
    BY <1>4 DEF saveTransaction, BasicInv, StageInv, RefInv
  <2> QED
    BY <1>4, <2>1, <2>2 DEF LocalOK, Locks
<1>5. CASE findTransaction(r) /\ pc'[r] = "gateway"
  <2>1. Locks(r) /\ UNCHANGED <<input, txs>>
    BY <1>5 DEF findTransaction, BasicInv, StageInv, tables
  <2>2. /\ FindByIDAndMerchantID(input[r].tx, input[r].merchant)
        /\ RowErr(r, txs[input[r].tx]) = "nil"
        /\ ref'[r] = txs[input[r].tx].ref
    BY <1>0, <1>5 DEF findTransaction, Return, Goto
  <2>3. /\ txs[input[r].tx].status \in {"authorized", "captured"}
        /\ input[r].op = "refund" => txs[input[r].tx].status = "captured"
    BY <2>1, <2>2 DEF RowErr, TxAuthorizedErr, VoidErr, RefundErr, Locks
  <2>4. /\ txs[input[r].tx].ref = input[r].tx
        /\ Did("authorize", input[r].tx)
        /\ input[r].op = "refund" => Did("capture", input[r].tx)
    BY <2>2, <2>3 DEF FindByIDAndMerchantID, EvidenceInv
  <2> QED
    BY <1>1, <1>2, <1>5, <2>1, <2>2, <2>4 DEF LocalOK, Locks
<1>6. CASE (callGatewayOk(r) \/ callGatewayErr(r)) /\ pc'[r] = "update"
  <2>1. pc[r] = "gateway" /\ ~DereferencesNil(r) /\ UNCHANGED <<input, ref, txs>>
    BY <1>6 DEF callGatewayOk, callGatewayErr, tables
  <2>2. LocalOK(r)
    BY <2>1 DEF LocalInv, LocalOK
  <2>3. input[r].op # "charge"
    BY <2>1, <2>2 DEF LocalOK, DereferencesNil, Locks
  <2>4. reply'[r] = "ok" => Did(input[r].op, Target(r))'
    <3>1. EffectOf(r).op = input[r].op /\ EffectOf(r).order = Target(r)
      BY <2>2, <2>3 DEF EffectOf, Target, Locks, LocalOK
    <3>2. reply'[r] = "ok" => EffectOf(r) \in gw'
      BY <1>0, <1>6 DEF callGatewayOk, callGatewayErr
    <3> QED
      BY <2>1, <3>1, <3>2 DEF Did, Target, Locks
  <2>5. input[r].op = "refund" => reply'[r] = "ok"
    BY <1>0, <1>6 DEF callGatewayOk, callGatewayErr, Return, Goto, InCritical, Locks
  <2> QED
    BY <1>1, <1>2, <1>6, <2>1, <2>2, <2>3, <2>4, <2>5 DEF LocalOK, Locks
<1>7. CASE updateRefunded(r) /\ pc'[r] = "insert"
  <2>1. pc[r] = "update" /\ input[r].op = "refund" /\ UNCHANGED <<input, ref, reply>>
    BY <1>7 DEF updateRefunded
  <2>2. LocalOK(r)
    BY <2>1 DEF LocalInv, LocalOK
  <2> QED
    BY <1>1, <1>2, <1>7, <2>1, <2>2 DEF LocalOK, Locks
<1> QED
  BY <1>3, <1>4, <1>5, <1>6, <1>7, Entering

(* EffectInv is preserved: a request reaches the gateway only about a      *)
(* stored transaction of its own merchant.                                 *)
LEMMA EffectStep ==
    BasicInv /\ RowInv /\ LocalInv /\ EffectInv /\ [Next]_vars => EffectInv'
<1> SUFFICES ASSUME BasicInv, RowInv, LocalInv, EffectInv, [Next]_vars, NEW e \in gw'
             PROVE  /\ pc'[e.by] # "idle"
                    /\ FindByIDAndMerchantID(e.order, input[e.by].merchant)'
                    /\ e.op = "authorize" => e.order = e.by
                    /\ e.op = input'[e.by].op
                    /\ e.op \in {"capture", "void"} => Did("authorize", e.order)'
                    /\ e.op = "refund" => Did("capture", e.order)'
  BY DEF EffectInv
<1>0. InputsKept /\ RowsKept /\ gw \subseteq Effect
  BY InputsStep, RowsStep DEF BasicInv, TypeOK
<1>1. \A op, t : Did(op, t) => Did(op, t)'
  BY DidStep
<1>3. CASE e \in gw
  <2>1. e.by \in Id /\ pc[e.by] # "idle" /\ FindByIDAndMerchantID(e.order, input[e.by].merchant)
    BY <1>0, <1>3 DEF EffectInv, Effect
  <2>2. input'[e.by] = input[e.by] /\ pc'[e.by] # "idle"
    BY <1>0, <2>1 DEF InputsKept
  <2>3. FindByIDAndMerchantID(e.order, input[e.by].merchant)'
    BY <1>0, <2>1, <2>2 DEF RowsKept, FindByIDAndMerchantID
  <2> QED
    BY <1>1, <1>3, <2>2, <2>3 DEF EffectInv
<1>4. ASSUME NEW r \in Id, callGatewayOk(r) \/ callGatewayErr(r), e = EffectOf(r)
      PROVE  /\ pc'[e.by] # "idle"
             /\ FindByIDAndMerchantID(e.order, input[e.by].merchant)'
             /\ e.op = "authorize" => e.order = e.by
             /\ e.op = input'[e.by].op
             /\ e.op \in {"capture", "void"} => Did("authorize", e.order)'
             /\ e.op = "refund" => Did("capture", e.order)'
  <2>1. pc[r] = "gateway" /\ ~DereferencesNil(r)
    BY <1>4 DEF callGatewayOk, callGatewayErr
  <2>2. LocalOK(r) /\ input[r] \in Input
    BY <2>1 DEF LocalInv, LocalOK, BasicInv, StageInv
  <2>3. input[r].op # "charge"
    BY <2>1, <2>2 DEF LocalOK, DereferencesNil, Locks
  <2>4. e.by = r /\ e.op = input[r].op /\ e.order = Target(r)
    BY <1>4, <2>2, <2>3 DEF EffectOf, Target, LocalOK, Locks
  <2>5. input'[r] = input[r] /\ pc'[r] # "idle"
    BY <1>0, <2>1 DEF InputsKept
  <2>6. FindByIDAndMerchantID(Target(r), input[r].merchant)
    BY <2>1, <2>2 DEF LocalOK, Target, FindByIDAndMerchantID, RowInv
  <2>7. FindByIDAndMerchantID(e.order, input[e.by].merchant)'
    BY <1>0, <2>4, <2>5, <2>6 DEF RowsKept, FindByIDAndMerchantID
  <2>8. e.op = "authorize" => e.order = e.by
    BY <2>4 DEF Target, Locks
  <2>9. /\ e.op \in {"capture", "void"} => Did("authorize", e.order)
        /\ e.op = "refund" => Did("capture", e.order)
    BY <2>2, <2>4 DEF LocalOK, Target, Locks
  <2> QED
    BY <1>1, <2>4, <2>5, <2>7, <2>8, <2>9
<1>5. \/ e \in gw
      \/ \E r \in Id : (callGatewayOk(r) \/ callGatewayErr(r)) /\ e = EffectOf(r)
  <2>1. ASSUME NEW r \in Id,
               saveTransaction(r) \/ updateTransaction(r) \/ updateRefunded(r)
        PROVE  gw' = gw
    BY <2>1 DEF saveTransaction, updateTransaction, updateRefunded
  <2>2. ASSUME NEW r \in Id, callGatewayOk(r) \/ callGatewayErr(r)
        PROVE  gw' \subseteq gw \cup {EffectOf(r)}
    BY <2>2 DEF callGatewayOk, callGatewayErr
  <2> QED
    BY <2>1, <2>2, QuietOrNot DEF Quiet
<1> QED
  BY <1>3, <1>4, <1>5

(* The only panics are those of MustParsePanics and callGatewayPanics.     *)
LEMMA PanicSource ==
    ASSUME BasicInv, [Next]_vars, NEW r \in Id, err'[r] = "panic", err[r] # "panic"
    PROVE  MustParsePanics(r) \/ callGatewayPanics(r)
<1>0. err \in [Id -> Errors]
  BY DEF BasicInv, TypeOK
<1>1. ASSUME NEW s \in Id, Handler(s)
      PROVE  s = r /\ (MustParsePanics(r) \/ callGatewayPanics(r))
  <2>1. /\ \A row : RowErr(s, row) # "panic"
        /\ UpdateErr(s) # "panic"
    BY RowErrFacts, ToFacts
  <2>2. s = r
    BY <1>0, <1>1
       DEF Handler, cachedIdempotency, callGateway, MustParsePanics, CacheHit, CacheMiss,
           tokenizeCardToGateway, saveTransaction, aquireLock, findTransaction,
           callGatewayPanics, callGatewayOk, callGatewayErr, updateTransaction,
           updateRefunded, createRefund, releaseLock, Return
  <2>3. MustParsePanics(r) \/ callGatewayPanics(r)
    BY <1>0, <1>1, <2>1, <2>2
       DEF Handler, cachedIdempotency, callGateway, CacheHit, CacheMiss,
           tokenizeCardToGateway, saveTransaction, aquireLock, findTransaction,
           callGatewayOk, callGatewayErr, updateTransaction,
           updateRefunded, createRefund, releaseLock, Return
  <2> QED
    BY <2>2, <2>3
<1>2. CASE UNCHANGED err
  BY <1>2
<1> QED
  BY <1>1, <1>2
     DEF Next, vars, locals, Arrive, saveIdempotency, expireIdempotency, expireLock, crash

(* PanicsOnlyInCharge is preserved: every request but a charge has a       *)
(* gateway reference when it comes to dereference it.                      *)
LEMMA PanicStep ==
    BasicInv /\ LocalInv /\ PanicsOnlyInCharge /\ [Next]_vars => PanicsOnlyInCharge'
<1> SUFFICES ASSUME BasicInv, LocalInv, PanicsOnlyInCharge, [Next]_vars,
                    NEW r \in Id, err'[r] = "panic"
             PROVE  input'[r].op = "charge" \/ Parse[input'[r].key] = Nil
  BY DEF PanicsOnlyInCharge
<1>0. InputsKept
  BY InputsStep
<1>1. CASE err[r] = "panic"
  <2>1. pc[r] # "idle"
    BY <1>1 DEF BasicInv, IdleInv
  <2> QED
    BY <1>0, <1>1, <2>1 DEF InputsKept, PanicsOnlyInCharge
<1>2. CASE MustParsePanics(r)
  BY <1>2 DEF MustParsePanics
<1>3. CASE callGatewayPanics(r)
  <2>1. pc[r] = "gateway" /\ DereferencesNil(r) /\ input[r] \in Input /\ input' = input
    BY <1>3 DEF callGatewayPanics, BasicInv, StageInv
  <2>2. LocalOK(r)
    BY <2>1 DEF LocalInv, LocalOK
  <2>3. ~Locks(r)
    BY <2>1, <2>2, InputFacts, NilAssumption DEF LocalOK, DereferencesNil, Locks
  <2> QED
    BY <2>1, <2>3, InputFacts DEF DereferencesNil, Locks, Op
<1> QED
  BY <1>1, <1>2, <1>3, PanicSource

-----------------------------------------------------------------------------
(* Inv holds in every state the service reaches.                           *)
LEMMA Invariance == Spec => []Inv
<1>1. Init => Inv
  <2> SUFFICES ASSUME Init
               PROVE  Inv
    OBVIOUS
  <2>1. BasicInv
    BY BasicInit
  <2>2. DOMAIN txs = {} /\ gw = {} /\ \A r \in Id : pc[r] = "idle" /\ ref[r] = Nil /\ err[r] = "nil"
    BY DEF Init, RepositoryInit
  <2> QED
    BY <2>1, <2>2 DEF Inv, RefInv, RowInv, UniqueInv, EvidenceInv, LocalInv, EffectInv,
                      PanicsOnlyInCharge
<1>2. Inv /\ [Next]_vars => Inv'
  BY BasicStep, RefStep, RowStep, EvidenceStep, LocalStep, EffectStep, PanicStep DEF Inv
<1> QED
  BY <1>1, <1>2, PTL DEF Spec

(* OneHoldPerKey, for any number of requests, retries and merchants and    *)
(* whatever fails: an Idempotency-Key sent any number of times to          *)
(* Authorize makes the gateway place at most one hold.                     *)
THEOREM OneHold == Spec => []OneHoldPerKey
<1>1. Inv => OneHoldPerKey
  <2> SUFFICES ASSUME Inv, NEW e \in gw, NEW f \in gw,
                      e.op = "authorize", f.op = "authorize",
                      input[e.by].key = input[f.by].key
               PROVE  e = f
    BY DEF OneHoldPerKey
  <2>1. e \in Effect /\ f \in Effect
    BY DEF Inv, BasicInv, TypeOK
  <2>2. e.order = e.by /\ f.order = f.by /\ e.by \in DOMAIN txs /\ f.by \in DOMAIN txs
    BY DEF Inv, EffectInv, FindByIDAndMerchantID
  <2>3. e.by = f.by
    BY <2>2 DEF Inv, RowInv, UniqueInv
  <2> QED
    BY <2>1, <2>2, <2>3 DEF Effect
<1> QED
  BY <1>1, Invariance, PTL

(* OwnTransactionsOnly: the gateway is asked to act on a transaction only  *)
(* on behalf of the merchant that owns it.                                 *)
THEOREM OwnTransactions == Spec => []OwnTransactionsOnly
<1>1. Inv => OwnTransactionsOnly
  BY DEF Inv, EffectInv, FindByIDAndMerchantID, OwnTransactionsOnly
<1> QED
  BY <1>1, Invariance, PTL

(* PanicsOnlyInCharge: no handler but Charge ever dereferences a nil       *)
(* gateway reference.                                                      *)
THEOREM NoOtherPanics == Spec => []PanicsOnlyInCharge
<1>1. Inv => PanicsOnlyInCharge
  BY DEF Inv
<1> QED
  BY <1>1, Invariance, PTL

-----------------------------------------------------------------------------
(* The lock.                                                               *)

(* A request enters its critical section by aquireLock only.               *)
LEMMA EnteringCritical ==
    ASSUME BasicInv, [Next]_vars, NEW r \in Id, InCritical(r)', ~InCritical(r)
    PROVE  aquireLock(r) /\ pc'[r] = "read"
<1>0. pc \in [Id -> Stage] /\ pc'[r] \in {"read", "gateway", "update", "insert", "release"}
  BY DEF BasicInv, TypeOK, InCritical
<1>1. pc'[r] = pc[r] => InCritical(r)
  <2>1. pc'[r] = pc[r] => pc[r] # "idle" /\ input'[r] = input[r]
    BY <1>0, InputsStep DEF InputsKept
  <2> QED
    BY <1>0, <2>1 DEF InCritical, Locks
<1>2. ASSUME NEW s \in Id, Arrive(s)
      PROVE  pc'[r] = pc[r]
  BY <1>0, <1>2 DEF Arrive, Goto
<1>3. ASSUME NEW s \in Id, Handler(s), s # r
      PROVE  pc'[r] = pc[r]
  BY <1>0, <1>3
     DEF Handler, cachedIdempotency, callGateway, MustParsePanics, CacheHit, CacheMiss,
         tokenizeCardToGateway, saveTransaction, aquireLock, findTransaction,
         callGatewayPanics, callGatewayOk, callGatewayErr, updateTransaction,
         updateRefunded, createRefund, releaseLock, Goto, Return
<1>4. CASE Handler(r)
  <2>1. input'[r] = input[r]
    BY <1>4, InputsStep DEF InputsKept, Handler, cachedIdempotency, callGateway, MustParsePanics,
         CacheHit, CacheMiss, tokenizeCardToGateway, saveTransaction, aquireLock,
         findTransaction, callGatewayPanics, callGatewayOk, callGatewayErr, updateTransaction,
         updateRefunded, createRefund, releaseLock
  <2>2. Locks(r)
    BY <2>1 DEF InCritical, Locks
  <2>3. pc[r] \notin {"read", "gateway", "update", "insert", "release"}
    BY <2>2 DEF InCritical
  <2> QED
    BY <1>0, <1>4, <2>2, <2>3
       DEF Handler, cachedIdempotency, callGateway, MustParsePanics, CacheHit, CacheMiss,
           tokenizeCardToGateway, saveTransaction, aquireLock, findTransaction,
           callGatewayPanics, callGatewayOk, callGatewayErr, updateTransaction,
           updateRefunded, createRefund, releaseLock, Goto, Return, InCritical, BasicInv, StageInv
<1>5. CASE crash
  BY <1>0, <1>1, <1>5 DEF crash
<1>6. CASE UNCHANGED pc
  BY <1>1, <1>6
<1> QED
  BY <1>1, <1>2, <1>3, <1>4, <1>5, <1>6
     DEF Next, vars, locals, saveIdempotency, expireIdempotency, expireLock

(* While no handler outlives its lock, HoldsLock is preserved: a lock in   *)
(* use is neither acquired, nor released by another request, nor expired.  *)
LEMMA HoldsLockStep ==
    ASSUME "slow" \notin Faults
    PROVE  BasicInv /\ HoldsLock /\ [Next]_vars => HoldsLock'
<1> SUFFICES ASSUME BasicInv, HoldsLock, [Next]_vars, NEW r \in Id, InCritical(r)'
             PROVE  lock'[input'[r].tx] = r
  BY DEF HoldsLock
<1>0. lock \in [Id -> Id \cup {Nil}] /\ r # Nil
  BY NilAssumption DEF BasicInv, TypeOK, LockTypeOK
<1>1. CASE ~InCritical(r)
  <2>1. aquireLock(r) /\ pc'[r] = "read" /\ pc[r] = "lock" /\ pc \in [Id -> Stage]
    BY <1>1, EnteringCritical DEF aquireLock, BasicInv, TypeOK
  <2>2. input[r].tx \in Id /\ input' = input
    BY <2>1, InputFacts DEF aquireLock, BasicInv, StageInv, Locks
  <2>3. Acquired(input[r].tx, r)
    BY <2>1 DEF aquireLock, Return, Goto, InCritical
  <2> QED
    BY <1>0, <2>2, <2>3 DEF Acquired
<1>2. CASE InCritical(r)
  <2> DEFINE t == input[r].tx
  <2>1. lock[t] = r /\ pc[r] # "idle" /\ input[r] \in Input
    BY <1>2 DEF HoldsLock, InCritical, BasicInv, StageInv
  <2>2. input'[r] = input[r] /\ t \in Id
    BY <1>2, <2>1, InputsStep, InputFacts DEF InputsKept, InCritical, Locks
  <2>3. ASSUME NEW s \in Id, aquireLock(s)
        PROVE  lock'[t] = r
    BY <1>0, <2>1, <2>2, <2>3 DEF aquireLock, Acquired, Refused
  <2>4. ASSUME NEW s \in Id, releaseLock(s)
        PROVE  lock'[t] = r
    <3>1. CASE s = r
      <4>1. pc'[r] = "done"
        BY <2>4, <3>1 DEF releaseLock, Goto, BasicInv, TypeOK
      <4> QED
        BY <4>1 DEF InCritical
    <3>2. CASE s # r
      BY <1>0, <2>1, <2>2, <2>4, <3>2 DEF releaseLock, Released
    <3> QED
      BY <3>1, <3>2
  <2>5. ASSUME NEW u \in Id, expireLock(u)
        PROVE  lock'[t] = r
    <3>1. InFlight(r)
      BY <1>2 DEF InCritical, InFlight
    <3>2. u # t
      BY <2>1, <2>5, <3>1 DEF expireLock
    <3> QED
      BY <1>0, <2>1, <2>2, <2>5, <3>2 DEF expireLock, Expired
  <2>6. \/ UNCHANGED lock
        \/ \E s \in Id : aquireLock(s) \/ releaseLock(s) \/ expireLock(s)
    BY DEF Next, Handler, cachedIdempotency, callGateway, vars, Arrive, MustParsePanics,
           CacheHit, CacheMiss, tokenizeCardToGateway, saveTransaction, findTransaction,
           callGatewayPanics, callGatewayOk, callGatewayErr, updateTransaction, updateRefunded,
           createRefund, saveIdempotency, expireIdempotency, crash
  <2> QED
    BY <2>1, <2>2, <2>3, <2>4, <2>5, <2>6
<1> QED
  BY <1>1, <1>2

(* OneInCritical: while no handler outlives the TTL of its lock, at most   *)
(* one request at a time is between aquireLock and Release on a            *)
(* transaction, whatever else fails.                                       *)
THEOREM MutualExclusion ==
    ASSUME "slow" \notin Faults
    PROVE  Spec => []OneInCritical
<1>1. Init => HoldsLock
  BY DEF Init, HoldsLock, InCritical
<1>2. BasicInv /\ HoldsLock /\ [Next]_vars => HoldsLock'
  BY HoldsLockStep
<1>3. HoldsLock => OneInCritical
  BY DEF HoldsLock, OneInCritical
<1> QED
  BY <1>1, <1>2, <1>3, BasicInit, BasicStep, PTL DEF Spec

(* OnlyOwnLockReleased, slow handlers included: a deferred Release never   *)
(* removes a lock that another request has acquired in the meantime.       *)
THEOREM ReleaseIsSafe == Spec => OnlyOwnLockReleased
<1>1. BasicInv /\ [Next]_vars =>
        [\A r, t \in Id : pc[r] = "release" /\ pc'[r] = "done" /\ lock[t] # r =>
            lock'[t] = lock[t]]_vars
  <2> SUFFICES ASSUME BasicInv, [Next]_vars, NEW r \in Id, NEW t \in Id,
                      pc[r] = "release", pc'[r] = "done", lock[t] # r
               PROVE  lock'[t] = lock[t]
    OBVIOUS
  <2>0. pc \in [Id -> Stage] /\ lock \in [Id -> Id \cup {Nil}]
    BY DEF BasicInv, TypeOK, LockTypeOK
  <2>1. ASSUME NEW s \in Id, Arrive(s)
        PROVE  FALSE
    BY <2>0, <2>1 DEF Arrive, Goto
  <2>2. ASSUME NEW s \in Id, Handler(s)
        PROVE  releaseLock(r)
    BY <2>0, <2>2
       DEF Handler, cachedIdempotency, callGateway, MustParsePanics, CacheHit, CacheMiss,
           tokenizeCardToGateway, saveTransaction, aquireLock, findTransaction,
           callGatewayPanics, callGatewayOk, callGatewayErr, updateTransaction,
           updateRefunded, createRefund, releaseLock, Goto, Return
  <2>3. releaseLock(r)
    BY <2>0, <2>1, <2>2
       DEF Next, vars, locals, saveIdempotency, expireIdempotency, expireLock, crash
  <2> QED
    BY <2>0, <2>3 DEF releaseLock, Released
<1> QED
  BY <1>1, BasicInit, BasicStep, PTL DEF Spec, OnlyOwnLockReleased

-----------------------------------------------------------------------------
(* PaymentService implements PaymentLedger.                                *)

book == [t \in DOMAIN txs |-> txs[t].status]

effectsOf == {<<e.op, e.order>> : e \in gw}

(* What the gateway did is among the effects of the ledger.                *)
LEMMA DoneFacts ==
    ASSUME NEW op, NEW t, Did(op, t)
    PROVE  <<op, t>> \in effectsOf
BY DEF Did, effectsOf

(* A step that leaves statuses and effects alone is a stutter; an insert   *)
(* opens a transaction; a gateway call that takes effect is Gateway; and   *)
(* an update that matches a row is the transition it records.              *)
LEMMA LedgerStep == Inv /\ [Next]_vars => [Ledger!Next]_<<book, effectsOf>>
<1> SUFFICES ASSUME Inv, [Next]_vars
             PROVE  Ledger!Next \/ UNCHANGED <<book, effectsOf>>
  BY DEF book, effectsOf
<1>0. /\ BasicInv /\ RowInv /\ LocalInv /\ EvidenceInv
      /\ DOMAIN txs \subseteq Id /\ RepositoryTypeOK
  BY DEF Inv, BasicInv, TypeOK, RepositoryTypeOK
<1>1. CASE Quiet
  BY <1>1 DEF Quiet, book, effectsOf
<1>2. ASSUME NEW r \in Id, saveTransaction(r), ~UNCHANGED txs
      PROVE  Ledger!Open(r)
  <2>1. /\ r \notin DOMAIN txs /\ gw' = gw /\ DOMAIN txs' = DOMAIN txs \cup {r}
        /\ txs'[r] = PendingRow(r) /\ \A t \in DOMAIN txs : txs'[t] = txs[t]
    BY <1>0, <1>2, SaveFacts
  <2>2. txs'[r].status = "pending"
    BY <2>1 DEF PendingRow
  <2> QED
    BY <2>1, <2>2 DEF Ledger!Open
<1>3. ASSUME NEW r \in Id, callGatewayOk(r) \/ callGatewayErr(r)
      PROVE  Ledger!Next \/ UNCHANGED <<book, effectsOf>>
  <2>1. pc[r] = "gateway" /\ ~DereferencesNil(r) /\ txs' = txs
    BY <1>3 DEF callGatewayOk, callGatewayErr, tables
  <2>2. LocalOK(r) /\ input[r] \in Input
    BY <1>0, <2>1 DEF LocalInv, LocalOK, BasicInv, StageInv
  <2>3. input[r].op # "charge"
    BY <2>1, <2>2 DEF LocalOK, DereferencesNil, Locks
  <2>4. EffectOf(r).op = input[r].op /\ EffectOf(r).order = Target(r)
    BY <2>2, <2>3 DEF EffectOf, Target, LocalOK, Locks
  <2>5. CASE gw' = gw
    BY <2>1, <2>5 DEF book, effectsOf
  <2>6. CASE gw' = gw \cup {EffectOf(r)}
    <3>1. Target(r) \in DOMAIN txs
      BY <2>2 DEF LocalOK, Target, FindByIDAndMerchantID
    <3>2. /\ input[r].op \in {"capture", "void"} => <<"authorize", Target(r)>> \in effectsOf
          /\ input[r].op = "refund" => <<"capture", Target(r)>> \in effectsOf
      BY <2>2, DoneFacts DEF LocalOK, Target, Locks
    <3>3. effectsOf' = effectsOf \cup {<<input[r].op, Target(r)>>}
      BY <2>4, <2>6 DEF effectsOf
    <3>4. input[r].op \in {"authorize", "capture", "void", "refund"}
      BY <2>2, <2>3, InputFacts DEF Op
    <3>5. ASSUME NEW t \in Id, NEW op \in {"authorize", "capture", "void", "refund"},
                 t = Target(r), op = input[r].op
          PROVE  Ledger!Next
      <4>1. Ledger!Gateway(op, t)
        BY <2>1, <3>1, <3>2, <3>3, <3>5 DEF Ledger!Gateway, Ledger!Done, effectsOf
      <4> QED
        BY <4>1 DEF Ledger!Next
    <3> QED
      BY <1>0, <3>1, <3>4, <3>5
  <2> QED
    BY <1>3, <2>5, <2>6 DEF callGatewayOk, callGatewayErr
<1>4. ASSUME NEW r \in Id, updateTransaction(r) \/ updateRefunded(r)
      PROVE  Ledger!Next \/ UNCHANGED <<book, effectsOf>>
  <2> DEFINE t == Target(r)
  <2>1. /\ pc[r] = "update" /\ txs' \in {txs, Updated(r)} /\ gw' = gw
    BY <1>4 DEF updateTransaction, updateRefunded
  <2>2. LocalOK(r) /\ input[r] \in Input
    BY <1>0, <2>1 DEF LocalInv, LocalOK, BasicInv, StageInv
  <2>3. CASE txs' = txs \/ ~Matches(t, From(r))
    BY <2>1, <2>3 DEF book, effectsOf, Updated, UpdateByQuery
  <2>4. CASE txs' = Updated(r) /\ Matches(t, From(r))
    <3>1. t \in DOMAIN txs /\ txs[t].status = From(r)
      BY <2>4 DEF Matches
    <3>2. /\ DOMAIN txs' = DOMAIN txs /\ txs'[t].status = To(r)
          /\ \A u \in DOMAIN txs \ {t} : txs'[u] = txs[u]
      BY <1>0, <2>4, UpdatedFacts
    <3>3. book' = [book EXCEPT ![t] = To(r)]
      BY <3>1, <3>2 DEF book
    <3>4. book[t] = From(r) /\ t \in DOMAIN book /\ effectsOf' = effectsOf
      BY <2>1, <3>1 DEF book, effectsOf
    <3>5. ASSUME NEW from, NEW to, From(r) = from, To(r) = to
          PROVE  Ledger!Move(t, from, to)
      BY <3>3, <3>4, <3>5 DEF Ledger!Move, book, effectsOf
    <3>6. CASE reply[r] # "ok"
      <4>1. To(r) = "failed"
        BY <3>6 DEF To
      <4>2. From(r) \in {"pending", "authorized"}
        BY <2>1, <2>2, <3>6, InputFacts DEF LocalOK, From, Op
      <4>3. Ledger!Move(t, "pending", "failed") \/ Ledger!Move(t, "authorized", "failed")
        BY <3>5, <4>1, <4>2
      <4> QED
        BY <1>0, <3>1, <4>3 DEF Ledger!Next, Ledger!Fail
    <3>7. CASE reply[r] = "ok"
      <4>1. <<input[r].op, t>> \in effectsOf /\ input[r].op # "charge"
        BY <2>1, <2>2, <3>7, DoneFacts DEF LocalOK
      <4>2. CASE input[r].op = "authorize"
        <5>1. From(r) = "pending" /\ To(r) = "authorized"
          BY <3>7, <4>2 DEF From, To
        <5>2. Ledger!Move(t, "pending", "authorized")
          BY <3>5, <5>1
        <5>3. Ledger!Done("authorize", t)
          BY <4>1, <4>2 DEF Ledger!Done, effectsOf
        <5> QED
          BY <1>0, <3>1, <5>2, <5>3 DEF Ledger!Next, Ledger!Authorize
      <4>3. CASE input[r].op = "capture"
        <5>1. From(r) = "authorized" /\ To(r) = "captured"
          BY <3>7, <4>3 DEF From, To
        <5>2. Ledger!Move(t, "authorized", "captured")
          BY <3>5, <5>1
        <5>3. Ledger!Done("capture", t)
          BY <4>1, <4>3 DEF Ledger!Done, effectsOf
        <5> QED
          BY <1>0, <3>1, <5>2, <5>3 DEF Ledger!Next, Ledger!Capture
      <4>4. CASE input[r].op = "void"
        <5>1. From(r) = "authorized" /\ To(r) = "voided"
          BY <3>7, <4>4 DEF From, To
        <5>2. Ledger!Move(t, "authorized", "voided")
          BY <3>5, <5>1
        <5>3. Ledger!Done("void", t)
          BY <4>1, <4>4 DEF Ledger!Done, effectsOf
        <5> QED
          BY <1>0, <3>1, <5>2, <5>3 DEF Ledger!Next, Ledger!Void
      <4>5. CASE input[r].op = "refund"
        <5>1. From(r) = "captured" /\ To(r) = "refunded"
          BY <3>7, <4>5 DEF From, To
        <5>2. Ledger!Move(t, "captured", "refunded")
          BY <3>5, <5>1
        <5>3. Ledger!Done("refund", t)
          BY <4>1, <4>5 DEF Ledger!Done, effectsOf
        <5> QED
          BY <1>0, <3>1, <5>2, <5>3 DEF Ledger!Next, Ledger!Refund
      <4> QED
        BY <2>2, <4>1, <4>2, <4>3, <4>4, <4>5, InputFacts DEF Op
    <3> QED
      BY <3>6, <3>7
  <2> QED
    BY <2>1, <2>3, <2>4
<1>5. ASSUME NEW r \in Id, saveTransaction(r)
      PROVE  Ledger!Next \/ UNCHANGED <<book, effectsOf>>
  <2>1. gw' = gw
    BY <1>5 DEF saveTransaction
  <2>2. CASE txs' = txs
    BY <2>1, <2>2 DEF book, effectsOf
  <2>3. CASE txs' # txs
    BY <1>2, <1>5, <2>3 DEF Ledger!Next
  <2> QED
    BY <2>2, <2>3
<1> QED
  BY <1>1, <1>3, <1>4, <1>5, QuietOrNot

(* LedgerSpec: for every workload and under every fault the stored         *)
(* statuses and the gateway's books implement PaymentLedger.  No status    *)
(* moves off its lifecycle or claims what the gateway has not done.        *)
THEOREM ImplementsLedger == Spec => LedgerSpec
<1>1. Init => Ledger!Init
  BY DEF Init, RepositoryInit, Ledger!Init
<1>2. Inv /\ [Next]_vars => [Ledger!Next]_<<book, effectsOf>>
  BY LedgerStep
<1> QED
  BY <1>1, <1>2, Invariance, PTL DEF Spec, LedgerSpec, Ledger!Spec, book, effectsOf

=============================================================================
