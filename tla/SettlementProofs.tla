-------------------------- MODULE SettlementProofs --------------------------
(***************************************************************************)
(* Proofs about PaymentService: what it does to money, and what it tells   *)
(* its clients.  PaymentServiceProofs has the invariant they start from.   *)
(***************************************************************************)
EXTENDS PaymentServiceProofs

(* The transitions of a stored transaction.                                *)
Lifecycle ==
    {<<"pending", "authorized">>, <<"pending", "failed">>, <<"authorized", "captured">>,
     <<"authorized", "voided">>, <<"authorized", "failed">>, <<"captured", "refunded">>}

(* What an update may record.                                              *)
Outcome == {"authorized", "captured", "voided", "refunded", "failed"}

(* A refund row is the one its request inserted, about a transaction that  *)
(* is refunded for good.                                                   *)
RefundsInv ==
    \A a \in DOMAIN refunds :
        /\ pc[a] # "idle" /\ input[a].op = "refund"
        /\ refunds[a] = ProcessingRow(a)
        /\ refunds[a].tx \in DOMAIN txs
        /\ txs[refunds[a].tx].status = "refunded"

(* What a refund relies on between its read and its insert, also when it   *)
(* has outlived its lock: another refund may have come first, nothing else.*)
RefundInv ==
    \A r \in Id : input[r].op = "refund" =>
        /\ pc[r] \in {"gateway", "update"} =>
              txs[input[r].tx].status \in {"captured", "refunded"}
        /\ pc[r] = "insert" => txs[input[r].tx].status = "refunded"

(* What a response claims is true, of a row of the merchant it goes to.    *)
AnswerOK(o, m) ==
    IF o.shape = "refund"
    THEN /\ o.id \in DOMAIN refunds
         /\ refunds[o.id].merchant = m
         /\ txs[refunds[o.id].tx].status = "refunded"
    ELSE /\ o.id \in DOMAIN txs
         /\ txs[o.id].merchant = m
         /\ o.status \in Outcome
         /\ txs[o.id].status \in Since(o.status)

(* The row a response names was made under idempotency key k.              *)
KeyOK(o, k) ==
    IF o.shape = "refund" THEN Parse[input[o.id].key] = k ELSE Parse[txs[o.id].key] = k

(* Responses, stored ones included, are true and filed under their key.    *)
AnswersInv ==
    \A r \in Id : out[r].id # Nil =>
        /\ pc[r] # "idle"
        /\ out[r].shape = Shape(r)
        /\ AnswerOK(out[r], input[r].merchant)
        /\ input[r].op \notin {"capture", "void"} => KeyOK(out[r], Parse[input[r].key])

StoredInv ==
    \A k \in DOMAIN idem : idem[k].response.id # Nil =>
        AnswerOK(idem[k].response, idem[k].merchant) /\ KeyOK(idem[k].response, k)

ClaimInv == RefundsInv /\ RefundInv /\ AnswersInv /\ StoredInv

-----------------------------------------------------------------------------
(* An update ends the stage update, and one that records nothing new       *)
(* leaves the table alone.                                                 *)
LEMMA UpdateStep ==
    ASSUME BasicInv, NEW r \in Id, updateTransaction(r) \/ updateRefunded(r)
    PROVE  /\ pc[r] = "update" /\ pc'[r] # "update"
           /\ txs' \in {txs, Updated(r)}
           /\ DOMAIN txs' = DOMAIN txs
           /\ input' = input /\ UNCHANGED <<refunds, lock, gw, reply>>
<1>1. pc \in [Id -> Stage] /\ RepositoryTypeOK
  BY DEF BasicInv, TypeOK
<1>2. /\ pc[r] = "update" /\ txs' \in {txs, Updated(r)}
      /\ input' = input /\ UNCHANGED <<refunds, lock, gw, reply>>
  BY DEF updateTransaction, updateRefunded
<1>3. pc'[r] # "update"
  BY <1>1 DEF updateTransaction, updateRefunded, Return, Goto
<1> QED
  BY <1>1, <1>2, <1>3, UpdatedFacts

(* The status of a stored transaction changes only by the update of a      *)
(* request about it, and only along the lifecycle.                         *)
LEMMA StatusStep ==
    ASSUME Inv, [Next]_vars, NEW t \in DOMAIN txs
    PROVE  /\ t \in DOMAIN txs'
           /\ \/ txs'[t].status = txs[t].status
              \/ \E r \in Id :
                    /\ updateTransaction(r) \/ updateRefunded(r)
                    /\ Target(r) = t
                    /\ txs[t].status = From(r) /\ txs'[t].status = To(r)
                    /\ <<txs[t].status, txs'[t].status>> \in Lifecycle
<1>0. /\ BasicInv /\ RowInv /\ LocalInv /\ RepositoryTypeOK
  BY DEF Inv, BasicInv, TypeOK
<1>1. t \in DOMAIN txs'
  BY <1>0, RowsStep DEF RowsKept
<1>2. ASSUME NEW r \in Id, updateTransaction(r) \/ updateRefunded(r),
             txs'[t].status # txs[t].status
      PROVE  /\ Target(r) = t
             /\ txs[t].status = From(r) /\ txs'[t].status = To(r)
             /\ <<txs[t].status, txs'[t].status>> \in Lifecycle
  <2>1. pc[r] = "update" /\ txs' = Updated(r)
    BY <1>0, <1>2, UpdateStep
  <2>2. Target(r) = t /\ txs[t].status = From(r)
    BY <1>0, <1>2, <2>1, UpdatedFacts
  <2>3. txs'[t].status = To(r)
    BY <1>0, <2>1, <2>2, UpdatedFacts DEF Matches
  <2>4. input[r].op \in Op \ {"charge"} /\ (input[r].op = "refund" => reply[r] = "ok")
    BY <1>0, <2>1, InputFacts DEF LocalInv, BasicInv, StageInv
  <2>5. <<From(r), To(r)>> \in Lifecycle
    BY <2>4 DEF From, To, Lifecycle, Op
  <2> QED
    BY <2>2, <2>3, <2>5
<1>3. ASSUME NEW r \in Id, saveTransaction(r)
      PROVE  txs'[t].status = txs[t].status
  BY <1>0, <1>3, SaveFacts
<1>4. ASSUME NEW r \in Id, callGatewayOk(r) \/ callGatewayErr(r)
      PROVE  txs'[t].status = txs[t].status
  BY <1>4 DEF callGatewayOk, callGatewayErr, tables
<1> QED
  BY <1>1, <1>2, <1>3, <1>4, QuietOrNot DEF Quiet

(* What has been reported of a transaction stays true.                     *)
LEMMA SinceStep ==
    ASSUME Inv, [Next]_vars, NEW t \in DOMAIN txs, NEW s \in Outcome,
           txs[t].status \in Since(s)
    PROVE  txs'[t].status \in Since(s)
<1>1. CASE txs'[t].status = txs[t].status
  BY <1>1
<1>2. CASE <<txs[t].status, txs'[t].status>> \in Lifecycle
  BY <1>2 DEF Lifecycle, Since, Outcome
<1> QED
  BY <1>1, <1>2, StatusStep

(* A refunded transaction stays refunded, and so does one that is captured *)
(* or refunded.                                                            *)
LEMMA RefundedStep ==
    ASSUME Inv, [Next]_vars, NEW t \in DOMAIN txs
    PROVE  /\ t \in DOMAIN txs'
           /\ txs[t].status = "refunded" => txs'[t].status = "refunded"
           /\ txs[t].status \in {"captured", "refunded"} =>
                 txs'[t].status \in {"captured", "refunded"}
<1>1. CASE txs'[t].status = txs[t].status
  BY <1>1, StatusStep
<1>2. CASE <<txs[t].status, txs'[t].status>> \in Lifecycle
  BY <1>2, StatusStep DEF Lifecycle
<1> QED
  BY <1>1, <1>2, StatusStep

(* The refunds table only grows, by createRefund.                          *)
LEMMA RefundsStep ==
    ASSUME RefundsInv, [Next]_vars
    PROVE  /\ \A a \in DOMAIN refunds : a \in DOMAIN refunds' /\ refunds'[a] = refunds[a]
           /\ \A a \in DOMAIN refunds' :
                 \/ a \in DOMAIN refunds
                 \/ a \in Id /\ createRefund(a) /\ refunds'[a] = ProcessingRow(a)
<1>1. CASE UNCHANGED refunds
  BY <1>1
<1>2. ASSUME NEW r \in Id, createRefund(r), ~UNCHANGED refunds
      PROVE  refunds' = Insert(refunds, r, ProcessingRow(r))
  BY <1>2 DEF createRefund
<1>3. ASSUME NEW r \in Id, createRefund(r), ~UNCHANGED refunds
      PROVE  /\ \A a \in DOMAIN refunds : a \in DOMAIN refunds' /\ refunds'[a] = refunds[a]
             /\ \A a \in DOMAIN refunds' :
                   \/ a \in DOMAIN refunds
                   \/ a \in Id /\ createRefund(a) /\ refunds'[a] = ProcessingRow(a)
  BY <1>2, <1>3 DEF Insert, RefundsInv
<1>4. \/ UNCHANGED refunds
      \/ \E r \in Id : createRefund(r)
  BY DEF Next, Handler, cachedIdempotency, callGateway, vars, tables, Arrive, MustParsePanics,
         CacheHit, CacheMiss, tokenizeCardToGateway, saveTransaction, aquireLock,
         findTransaction, callGatewayPanics, callGatewayOk, callGatewayErr,
         updateTransaction, updateRefunded, releaseLock, saveIdempotency,
         expireIdempotency, expireLock, crash
<1> QED
  BY <1>1, <1>3, <1>4

(* RefundInv is preserved: a refund reads captured under its lock, and     *)
(* from captured a transaction goes to refunded only.                      *)
LEMMA RefundStep ==
    Inv /\ RefundInv /\ [Next]_vars => RefundInv'
<1> SUFFICES ASSUME Inv, RefundInv, [Next]_vars, NEW r \in Id, input'[r].op = "refund",
                    pc'[r] \in {"gateway", "update", "insert"}
             PROVE  /\ pc'[r] \in {"gateway", "update"} =>
                          txs'[input'[r].tx].status \in {"captured", "refunded"}
                    /\ pc'[r] = "insert" => txs'[input'[r].tx].status = "refunded"
  BY DEF RefundInv
<1>0. /\ BasicInv /\ LocalInv /\ RowInv /\ InputsKept
      /\ pc \in [Id -> Stage] /\ RepositoryTypeOK
  BY InputsStep DEF Inv, BasicInv, TypeOK
<1>1. CASE pc'[r] = pc[r]
  <2>1. input'[r] = input[r] /\ input[r].tx \in DOMAIN txs
    BY <1>0, <1>1 DEF InputsKept, LocalInv, Locks, FindByIDAndMerchantID
  <2> QED
    BY <1>1, <2>1, RefundedStep DEF RefundInv
<1>2. CASE saveTransaction(r) /\ pc'[r] = "gateway"
  <2>1. input' = input /\ ~Locks(r)
    BY <1>0, <1>2 DEF saveTransaction, BasicInv, StageInv
  <2> QED
    BY <2>1 DEF Locks
<1>3. CASE findTransaction(r) /\ pc'[r] = "gateway"
  <2>1. input' = input /\ txs' = txs
    BY <1>3 DEF findTransaction, tables
  <2>2. RowErr(r, txs[input[r].tx]) = "nil"
    BY <1>0, <1>3 DEF findTransaction, Return, Goto
  <2> QED
    BY <1>3, <2>1, <2>2 DEF RowErr, RefundErr
<1>4. CASE (callGatewayOk(r) \/ callGatewayErr(r)) /\ pc'[r] = "update"
  <2>1. input' = input /\ txs' = txs /\ pc[r] = "gateway"
    BY <1>4 DEF callGatewayOk, callGatewayErr, tables
  <2> QED
    BY <1>4, <2>1 DEF RefundInv
<1>5. CASE updateRefunded(r) /\ pc'[r] = "insert"
  <2>1. input' = input /\ pc[r] = "update" /\ txs' = Updated(r) /\ reply[r] = "ok"
    BY <1>0, <1>5 DEF updateRefunded, Return, Goto, InCritical, LocalInv
  <2>2. /\ Target(r) = input[r].tx /\ From(r) = "captured" /\ To(r) = "refunded"
        /\ input[r].tx \in DOMAIN txs
        /\ txs[input[r].tx].status \in {"captured", "refunded"}
    BY <1>0, <2>1 DEF Target, Locks, From, To, LocalInv, FindByIDAndMerchantID, RefundInv
  <2> QED
    BY <1>0, <1>5, <2>1, <2>2, UpdatedFacts DEF Matches
<1> QED
  BY <1>0, <1>1, <1>2, <1>3, <1>4, <1>5, Entering

(* RefundsInv is preserved.                                                *)
LEMMA RefundsInvStep ==
    Inv /\ RefundsInv /\ RefundInv /\ [Next]_vars => RefundsInv'
<1> SUFFICES ASSUME Inv, RefundsInv, RefundInv, [Next]_vars, NEW a \in DOMAIN refunds'
             PROVE  /\ pc'[a] # "idle" /\ input'[a].op = "refund"
                    /\ refunds'[a] = ProcessingRow(a)'
                    /\ refunds'[a].tx \in DOMAIN txs'
                    /\ txs'[refunds'[a].tx].status = "refunded"
  BY DEF RefundsInv
<1>0. BasicInv /\ LocalInv /\ InputsKept /\ DOMAIN refunds \subseteq Id
  BY InputsStep DEF Inv, BasicInv, TypeOK, RepositoryTypeOK
<1>1. CASE a \in DOMAIN refunds
  <2>1. refunds'[a] = refunds[a] /\ pc'[a] # "idle" /\ input'[a] = input[a]
    BY <1>0, <1>1, RefundsStep DEF RefundsInv, InputsKept
  <2> QED
    BY <1>1, <2>1, RefundedStep DEF RefundsInv, ProcessingRow
<1>2. CASE a \in Id /\ createRefund(a) /\ refunds'[a] = ProcessingRow(a)
  <2>1. pc[a] = "insert" /\ input' = input /\ txs' = txs /\ input[a].op = "refund"
    BY <1>0, <1>2 DEF createRefund, BasicInv, StageInv
  <2>2. input[a].tx \in DOMAIN txs /\ txs[input[a].tx].status = "refunded"
    BY <1>0, <1>2, <2>1 DEF LocalInv, Locks, FindByIDAndMerchantID, RefundInv
  <2>3. ProcessingRow(a)' = ProcessingRow(a)
    BY <2>1 DEF ProcessingRow
  <2> QED
    BY <1>0, <1>2, <2>1, <2>2, <2>3 DEF InputsKept, ProcessingRow
<1> QED
  BY <1>1, <1>2, RefundsStep

(* A true answer stays true and under its key.                             *)
LEMMA AnswerStep ==
    ASSUME Inv, RefundsInv, [Next]_vars, NEW o, NEW m, NEW k, o.id # Nil, AnswerOK(o, m)
    PROVE  AnswerOK(o, m)' /\ (KeyOK(o, k) => KeyOK(o, k)')
<1>0. InputsKept /\ RowsKept /\ DOMAIN refunds \subseteq Id
  BY InputsStep, RowsStep DEF Inv, BasicInv, TypeOK, RepositoryTypeOK
<1>1. CASE o.shape = "refund"
  <2>1. /\ o.id \in DOMAIN refunds /\ o.id \in DOMAIN refunds'
        /\ refunds'[o.id] = refunds[o.id]
    BY <1>1, RefundsStep DEF AnswerOK
  <2>2. refunds[o.id].tx \in DOMAIN txs /\ input'[o.id] = input[o.id]
    BY <1>0, <2>1 DEF RefundsInv, InputsKept
  <2> QED
    BY <1>1, <2>1, <2>2, RefundedStep DEF AnswerOK, KeyOK
<1>2. CASE o.shape # "refund"
  <2>1. o.id \in DOMAIN txs /\ o.status \in Outcome /\ txs[o.id].status \in Since(o.status)
    BY <1>2 DEF AnswerOK
  <2>2. txs'[o.id].status \in Since(o.status)
    BY <2>1, SinceStep
  <2> QED
    BY <1>0, <1>2, <2>1, <2>2 DEF AnswerOK, KeyOK, RowsKept
<1> QED
  BY <1>1, <1>2

(* What is answered that names a row comes from the table of stored        *)
(* responses, from an update, or from the insert of a refund.              *)
LEMMA AnswerSource ==
    ASSUME BasicInv, [Next]_vars, NEW r \in Id, out'[r].id # Nil
    PROVE  out'[r] = out[r] \/ CacheHit(r) \/ updateTransaction(r) \/ createRefund(r)
<1>0. out \in [Id -> Output] /\ NoOutput.id = Nil
  BY DEF BasicInv, TypeOK, NoOutput
<1>1. ASSUME NEW s \in Id, Handler(s), s # r
      PROVE  out'[r] = out[r]
  BY <1>0, <1>1
     DEF Handler, cachedIdempotency, callGateway, MustParsePanics, CacheHit, CacheMiss,
         tokenizeCardToGateway, saveTransaction, aquireLock, findTransaction,
         callGatewayPanics, callGatewayOk, callGatewayErr, updateTransaction,
         updateRefunded, createRefund, releaseLock, Return
<1>2. CASE Handler(r)
  BY <1>0, <1>2
     DEF Handler, cachedIdempotency, callGateway, MustParsePanics, CacheMiss,
         tokenizeCardToGateway, saveTransaction, aquireLock, findTransaction,
         callGatewayPanics, callGatewayOk, callGatewayErr,
         updateRefunded, releaseLock, Return
<1>3. CASE UNCHANGED out
  BY <1>3
<1> QED
  BY <1>1, <1>2, <1>3
     DEF Next, vars, locals, Arrive, saveIdempotency, expireIdempotency, expireLock, crash

(* What a request newly answers that names a row.                          *)
LEMMA FreshAnswer ==
    ASSUME Inv, ClaimInv, [Next]_vars, NEW r \in Id,
           NEW o, NEW m, NEW k,
           o = out'[r], m = input[r].merchant, k = Parse[input[r].key], o.id # Nil,
           CacheHit(r) \/ updateTransaction(r) \/ createRefund(r)
    PROVE  /\ pc[r] # "idle"
           /\ o.shape = Shape(r)
           /\ AnswerOK(o, m)'
           /\ input[r].op \notin {"capture", "void"} => KeyOK(o, k)'
<1>0. /\ BasicInv /\ LocalInv /\ RowInv /\ RefundsInv /\ RefundInv /\ StoredInv
      /\ out \in [Id -> Output] /\ RepositoryTypeOK /\ NoOutput.id = Nil
  BY DEF Inv, ClaimInv, BasicInv, TypeOK, NoOutput
<1>1. CASE CacheHit(r)
  <2>1. /\ pc[r] = "idem" /\ FindByKeyAndMerchantID(k, m)
        /\ o = Unmarshal(idem[k].response, Shape(r))
        /\ UNCHANGED tables /\ input' = input
    BY <1>0, <1>1 DEF CacheHit, Return
  <2>2. idem[k].response \in Output /\ k \in DOMAIN idem /\ idem[k].merchant = m
    BY <1>0, <2>1 DEF FindByKeyAndMerchantID, RepositoryTypeOK, IdemRow
  <2>3. /\ o.shape = Shape(r) /\ idem[k].response.shape = Shape(r)
        /\ o.id = idem[k].response.id /\ o.status = idem[k].response.status
    BY <2>1 DEF Unmarshal
  <2>4. AnswerOK(idem[k].response, m) /\ KeyOK(idem[k].response, k)
    BY <1>0, <2>2, <2>3 DEF StoredInv
  <2>5. AnswerOK(o, m)' /\ KeyOK(o, k)'
    BY <2>1, <2>3, <2>4 DEF AnswerOK, KeyOK, tables
  <2> QED
    BY <2>1, <2>3, <2>5
<1>2. CASE updateTransaction(r)
  <2>1. /\ pc[r] = "update" /\ input[r].op # "refund" /\ o = UpdateOutput(r)
        /\ txs' = Updated(r) /\ input' = input /\ DOMAIN txs' = DOMAIN txs
    BY <1>0, <1>2, UpdateStep DEF updateTransaction, Return
  <2>2. Target(r) \in DOMAIN txs /\ Matches(Target(r), From(r)) /\ o.id = Target(r)
    BY <2>1 DEF UpdateOutput, ReturnedId, Matches
  <2>3. o.shape = "charge" /\ o.status = To(r) /\ Shape(r) = "charge"
    BY <2>1 DEF UpdateOutput, Shape
  <2>4. txs'[o.id].status = To(r) /\ txs'[o.id].merchant = txs[o.id].merchant
        /\ txs'[o.id].key = txs[o.id].key
    BY <1>0, <2>1, <2>2, UpdatedFacts
  <2>5. To(r) \in Outcome /\ To(r) \in Since(To(r))
    BY DEF To, Outcome, Since
  <2>6. txs[o.id].merchant = m
    BY <1>0, <2>1, <2>2 DEF LocalInv, RowInv, Target, FindByIDAndMerchantID
  <2>7. input[r].op \notin {"capture", "void"} => Parse[txs[o.id].key] = k
    BY <1>0, <2>1, <2>2 DEF RowInv, Target, Locks
  <2> QED
    BY <2>1, <2>2, <2>3, <2>4, <2>5, <2>6, <2>7 DEF AnswerOK, KeyOK
<1>3. CASE createRefund(r)
  <2>1. /\ pc[r] = "insert" /\ input[r].op = "refund" /\ txs' = txs /\ input' = input
        /\ o = [shape |-> "refund", id |-> r, status |-> "processing"]
        /\ refunds' = Insert(refunds, r, ProcessingRow(r))
    BY <1>0, <1>3 DEF createRefund, Return, BasicInv, StageInv
  <2>2. r \in DOMAIN refunds' /\ refunds'[r] = ProcessingRow(r)
    BY <2>1 DEF Insert
  <2>3. txs[input[r].tx].status = "refunded"
    BY <1>0, <2>1 DEF RefundInv
  <2> QED
    BY <2>1, <2>2, <2>3 DEF AnswerOK, KeyOK, ProcessingRow, Shape
<1> QED
  BY <1>1, <1>2, <1>3

(* AnswersInv is preserved.                                                *)
LEMMA AnswersStep ==
    Inv /\ ClaimInv /\ [Next]_vars => AnswersInv'
<1> SUFFICES ASSUME Inv, ClaimInv, [Next]_vars, NEW r \in Id, out'[r].id # Nil,
                    NEW o, NEW m, NEW k,
                    o = out'[r], m = input[r].merchant, k = Parse[input[r].key]
             PROVE  /\ pc'[r] # "idle" /\ input'[r] = input[r]
                    /\ o.shape = Shape(r)
                    /\ AnswerOK(o, m)'
                    /\ input[r].op \notin {"capture", "void"} => KeyOK(o, k)'
  BY DEF AnswersInv, AnswerOK, KeyOK, Shape
<1>0. BasicInv /\ InputsKept /\ RefundsInv /\ AnswersInv
  BY InputsStep DEF Inv, ClaimInv
<1>1. CASE out'[r] = out[r]
  <2>1. /\ pc[r] # "idle" /\ o.shape = Shape(r) /\ AnswerOK(o, m)
        /\ input[r].op \notin {"capture", "void"} => KeyOK(o, k)
    BY <1>0, <1>1 DEF AnswersInv
  <2> QED
    BY <1>0, <2>1, AnswerStep DEF InputsKept
<1>2. CASE CacheHit(r) \/ updateTransaction(r) \/ createRefund(r)
  BY <1>0, <1>2, FreshAnswer DEF InputsKept
<1> QED
  BY <1>0, <1>1, <1>2, AnswerSource

(* What is stored under a key was there before, or is the answer of a      *)
(* request with that key.                                                  *)
LEMMA StoredSource ==
    ASSUME BasicInv, [Next]_vars, NEW k \in DOMAIN idem'
    PROVE  \/ /\ k \in DOMAIN idem /\ idem'[k].response = idem[k].response
              /\ idem'[k].merchant = idem[k].merchant
           \/ \E r \in bg : /\ k = Parse[input[r].key] /\ idem'[k].response = out[r]
                           /\ idem'[k].merchant = input[r].merchant
<1>0. RepositoryTypeOK
  BY DEF BasicInv, TypeOK
<1>1. ASSUME NEW r \in Id, saveIdempotency(r)
      PROVE  \/ k \in DOMAIN idem /\ idem'[k] = idem[k]
             \/ /\ r \in bg /\ k = Parse[input[r].key] /\ idem'[k].response = out[r]
                /\ idem'[k].merchant = input[r].merchant
  BY <1>1 DEF saveIdempotency, Insert
<1>2. ASSUME NEW j \in Uuid, expireIdempotency(j)
      PROVE  /\ k \in DOMAIN idem /\ idem'[k].response = idem[k].response
             /\ idem'[k].merchant = idem[k].merchant
  BY <1>0, <1>2 DEF expireIdempotency, RepositoryTypeOK, IdemRow
<1>3. \/ UNCHANGED idem
      \/ \E r \in Id : saveIdempotency(r)
      \/ \E j \in Uuid : expireIdempotency(j)
  BY DEF Next, Handler, cachedIdempotency, callGateway, vars, tables, Arrive, MustParsePanics,
         CacheHit, CacheMiss, tokenizeCardToGateway, saveTransaction, aquireLock,
         findTransaction, callGatewayPanics, callGatewayOk, callGatewayErr,
         updateTransaction, updateRefunded, createRefund, releaseLock, expireLock, crash
<1> QED
  BY <1>1, <1>2, <1>3

(* StoredInv is preserved: what is stored is the answer of its request.    *)
LEMMA StoredStep ==
    Inv /\ ClaimInv /\ [Next]_vars => StoredInv'
<1> SUFFICES ASSUME Inv, ClaimInv, [Next]_vars, NEW k \in DOMAIN idem', NEW o, NEW m,
                    o = idem'[k].response, m = idem'[k].merchant, o.id # Nil
             PROVE  AnswerOK(o, m)' /\ KeyOK(o, k)'
  BY DEF StoredInv, AnswerOK, KeyOK
<1>0. BasicInv /\ RefundsInv /\ AnswersInv /\ StoredInv
  BY DEF Inv, ClaimInv
<1>1. CASE k \in DOMAIN idem /\ o = idem[k].response /\ m = idem[k].merchant
  <2>1. AnswerOK(o, m) /\ KeyOK(o, k)
    BY <1>0, <1>1 DEF StoredInv
  <2> QED
    BY <1>0, <2>1, AnswerStep
<1>2. ASSUME NEW r \in bg, k = Parse[input[r].key], o = out[r], m = input[r].merchant
      PROVE  AnswerOK(o, m)' /\ KeyOK(o, k)'
  <2>1. r \in Id /\ input[r].op \notin {"capture", "void"}
    BY <1>0 DEF BasicInv, SaveInv, TypeOK
  <2>2. AnswerOK(o, m) /\ KeyOK(o, k)
    BY <1>0, <1>2, <2>1 DEF AnswersInv
  <2> QED
    BY <1>0, <2>2, AnswerStep
<1> QED
  BY <1>0, <1>1, <1>2, StoredSource

(* Inv and ClaimInv hold in every state the service reaches.               *)
LEMMA ClaimInvariance == Spec => [](Inv /\ ClaimInv)
<1>1. Init => ClaimInv
  <2> SUFFICES ASSUME Init
               PROVE  ClaimInv
    OBVIOUS
  <2>1. DOMAIN refunds = {} /\ DOMAIN idem = {}
    BY DEF Init, RepositoryInit
  <2>2. NoOutput.id = Nil
    BY DEF NoOutput
  <2>3. \A r \in Id : out[r].id = Nil /\ pc[r] = "idle"
    BY <2>2 DEF Init
  <2> QED
    BY <2>1, <2>3 DEF ClaimInv, RefundsInv, RefundInv, AnswersInv, StoredInv
<1>2. Inv /\ ClaimInv /\ [Next]_vars => ClaimInv'
  BY RefundsInvStep, RefundStep, AnswersStep, StoredStep DEF ClaimInv
<1> QED
  BY <1>1, <1>2, Invariance, PTL DEF Spec

(* ResponsesHold, under every fault: a success response, fresh or replayed *)
(* from idempotency_keys, names a row of the caller, and what it reports   *)
(* of it is never taken back.                                              *)
THEOREM ResponsesTrue == Spec => []ResponsesHold
<1>1. Inv /\ ClaimInv => ResponsesHold
  BY DEF ClaimInv, AnswersInv, AnswerOK, ResponsesHold
<1> QED
  BY <1>1, ClaimInvariance, PTL

-----------------------------------------------------------------------------
(* What the lock adds: nobody else moves a transaction between the read of *)
(* a request and its update.                                               *)
MatchInv ==
    \A r \in Id : pc[r] \in {"gateway", "update"} => Matches(Target(r), From(r))

(* A refund that is about to insert its row is the first to do so.         *)
NoRowInv ==
    \A r \in Id : pc[r] = "insert" => \A a \in DOMAIN refunds : refunds[a].tx # input[r].tx

SerialInv == HoldsLock /\ MatchInv /\ NoRowInv /\ OneRefundRow

(* What the update of a request starts from.                               *)
LEMMA FromFacts ==
    ASSUME NEW r \in Id, input[r].op \in Op
    PROVE  /\ ~Locks(r) => From(r) = "pending"
           /\ Locks(r) => From(r) \in {"authorized", "captured"}
           /\ input[r].op \in {"capture", "void"} => From(r) = "authorized"
           /\ input[r].op = "refund" => From(r) = "captured"
BY DEF From, Locks, Op

(* A request waiting for the gateway or for its update finds the           *)
(* transaction as it was: the only other updates are of requests that hold *)
(* the same lock, or start from another status.                            *)
LEMMA StayMatched ==
    ASSUME Inv, HoldsLock, MatchInv, [Next]_vars, NEW r \in Id,
           pc[r] \in {"gateway", "update"}, pc'[r] = pc[r]
    PROVE  Matches(Target(r), From(r))'
<1> DEFINE t == Target(r)
<1>0. BasicInv /\ input'[r] = input[r] /\ pc[r] # "idle" /\ input[r].op \in Op
  BY InputsStep, InputFacts DEF Inv, InputsKept, BasicInv, StageInv
<1>1. t \in DOMAIN txs /\ txs[t].status = From(r)
  BY DEF MatchInv, Matches
<1>2. ASSUME NEW s \in Id, updateTransaction(s) \/ updateRefunded(s), Target(s) = t,
             txs[t].status = From(s)
      PROVE  FALSE
  <2>1. pc[s] = "update" /\ pc'[s] # "update" /\ input[s].op \in Op
    BY <1>0, <1>2, UpdateStep, InputFacts DEF BasicInv, StageInv
  <2>2. s # r
    BY <2>1
  <2>3. Locks(s) <=> Locks(r)
    BY <1>0, <1>1, <1>2, <2>1, FromFacts
  <2>4. CASE Locks(r)
    BY <1>2, <2>1, <2>2, <2>3, <2>4 DEF HoldsLock, InCritical, Target
  <2>5. CASE ~Locks(r)
    BY <1>2, <2>2, <2>3, <2>5 DEF Target
  <2> QED
    BY <2>4, <2>5
<1>3. t \in DOMAIN txs' /\ txs'[t].status = txs[t].status
  BY <1>1, <1>2, StatusStep
<1>4. Target(r)' = Target(r) /\ From(r)' = From(r)
  BY <1>0 DEF Target, From, Locks
<1> QED
  BY <1>1, <1>3, <1>4 DEF Matches

(* MatchInv is preserved.                                                  *)
LEMMA MatchStep ==
    Inv /\ HoldsLock /\ MatchInv /\ [Next]_vars => MatchInv'
<1> SUFFICES ASSUME Inv, HoldsLock, MatchInv, [Next]_vars, NEW r \in Id,
                    pc'[r] \in {"gateway", "update"}
             PROVE  Matches(Target(r), From(r))'
  BY DEF MatchInv
<1>0. BasicInv /\ RowInv /\ InputsKept /\ pc \in [Id -> Stage]
  BY InputsStep DEF Inv, BasicInv, TypeOK
<1>1. CASE pc'[r] = pc[r]
  BY <1>1, StayMatched
<1>2. CASE saveTransaction(r) /\ pc'[r] = "gateway"
  <2>1. input' = input /\ ~Locks(r) /\ input[r].op \in Op
    BY <1>0, <1>2, InputFacts DEF saveTransaction, BasicInv, StageInv
  <2>2. r \in DOMAIN txs' /\ txs'[r] = PendingRow(r)
    BY <1>0, <1>2, SaveFacts
  <2>3. Target(r)' = r /\ From(r)' = "pending"
    BY <2>1, FromFacts DEF Target, From, Locks
  <2> QED
    BY <2>2, <2>3 DEF Matches, PendingRow
<1>3. CASE findTransaction(r) /\ pc'[r] = "gateway"
  <2>1. input' = input /\ txs' = txs /\ Locks(r) /\ input[r].op \in Op
    BY <1>0, <1>3, InputFacts DEF findTransaction, tables, BasicInv, StageInv
  <2>2. /\ input[r].tx \in DOMAIN txs
        /\ RowErr(r, txs[input[r].tx]) = "nil"
    BY <1>0, <1>3 DEF findTransaction, Return, Goto, FindByIDAndMerchantID
  <2>3. /\ input[r].op # "refund" => txs[input[r].tx].status = "authorized"
        /\ input[r].op = "refund" => txs[input[r].tx].status = "captured"
    BY <2>1, <2>2 DEF RowErr, TxAuthorizedErr, VoidErr, RefundErr, Locks
  <2>4. txs[input[r].tx].status = From(r) /\ Target(r) = input[r].tx
    BY <2>1, <2>3, FromFacts DEF Locks, Target
  <2>5. Target(r)' = Target(r) /\ From(r)' = From(r)
    BY <2>1 DEF Target, From, Locks
  <2> QED
    BY <2>1, <2>2, <2>4, <2>5 DEF Matches
<1>4. CASE (callGatewayOk(r) \/ callGatewayErr(r)) /\ pc'[r] = "update"
  <2>1. input' = input /\ txs' = txs /\ pc[r] = "gateway"
    BY <1>4 DEF callGatewayOk, callGatewayErr, tables
  <2>2. Target(r)' = Target(r) /\ From(r)' = From(r)
    BY <2>1 DEF Target, From, Locks
  <2> QED
    BY <2>1, <2>2 DEF MatchInv, Matches
<1> QED
  BY <1>0, <1>1, <1>2, <1>3, <1>4, Entering

(* NoRowInv and OneRefundRow are preserved.                                *)
LEMMA OneRowStep ==
    Inv /\ RefundsInv /\ SerialInv /\ [Next]_vars => NoRowInv' /\ OneRefundRow'
<1> SUFFICES ASSUME Inv, RefundsInv, SerialInv, [Next]_vars
             PROVE  NoRowInv' /\ OneRefundRow'
  OBVIOUS
<1>0. /\ BasicInv /\ HoldsLock /\ MatchInv /\ NoRowInv /\ OneRefundRow /\ InputsKept
      /\ pc \in [Id -> Stage]
  BY InputsStep DEF Inv, SerialInv, BasicInv, TypeOK
<1>1. ASSUME NEW r \in Id, createRefund(r)
      PROVE  /\ pc[r] = "insert" /\ pc'[r] # "insert" /\ input' = input
             /\ input[r].op = "refund" /\ lock[input[r].tx] = r
  BY <1>0, <1>1 DEF createRefund, Return, Goto, BasicInv, StageInv, HoldsLock, InCritical, Locks
<1>2. ASSUME NEW r \in Id, pc'[r] = "insert", NEW a \in DOMAIN refunds'
      PROVE  refunds'[a].tx # input'[r].tx
  <2>1. CASE pc[r] = "insert"
    <3>1. input'[r] = input[r] /\ lock[input[r].tx] = r
      BY <1>0, <2>1 DEF InputsKept, HoldsLock, InCritical, BasicInv, StageInv, Locks
    <3>2. CASE a \in DOMAIN refunds
      BY <1>0, <2>1, <3>1, <3>2, RefundsStep DEF NoRowInv
    <3>3. CASE a \in Id /\ createRefund(a) /\ refunds'[a] = ProcessingRow(a)
      BY <1>1, <1>2, <3>1, <3>3 DEF ProcessingRow
    <3> QED
      BY <3>2, <3>3, RefundsStep
  <2>2. CASE updateRefunded(r)
    <3>1. /\ pc[r] = "update" /\ input' = input /\ refunds' = refunds
          /\ input[r].op = "refund"
      BY <2>2 DEF updateRefunded
    <3>2. txs[input[r].tx].status = "captured"
      BY <1>0, <3>1 DEF MatchInv, Matches, Target, From, Locks
    <3> QED
      BY <3>1, <3>2 DEF RefundsInv
  <2> QED
    BY <1>0, <1>2, <2>1, <2>2, Entering
<1>3. ASSUME NEW a \in DOMAIN refunds', NEW b \in DOMAIN refunds', refunds'[a].tx = refunds'[b].tx
      PROVE  a = b
  <2>1. CASE a \in DOMAIN refunds /\ b \in DOMAIN refunds
    BY <1>0, <1>3, <2>1, RefundsStep DEF OneRefundRow
  <2>2. ASSUME NEW c \in Id, createRefund(c), refunds'[c] = ProcessingRow(c),
               NEW d \in DOMAIN refunds, refunds[d].tx = refunds'[c].tx
        PROVE  FALSE
    BY <1>0, <1>1, <2>2 DEF NoRowInv, ProcessingRow
  <2>3. CASE createRefund(a) /\ createRefund(b) /\ a \in Id /\ b \in Id
             /\ refunds'[a] = ProcessingRow(a) /\ refunds'[b] = ProcessingRow(b)
    BY <1>1, <1>3, <2>3 DEF ProcessingRow
  <2> QED
    BY <1>3, <2>1, <2>2, <2>3, RefundsStep
<1> QED
  BY <1>2, <1>3 DEF NoRowInv, OneRefundRow

(* While no handler outlives its lock, all of it holds in every state.     *)
LEMMA SerialInvariance ==
    ASSUME "slow" \notin Faults
    PROVE  Spec => [](Inv /\ ClaimInv /\ SerialInv)
<1>1. Init => SerialInv
  BY DEF Init, RepositoryInit, SerialInv, HoldsLock, InCritical, MatchInv, NoRowInv,
         OneRefundRow
<1>2. Inv /\ ClaimInv /\ SerialInv /\ [Next]_vars => SerialInv'
  BY HoldsLockStep, MatchStep, OneRowStep DEF SerialInv, Inv, ClaimInv
<1> QED
  BY <1>1, <1>2, ClaimInvariance, PTL DEF Spec

(* OneRefundRow, while no handler outlives its lock: whatever crashes or   *)
(* fails, a transaction has at most one row in refunds.                    *)
THEOREM OneRefund ==
    ASSUME "slow" \notin Faults
    PROVE  Spec => []OneRefundRow
<1>1. SerialInv => OneRefundRow
  BY DEF SerialInv
<1> QED
  BY <1>1, SerialInvariance, PTL

-----------------------------------------------------------------------------
(* The stages behind the gateway call.                                     *)
AfterCall == {"update", "insert", "release", "done", "crashed"}

(* A statement fails on a request only as it returns, and the gateway has  *)
(* answered only requests that are past their call.                        *)
FailInv ==
    \A r \in Id :
        /\ err[r] = "dbError" => pc[r] \in {"release", "done", "crashed"}
        /\ reply[r] # "none" => pc[r] \in AfterCall

(* What the gateway did for a request that went through is on record, or   *)
(* about to be recorded by the update of that request.                     *)
RecordInv ==
    \A e \in gw :
        /\ e.order = Target(e.by)
        /\ Whole(e.by) =>
              /\ pc[e.by] \in {"update", "insert", "release", "done"}
              /\ pc[e.by] = "update" => reply[e.by] = "ok"
              /\ pc[e.by] # "update" => txs[e.order].status \in Since(Recorded[e.op])

MoneyInv == FailInv /\ RecordInv /\ SettledOnce

(* How a request can move on from stages with nothing left to fail, and    *)
(* from its update.                                                        *)
LEMMA Closing ==
    ASSUME BasicInv, [Next]_vars, NEW r \in Id
    PROVE  /\ pc[r] \in {"release", "done", "crashed"} =>
                 /\ err'[r] = err[r] /\ out'[r] = out[r]
                 /\ pc'[r] \in {"release", "done", "crashed"}
           /\ pc[r] = "crashed" => pc'[r] = "crashed"
           /\ err'[r] # err[r] => pc'[r] \in {"release", "done"}
           /\ pc[r] \in {"insert", "release", "done"} /\ pc'[r] # "crashed" =>
                 pc'[r] \in {"insert", "release", "done"}
           /\ pc[r] = "update" =>
                 \/ pc'[r] \in {"update", "crashed"}
                 \/ updateTransaction(r) \/ updateRefunded(r)
           /\ pc[r] \in AfterCall => pc'[r] \in AfterCall
           /\ reply'[r] # reply[r] => pc[r] = "gateway" /\ pc'[r] \in AfterCall
<1>0. /\ pc \in [Id -> Stage] /\ err \in [Id -> Errors]
      /\ reply \in [Id -> {"none", "ok", "err"}] /\ out \in [Id -> Output]
  BY DEF BasicInv, TypeOK
<1> USE DEF AfterCall
<1>1. ASSUME NEW s \in Id, Arrive(s)
      PROVE  err'[r] = err[r] /\ out'[r] = out[r] /\ reply'[r] = reply[r] /\ (pc[r] # "idle" => pc'[r] = pc[r])
  BY <1>0, <1>1 DEF Arrive, Goto
<1>2. ASSUME NEW s \in Id, Handler(s), s # r
      PROVE  err'[r] = err[r] /\ out'[r] = out[r] /\ pc'[r] = pc[r] /\ reply'[r] = reply[r]
  BY <1>0, <1>2
     DEF Handler, cachedIdempotency, callGateway, MustParsePanics, CacheHit, CacheMiss,
         tokenizeCardToGateway, saveTransaction, aquireLock, findTransaction,
         callGatewayPanics, callGatewayOk, callGatewayErr, updateTransaction,
         updateRefunded, createRefund, releaseLock, Goto, Return
<1>3. ASSUME Handler(r)
      PROVE  /\ err'[r] # err[r] => pc'[r] \in {"release", "done"}
             /\ pc[r] \notin {"done", "crashed"}
             /\ pc[r] = "release" => err'[r] = err[r] /\ out'[r] = out[r] /\ pc'[r] = "done"
             /\ pc[r] = "insert" => pc'[r] \in {"release", "done"}
             /\ pc[r] = "update" => updateTransaction(r) \/ updateRefunded(r)
             /\ pc[r] \in AfterCall => pc'[r] \in AfterCall
             /\ reply'[r] # reply[r] => pc[r] = "gateway" /\ pc'[r] \in AfterCall
  BY <1>0, <1>3
     DEF Handler, cachedIdempotency, callGateway, MustParsePanics, CacheHit, CacheMiss,
         tokenizeCardToGateway, saveTransaction, aquireLock, findTransaction,
         callGatewayPanics, callGatewayOk, callGatewayErr, updateTransaction,
         updateRefunded, createRefund, releaseLock, Goto, Return, InCritical
<1>4. CASE crash
  BY <1>0, <1>4 DEF crash, InFlight
<1>5. CASE UNCHANGED <<pc, err, out, reply>>
  BY <1>5
<1> QED
  BY <1>1, <1>2, <1>3, <1>4, <1>5
     DEF Next, vars, locals, saveIdempotency, expireIdempotency, expireLock

(* FailInv is preserved, and a request that is cut short stays so.         *)
LEMMA FailStep ==
    BasicInv /\ FailInv /\ [Next]_vars =>
        FailInv' /\ \A r \in Id : Whole(r)' => Whole(r)
<1> SUFFICES ASSUME BasicInv, FailInv, [Next]_vars, NEW r \in Id
             PROVE  /\ err'[r] = "dbError" => pc'[r] \in {"release", "done", "crashed"}
                    /\ reply'[r] # "none" => pc'[r] \in AfterCall
                    /\ Whole(r)' => Whole(r)
  BY DEF FailInv
<1>1. /\ err[r] = "dbError" => pc[r] \in {"release", "done", "crashed"}
      /\ reply[r] # "none" => pc[r] \in AfterCall
  BY DEF FailInv
<1>2. err'[r] = "dbError" => pc'[r] \in {"release", "done", "crashed"}
  BY <1>1, Closing
<1>3. reply'[r] # "none" => pc'[r] \in AfterCall
  BY <1>1, Closing
<1>4. reply[r] = "err" => reply'[r] = "err"
  BY <1>1, Closing DEF AfterCall
<1>5. pc[r] = "crashed" => pc'[r] = "crashed"
  BY Closing
<1>6. err[r] = "dbError" => err'[r] = "dbError"
  BY <1>1, Closing
<1> QED
  BY <1>2, <1>3, <1>4, <1>5, <1>6 DEF Whole

(* An update that did not fail has recorded what the gateway did.          *)
LEMMA UpdateRecords ==
    ASSUME Inv, MatchInv, NEW r \in Id, updateTransaction(r) \/ updateRefunded(r),
           reply[r] = "ok", Whole(r)'
    PROVE  /\ pc'[r] \in {"insert", "release", "done"}
           /\ txs'[Target(r)].status \in Since(Recorded[input[r].op])
<1>0. /\ BasicInv /\ LocalInv /\ RepositoryTypeOK /\ pc \in [Id -> Stage]
      /\ err \in [Id -> Errors]
  BY DEF Inv, BasicInv, TypeOK
<1>1. pc[r] = "update" /\ input[r].op \in Op \ {"charge"}
  BY <1>0, UpdateStep, InputFacts DEF BasicInv, StageInv, LocalInv
<1>2. txs' = Updated(r) /\ pc'[r] \in {"insert", "release", "done"}
  BY <1>0 DEF updateTransaction, updateRefunded, Return, Goto, Whole
<1>3. txs'[Target(r)].status = To(r)
  BY <1>0, <1>1, <1>2, UpdatedFacts DEF MatchInv
<1>4. To(r) \in Since(Recorded[input[r].op])
  BY <1>1 DEF To, Since, Recorded, Op
<1> QED
  BY <1>2, <1>3, <1>4

(* An effect that is new to the gateway's books: unless its answer is      *)
(* lost, the request goes on to record it.                                 *)
LEMMA NewEffect ==
    ASSUME Inv, [Next]_vars, NEW e \in gw', e \notin gw
    PROVE  \E r \in Id :
              /\ callGatewayOk(r) \/ callGatewayErr(r)
              /\ e = EffectOf(r) /\ e.by = r
              /\ e.op = input[r].op /\ e.order = Target(r)
              /\ input' = input /\ txs' = txs
              /\ pc[r] = "gateway" /\ pc'[r] # "gateway"
              /\ \A s \in Id \ {r} : pc'[s] = pc[s]
              /\ reply'[r] # "err" => pc'[r] = "update" /\ reply'[r] = "ok"
<1>0. /\ BasicInv /\ LocalInv /\ pc \in [Id -> Stage]
      /\ reply \in [Id -> {"none", "ok", "err"}]
  BY DEF Inv, BasicInv, TypeOK
<1>1. ASSUME NEW r \in Id, saveTransaction(r) \/ updateTransaction(r) \/ updateRefunded(r)
      PROVE  gw' = gw
  BY <1>1 DEF saveTransaction, updateTransaction, updateRefunded
<1>2. PICK r \in Id : callGatewayOk(r) \/ callGatewayErr(r)
  BY <1>1, QuietOrNot DEF Quiet
<1>3. /\ e = EffectOf(r) /\ pc[r] = "gateway" /\ ~DereferencesNil(r)
      /\ input' = input /\ txs' = txs
  BY <1>0, <1>2 DEF callGatewayOk, callGatewayErr, tables
<1>4. /\ pc'[r] # "gateway" /\ \A s \in Id \ {r} : pc'[s] = pc[s]
      /\ reply'[r] # "err" => pc'[r] = "update" /\ reply'[r] = "ok"
  BY <1>0, <1>2 DEF callGatewayOk, callGatewayErr, Goto, Return
<1>5. input[r].op # "charge"
  BY <1>0, <1>3 DEF LocalInv, DereferencesNil, Locks
<1>6. e.by = r /\ e.op = input[r].op /\ e.order = Target(r)
  BY <1>0, <1>3, <1>5 DEF EffectOf, Target, LocalInv, Locks
<1> QED
  BY <1>2, <1>3, <1>4, <1>6

(* RecordInv is preserved.                                                 *)
LEMMA RecordStep ==
    Inv /\ MatchInv /\ FailInv /\ RecordInv /\ [Next]_vars => RecordInv'
<1> SUFFICES ASSUME Inv, MatchInv, FailInv, RecordInv, [Next]_vars, NEW e \in gw'
             PROVE  /\ e.order = Target(e.by)'
                    /\ Whole(e.by)' =>
                          /\ pc'[e.by] \in {"update", "insert", "release", "done"}
                          /\ pc'[e.by] = "update" => reply'[e.by] = "ok"
                          /\ pc'[e.by] # "update" =>
                                txs'[e.order].status \in Since(Recorded[e.op])
  BY DEF RecordInv, Whole
<1>0. BasicInv /\ EffectInv /\ InputsKept /\ gw \subseteq Effect
  BY InputsStep DEF Inv, BasicInv, TypeOK
<1>1. CASE e \notin gw
  <2>1. PICK r \in Id : /\ e.by = r /\ e.order = Target(r) /\ input' = input
                        /\ reply'[r] # "err" => pc'[r] = "update" /\ reply'[r] = "ok"
    BY <1>1, NewEffect
  <2> QED
    BY <2>1 DEF Target, Locks, Whole
<1>2. CASE e \in gw
  <2> DEFINE r == e.by
  <2>1. /\ r \in Id /\ pc[r] # "idle" /\ e.order \in DOMAIN txs /\ e.op = input[r].op
        /\ e.op \in GatewayOp
    BY <1>0, <1>2 DEF EffectInv, Effect, FindByIDAndMerchantID
  <2>2. input'[r] = input[r] /\ e.order = Target(r)
    BY <1>0, <1>2, <2>1 DEF InputsKept, RecordInv
  <2>3. e.order = Target(r)'
    BY <2>2 DEF Target, Locks
  <2>4. ASSUME Whole(r)'
        PROVE  /\ pc'[r] \in {"update", "insert", "release", "done"}
               /\ pc'[r] = "update" => reply'[r] = "ok"
               /\ pc'[r] # "update" => txs'[e.order].status \in Since(Recorded[e.op])
    <3>1. Whole(r) /\ pc'[r] # "crashed"
      BY <1>0, <2>1, <2>4, FailStep DEF Whole
    <3>2. /\ pc[r] \in {"update", "insert", "release", "done"}
          /\ pc[r] = "update" => reply[r] = "ok"
          /\ pc[r] # "update" => txs[e.order].status \in Since(Recorded[e.op])
      BY <1>2, <3>1 DEF RecordInv
    <3>3. CASE pc[r] # "update"
      <4>1. pc'[r] \in {"insert", "release", "done"}
        BY <1>0, <2>1, <3>1, <3>2, <3>3, Closing
      <4>2. Recorded[e.op] \in Outcome
        BY <2>1 DEF Recorded, Outcome, GatewayOp
      <4>3. txs'[e.order].status \in Since(Recorded[e.op])
        BY <2>1, <3>2, <3>3, <4>2, SinceStep
      <4> QED
        BY <4>1, <4>3
    <3>4. CASE pc[r] = "update" /\ pc'[r] = "update"
      BY <1>0, <2>1, <3>2, <3>4 DEF InputsKept
    <3>5. CASE updateTransaction(r) \/ updateRefunded(r)
      <4>1. pc[r] = "update"
        BY <3>5 DEF updateTransaction, updateRefunded
      <4> QED
        BY <2>1, <2>2, <2>4, <3>2, <3>5, <4>1, UpdateRecords
    <3> QED
      BY <1>0, <2>1, <3>1, <3>3, <3>4, <3>5, Closing
  <2> QED
    BY <2>3, <2>4
<1> QED
  BY <1>1, <1>2

(* Effects that settle the same thing.                                     *)
Rivals(p, q) ==
    \/ p \in {"capture", "void"} /\ q \in {"capture", "void"}
    \/ p = "refund" /\ q = "refund"

(* The gateway is not called where it has already acted for a request that *)
(* went through: either that request still holds the lock, or the status   *)
(* read under the lock shows what it did.                                  *)
LEMMA NoRival ==
    ASSUME Inv, HoldsLock, MatchInv, RecordInv, NEW r \in Id, pc[r] = "gateway",
           NEW f \in gw, f.order = Target(r), Rivals(input[r].op, f.op), Whole(f.by)
    PROVE  FALSE
<1> DEFINE s == f.by
<1>0. /\ BasicInv /\ EffectInv /\ f \in Effect /\ s \in Id /\ f.op = input[s].op
      /\ input[r].op \in Op
  BY InputFacts DEF Inv, BasicInv, TypeOK, EffectInv, Effect, StageInv
<1>1. /\ Locks(r) /\ Locks(s) /\ f.order = input[r].tx /\ f.order = input[s].tx
  BY <1>0 DEF Rivals, Locks, RecordInv, Target
<1>2. lock[input[r].tx] = r
  BY <1>1 DEF HoldsLock, InCritical
<1>3. /\ pc[s] \in {"update", "insert", "release", "done"}
      /\ pc[s] # "update" => txs[f.order].status \in Since(Recorded[f.op])
  BY DEF RecordInv
<1>4. pc[s] = "done"
  BY <1>0, <1>1, <1>2, <1>3 DEF HoldsLock, InCritical
<1>5. txs[f.order].status = From(r)
  BY DEF MatchInv, Matches
<1>6. CASE input[r].op = "refund"
  BY <1>0, <1>3, <1>4, <1>5, <1>6, FromFacts DEF Rivals, Since, Recorded
<1>7. CASE input[r].op # "refund"
  BY <1>0, <1>3, <1>4, <1>5, <1>7, FromFacts DEF Rivals, Since, Recorded
<1> QED
  BY <1>6, <1>7

(* SettledOnce is preserved.                                               *)
LEMMA SettledStep ==
    Inv /\ HoldsLock /\ MatchInv /\ MoneyInv /\ [Next]_vars => SettledOnce'
<1> SUFFICES ASSUME Inv, HoldsLock, MatchInv, MoneyInv, [Next]_vars,
                    NEW e \in gw', NEW f \in gw', e.order = f.order, Rivals(e.op, f.op),
                    Whole(e.by)', Whole(f.by)'
             PROVE  e = f
  BY DEF SettledOnce, Rivals, Whole
<1>0. BasicInv /\ FailInv /\ RecordInv /\ SettledOnce /\ gw \subseteq Effect
      /\ pc \in [Id -> Stage]
  BY DEF Inv, MoneyInv, BasicInv, TypeOK
<1>1. ASSUME NEW g \in gw, Whole(g.by)'
      PROVE  Whole(g.by)
  BY <1>0, <1>1, FailStep DEF Effect
<1>2. ASSUME NEW g \in gw', g \notin gw, NEW h \in gw, h.order = g.order,
             Rivals(g.op, h.op), Whole(h.by)'
      PROVE  FALSE
  BY <1>0, <1>1, <1>2, NewEffect, NoRival
<1>3. CASE e \in gw /\ f \in gw
  BY <1>0, <1>1, <1>3 DEF SettledOnce, Rivals
<1>4. CASE e \notin gw /\ f \notin gw
  <2>1. PICK r \in Id : e = EffectOf(r) /\ \A s \in Id \ {r} : pc'[s] = pc[s]
    BY <1>4, NewEffect
  <2>2. PICK s \in Id : /\ f = EffectOf(s)
                        /\ pc[s] = "gateway" /\ pc'[s] # "gateway"
    BY <1>4, NewEffect
  <2>3. s = r
    BY <2>1, <2>2
  <2> QED
    BY <2>1, <2>2, <2>3
<1>5. Rivals(f.op, e.op)
  BY DEF Rivals
<1> QED
  BY <1>2, <1>3, <1>4, <1>5

(* While no handler outlives its lock, all of it holds in every state.     *)
LEMMA MoneyInvariance ==
    ASSUME "slow" \notin Faults
    PROVE  Spec => []MoneyInv
<1>1. Init => MoneyInv
  BY DEF Init, MoneyInv, FailInv, RecordInv, SettledOnce
<1>2. Inv /\ SerialInv /\ MoneyInv /\ [Next]_vars => MoneyInv'
  <2> SUFFICES ASSUME Inv, SerialInv, MoneyInv, [Next]_vars
               PROVE  MoneyInv'
    OBVIOUS
  <2>1. BasicInv /\ HoldsLock /\ MatchInv /\ FailInv /\ RecordInv
    BY DEF Inv, SerialInv, MoneyInv
  <2>2. FailInv'
    BY <2>1, FailStep
  <2>3. RecordInv'
    BY <2>1, RecordStep
  <2>4. SettledOnce'
    BY <2>1, SettledStep
  <2> QED
    BY <2>2, <2>3, <2>4 DEF MoneyInv
<1> QED
  BY <1>1, <1>2, SerialInvariance, PTL DEF Spec

(* SettledOnce: among requests that are neither cut short nor left without *)
(* an answer, the gateway captures or voids a transaction once and refunds *)
(* it once, whatever becomes of locks in Redis, of statements, of answers  *)
(* and of other requests.                                                  *)
THEOREM SettledOnlyOnce ==
    ASSUME "slow" \notin Faults
    PROVE  Spec => []SettledOnce
<1>1. MoneyInv => SettledOnce
  BY DEF MoneyInv
<1> QED
  BY <1>1, MoneyInvariance, PTL

(* EffectsRecorded: what the gateway did, and said it did, for a request   *)
(* that was answered is the stored status of the transaction, or was until *)
(* it moved on.                                                            *)
THEOREM BooksAgree ==
    ASSUME "slow" \notin Faults
    PROVE  Spec => []EffectsRecorded
<1>1. MoneyInv => EffectsRecorded
  BY DEF MoneyInv, RecordInv, EffectsRecorded, Answered
<1> QED
  BY <1>1, MoneyInvariance, PTL

=============================================================================
