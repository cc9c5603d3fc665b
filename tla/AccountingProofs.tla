-------------------------- MODULE AccountingProofs --------------------------
(***************************************************************************)
(* Proofs about PaymentService: whatever is left behind by a request, a    *)
(* pending row, a refund without its row, a lock, has a reason; what has   *)
(* been refused stays refused; and retries get one answer.  All but the    *)
(* last holds under every fault, handlers that outlive their locks         *)
(* included.                                                               *)
(***************************************************************************)
EXTENDS SettlementProofs

(* The stages of a request that has returned.                              *)
Returned == {"release", "done", "crashed"}

(* Only a request that has returned has an error.                          *)
EndInv == \A r \in Id : err[r] # "nil" => pc[r] \in Returned

(* Errors come with the return, and stay.                                  *)
LEMMA EndStep ==
    ASSUME BasicInv, EndInv, [Next]_vars
    PROVE  /\ EndInv'
           /\ \A r \in Id : err[r] # "nil" => err'[r] = err[r] /\ out'[r] = out[r]
BY Closing DEF EndInv, Returned

-----------------------------------------------------------------------------
(* Refused requests leave nothing.                                         *)

(* The stages before anything has been done.                               *)
Early == {"idle", "idem", "save", "lock", "read"}

Untouched(r) ==
    /\ \A e \in gw : e.by # r
    /\ r \notin DOMAIN txs /\ r \notin DOMAIN refunds /\ r \notin bg

TraceInv == \A r \in Id : pc[r] \in Early \/ TurnedAway(r) => Untouched(r)

(* Whatever leaves a trace of a request is a step of that request past the *)
(* early stages, and does not turn it away.                                *)
LEMMA TraceStep ==
    ASSUME BasicInv, EndInv, [Next]_vars, NEW r \in Id, Untouched(r), ~Untouched(r)'
    PROVE  pc'[r] \notin Early /\ ~TurnedAway(r)'
<1>0. /\ pc \in [Id -> Stage] /\ err \in [Id -> Errors]
      /\ err[r] # "nil" => pc[r] \in Returned
  BY DEF BasicInv, TypeOK, EndInv
<1>1. ASSUME NEW s \in Id, saveTransaction(s)
      PROVE  s = r /\ pc'[r] \notin Early /\ ~TurnedAway(r)'
  <2>1. UNCHANGED <<gw, refunds, bg>>
    BY <1>1 DEF saveTransaction
  <2>2. r \in DOMAIN txs' /\ r \notin DOMAIN txs
    BY <2>1 DEF Untouched
  <2>3. txs' = Insert(txs, s, PendingRow(s))
    BY <1>1, <2>2 DEF saveTransaction
  <2>4. s = r
    BY <2>2, <2>3 DEF Insert
  <2>5. pc[r] = "save" /\ err[r] = "nil" /\ ~InCritical(r)
    BY <1>0, <1>1, <2>4 DEF saveTransaction, Returned, InCritical
  <2>6. \/ Goto(r, "gateway") /\ err' = err
        \/ Return(r, "dbError", NoOutput)
    BY <1>1, <2>2, <2>4 DEF saveTransaction
  <2>7. /\ pc'[r] \in {"gateway", "done"}
        /\ err'[r] \in {"nil", "dbError"}
    BY <1>0, <2>5, <2>6 DEF Goto, Return
  <2> QED
    BY <2>4, <2>7 DEF TurnedAway, Early
<1>2. ASSUME NEW s \in Id, callGatewayOk(s) \/ callGatewayErr(s)
      PROVE  s = r /\ pc'[r] \notin Early /\ ~TurnedAway(r)'
  <2>1. /\ UNCHANGED <<tables, bg>> /\ gw' \in {gw, gw \cup {EffectOf(s)}}
        /\ pc[s] = "gateway"
    BY <1>2 DEF callGatewayOk, callGatewayErr
  <2>2. EffectOf(s).by = s
    BY DEF EffectOf
  <2>3. s = r
    BY <2>1, <2>2 DEF Untouched, tables
  <2>4. err[r] = "nil"
    BY <1>0, <2>1, <2>3 DEF Returned
  <2>5. /\ pc'[r] \in {"update", "release", "done"}
        /\ err'[r] \in {"nil", "ErrGatewayRejected", "context.DeadlineExceeded"}
    BY <1>0, <1>2, <2>3, <2>4 DEF callGatewayOk, callGatewayErr, Goto, Return
  <2> QED
    BY <2>3, <2>5 DEF TurnedAway, Early
<1>3. ASSUME NEW s \in Id, updateTransaction(s)
      PROVE  s = r /\ pc'[r] \notin Early /\ ~TurnedAway(r)'
  <2>1. UNCHANGED <<gw, refunds>> /\ DOMAIN txs' = DOMAIN txs
    BY <1>3, UpdateStep DEF updateTransaction
  <2>2. r \in bg' /\ r \notin bg
    BY <2>1 DEF Untouched
  <2>3. s = r /\ Return(r, UpdateErr(r), UpdateOutput(r))
    BY <1>3, <2>2 DEF updateTransaction
  <2>4. /\ pc'[r] \in {"release", "done"}
        /\ err'[r] \in {"nil", "ErrGatewayRejected"}
    BY <1>0, <2>3, ToFacts DEF Goto, Return
  <2> QED
    BY <2>3, <2>4 DEF TurnedAway, Early
<1>4. ASSUME NEW s \in Id, updateRefunded(s)
      PROVE  FALSE
  <2>1. UNCHANGED <<gw, refunds, bg>> /\ DOMAIN txs' = DOMAIN txs
    BY <1>4, UpdateStep DEF updateRefunded
  <2> QED
    BY <2>1 DEF Untouched
<1>5. ASSUME NEW s \in Id, createRefund(s)
      PROVE  s = r /\ pc'[r] \notin Early /\ ~TurnedAway(r)'
  <2>1. /\ UNCHANGED <<gw, txs>> /\ bg' \in {bg, bg \cup {s}}
        /\ refunds' \in {refunds, Insert(refunds, s, ProcessingRow(s))}
    BY <1>5 DEF createRefund
  <2>2. s = r
    BY <2>1 DEF Untouched, Insert
  <2>3. /\ pc'[r] \in {"release", "done"}
        /\ err'[r] \in {"nil", "dbError"}
    BY <1>0, <1>5, <2>2 DEF createRefund, Goto, Return
  <2> QED
    BY <2>2, <2>3 DEF TurnedAway, Early
<1>6. ASSUME \/ UNCHANGED <<txs, refunds, gw, bg>>
             \/ UNCHANGED <<txs, refunds, gw>> /\ bg' \subseteq bg
      PROVE  FALSE
  BY <1>6 DEF Untouched
<1>7. \/ UNCHANGED <<txs, refunds, gw, bg>>
      \/ UNCHANGED <<txs, refunds, gw>> /\ bg' \subseteq bg
      \/ \E s \in Id : \/ saveTransaction(s) \/ callGatewayOk(s) \/ callGatewayErr(s)
                       \/ updateTransaction(s) \/ updateRefunded(s) \/ createRefund(s)
  BY DEF Next, Handler, cachedIdempotency, callGateway, vars, tables, Arrive, MustParsePanics,
         CacheHit, CacheMiss, tokenizeCardToGateway, aquireLock, findTransaction,
         callGatewayPanics, releaseLock, saveIdempotency, expireIdempotency, expireLock, crash
<1> QED
  BY <1>1, <1>2, <1>3, <1>4, <1>5, <1>6, <1>7

(* A request is turned away at an early stage.                             *)
LEMMA TurnsAway ==
    ASSUME BasicInv, [Next]_vars, NEW r \in Id, TurnedAway(r)', err'[r] # err[r]
    PROVE  pc[r] \in Early
<1>0. err \in [Id -> Errors]
  BY DEF BasicInv, TypeOK
<1>1. ASSUME NEW s \in Id, Handler(s), s # r
      PROVE  FALSE
  BY <1>0, <1>1
     DEF Handler, cachedIdempotency, callGateway, MustParsePanics, CacheHit, CacheMiss,
         tokenizeCardToGateway, saveTransaction, aquireLock, findTransaction,
         callGatewayPanics, callGatewayOk, callGatewayErr, updateTransaction,
         updateRefunded, createRefund, releaseLock, Return
<1>2. CASE callGateway(r)
  BY <1>0, <1>2
     DEF callGateway, callGatewayPanics, callGatewayOk, callGatewayErr, Return, TurnedAway
<1>3. CASE updateTransaction(r) \/ updateRefunded(r) \/ createRefund(r)
  BY <1>0, <1>3, ToFacts
     DEF updateTransaction, updateRefunded, createRefund, Return, TurnedAway
<1>4. CASE \/ cachedIdempotency(r) \/ tokenizeCardToGateway(r) \/ saveTransaction(r)
           \/ aquireLock(r) \/ findTransaction(r)
  BY <1>4 DEF cachedIdempotency, MustParsePanics, CacheHit, CacheMiss, tokenizeCardToGateway,
              saveTransaction, aquireLock, findTransaction, Early
<1>5. ~UNCHANGED err
  OBVIOUS
<1>6. \E s \in Id : Handler(s)
  BY <1>5 DEF Next, vars, locals, Arrive, saveIdempotency, expireIdempotency, expireLock, crash
<1>7. Handler(r)
  BY <1>1, <1>6
<1>8. ~releaseLock(r)
  BY <1>5 DEF releaseLock
<1> QED
  BY <1>2, <1>3, <1>4, <1>7, <1>8 DEF Handler

(* No stage leads back to an early one.                                    *)
LEMMA EarlyBefore ==
    ASSUME BasicInv, [Next]_vars, NEW r \in Id, pc'[r] \in Early
    PROVE  pc[r] \in Early
<1>0. pc \in [Id -> Stage]
  BY DEF BasicInv, TypeOK
<1>1. ASSUME NEW s \in Id, Arrive(s)
      PROVE  pc[r] \in Early
  BY <1>0, <1>1 DEF Arrive, Goto, Early
<1>2. ASSUME NEW s \in Id, Handler(s)
      PROVE  pc[r] \in Early
  BY <1>0, <1>2
     DEF Handler, cachedIdempotency, callGateway, MustParsePanics, CacheHit, CacheMiss,
         tokenizeCardToGateway, saveTransaction, aquireLock, findTransaction,
         callGatewayPanics, callGatewayOk, callGatewayErr, updateTransaction,
         updateRefunded, createRefund, releaseLock, Goto, Return, Early
<1>3. CASE crash
  BY <1>0, <1>3 DEF crash, Early
<1>4. CASE UNCHANGED pc
  BY <1>4
<1> QED
  BY <1>1, <1>2, <1>3, <1>4
     DEF Next, vars, locals, saveIdempotency, expireIdempotency, expireLock

(* TraceInv is preserved.                                                  *)
LEMMA TraceInvStep == BasicInv /\ EndInv /\ TraceInv /\ [Next]_vars => TraceInv'
<1> SUFFICES ASSUME BasicInv, EndInv, TraceInv, [Next]_vars, NEW r \in Id,
                    pc'[r] \in Early \/ TurnedAway(r)'
             PROVE  Untouched(r)'
  BY DEF TraceInv, TurnedAway, Untouched
<1>1. pc[r] \in Early \/ TurnedAway(r)
  <2>1. CASE pc'[r] \in Early
    BY <2>1, EarlyBefore
  <2>2. CASE TurnedAway(r)' /\ err'[r] # err[r]
    BY <2>2, TurnsAway
  <2>3. CASE TurnedAway(r)' /\ err'[r] = err[r]
    BY <2>3 DEF TurnedAway
  <2> QED
    BY <2>1, <2>2, <2>3
<1>2. Untouched(r)
  BY <1>1 DEF TraceInv
<1> QED
  BY <1>2, TraceStep

-----------------------------------------------------------------------------
(* Pending transactions.                                                   *)

(* The request that made a transaction finds it pending until its update:  *)
(* every other update starts from a later status.                          *)
PendingHeld ==
    \A r \in Id : ~Locks(r) /\ pc[r] \in {"gateway", "update"} => Matches(r, "pending")

(* A request that leaves the gateway call or its update: by the panic, by  *)
(* the refund that returns the gateway's error, or by the update.          *)
LEMMA Leaving ==
    ASSUME BasicInv, [Next]_vars, NEW r \in Id, pc[r] \in {"gateway", "update"}
    PROVE  \/ pc'[r] \in {"gateway", "update", "crashed"}
           \/ callGatewayPanics(r)
           \/ callGatewayErr(r) /\ input[r].op = "refund"
           \/ updateTransaction(r) \/ updateRefunded(r)
<1>0. pc \in [Id -> Stage]
  BY DEF BasicInv, TypeOK
<1>1. ASSUME NEW s \in Id, Arrive(s)
      PROVE  pc'[r] = pc[r]
  BY <1>0, <1>1 DEF Arrive, Goto
<1>2. ASSUME NEW s \in Id, Handler(s), s # r
      PROVE  pc'[r] = pc[r]
  BY <1>0, <1>2
     DEF Handler, cachedIdempotency, callGateway, MustParsePanics, CacheHit, CacheMiss,
         tokenizeCardToGateway, saveTransaction, aquireLock, findTransaction,
         callGatewayPanics, callGatewayOk, callGatewayErr, updateTransaction,
         updateRefunded, createRefund, releaseLock, Goto, Return
<1>3. CASE Handler(r)
  <2>1. callGateway(r) \/ updateTransaction(r) \/ updateRefunded(r)
    BY <1>3 DEF Handler, cachedIdempotency, MustParsePanics, CacheHit, CacheMiss,
                tokenizeCardToGateway, saveTransaction, aquireLock, findTransaction,
                createRefund, releaseLock
  <2>2. callGatewayOk(r) => pc'[r] = "update"
    BY <1>0 DEF callGatewayOk, Goto
  <2>3. callGatewayErr(r) => pc'[r] = "update" \/ input[r].op = "refund"
    BY <1>0 DEF callGatewayErr, Goto
  <2> QED
    BY <2>1, <2>2, <2>3 DEF callGateway
<1>4. CASE crash
  BY <1>0, <1>4 DEF crash, InFlight
<1>5. CASE UNCHANGED pc
  BY <1>5
<1> QED
  BY <1>1, <1>2, <1>3, <1>4, <1>5
     DEF Next, vars, locals, saveIdempotency, expireIdempotency, expireLock

(* PendingHeld is preserved.                                               *)
LEMMA PendingHeldStep == Inv /\ PendingHeld /\ [Next]_vars => PendingHeld'
<1> SUFFICES ASSUME Inv, PendingHeld, [Next]_vars, NEW r \in Id, ~Locks(r)',
                    pc'[r] \in {"gateway", "update"}
             PROVE  r \in DOMAIN txs' /\ txs'[r].status = "pending"
  BY DEF PendingHeld, Matches
<1>0. /\ BasicInv /\ RowInv /\ InputsKept /\ pc \in [Id -> Stage]
  BY InputsStep DEF Inv, BasicInv, TypeOK
<1>1. CASE pc'[r] = pc[r]
  <2>1. ~Locks(r) /\ r \in DOMAIN txs /\ txs[r].status = "pending"
    BY <1>0, <1>1 DEF InputsKept, Locks, PendingHeld, Matches
  <2>2. ASSUME NEW s \in Id, updateTransaction(s) \/ updateRefunded(s), Target(s) = r,
               txs[r].status = From(s)
        PROVE  FALSE
    <3>1. pc[s] = "update" /\ pc'[s] # "update" /\ input[s].op \in Op
      BY <1>0, <2>2, UpdateStep, InputFacts DEF BasicInv, StageInv
    <3>2. ~Locks(s)
      BY <2>1, <2>2, <3>1, FromFacts
    <3>3. s = r
      BY <2>2, <3>2 DEF Target
    <3> QED
      BY <1>1, <3>1, <3>3
  <2> QED
    BY <2>1, <2>2, StatusStep
<1>2. CASE saveTransaction(r) /\ pc'[r] = "gateway"
  <2>1. r \in DOMAIN txs' /\ txs'[r] = PendingRow(r)
    BY <1>0, <1>2, SaveFacts
  <2> QED
    BY <2>1 DEF PendingRow
<1>3. CASE findTransaction(r)
  <2>1. input' = input /\ pc[r] = "read"
    BY <1>3 DEF findTransaction
  <2> QED
    BY <1>0, <2>1 DEF BasicInv, StageInv, Locks
<1>4. CASE (callGatewayOk(r) \/ callGatewayErr(r)) /\ pc'[r] = "update"
  <2>1. input' = input /\ txs' = txs /\ pc[r] = "gateway"
    BY <1>4 DEF callGatewayOk, callGatewayErr, tables
  <2> QED
    BY <2>1 DEF PendingHeld, Matches, Locks
<1> QED
  BY <1>0, <1>1, <1>2, <1>3, <1>4, Entering

(* The update of an authorization ends the pending status, or fails.       *)
LEMMA UpdateEndsPending ==
    ASSUME Inv, PendingHeld, NEW r \in Id, ~Locks(r), updateTransaction(r)
    PROVE  \/ err'[r] = "dbError"
           \/ /\ txs' = Updated(r) /\ r \in DOMAIN txs' /\ txs'[r].status = To(r)
              /\ txs'[r].status # "pending"
              /\ err'[r] = UpdateErr(r)
              /\ out'[r] = [shape |-> "charge", id |-> r, status |-> To(r)]
<1>0. /\ BasicInv /\ RepositoryTypeOK /\ pc[r] = "update" /\ input[r].op \in Op
      /\ err \in [Id -> Errors] /\ out \in [Id -> Output]
  BY InputFacts DEF Inv, BasicInv, TypeOK, StageInv, updateTransaction
<1>1. Matches(r, "pending") /\ Target(r) = r /\ From(r) = "pending"
  BY <1>0, FromFacts DEF PendingHeld, Target
<1>2. ASSUME txs' = Updated(r)
      PROVE  r \in DOMAIN txs' /\ txs'[r].status = To(r)
  BY <1>0, <1>1, <1>2, UpdatedFacts DEF Matches
<1>3. To(r) # "pending"
  BY DEF To
<1>4. UpdateOutput(r) = [shape |-> "charge", id |-> r, status |-> To(r)]
  BY <1>1 DEF UpdateOutput, ReturnedId
<1>5. \/ txs' = Updated(r) /\ Return(r, UpdateErr(r), UpdateOutput(r))
      \/ Return(r, "dbError", NoOutput)
  BY DEF updateTransaction
<1> QED
  BY <1>0, <1>2, <1>3, <1>4, <1>5 DEF Return

(* A new transaction is the one its request inserts.                       *)
LEMMA NewRow ==
    ASSUME Inv, [Next]_vars, NEW t \in DOMAIN txs', t \notin DOMAIN txs
    PROVE  t \in Id /\ saveTransaction(t) /\ txs'[t] = PendingRow(t)
<1>0. BasicInv /\ RowInv
  BY DEF Inv
<1>1. ASSUME NEW r \in Id, updateTransaction(r) \/ updateRefunded(r)
      PROVE  DOMAIN txs' = DOMAIN txs
  BY <1>0, <1>1, UpdateStep
<1>2. ASSUME NEW r \in Id, callGatewayOk(r) \/ callGatewayErr(r)
      PROVE  txs' = txs
  BY <1>2 DEF callGatewayOk, callGatewayErr, tables
<1> QED
  BY <1>0, <1>1, <1>2, QuietOrNot, SaveFacts DEF Quiet

(* A transaction is pending from its insert, or was before the step.       *)
LEMMA PendingBefore ==
    ASSUME Inv, [Next]_vars, NEW t \in DOMAIN txs', txs'[t].status = "pending"
    PROVE  \/ t \in DOMAIN txs /\ txs[t].status = "pending"
           \/ t \in Id /\ saveTransaction(t) /\ txs'[t] = PendingRow(t)
BY NewRow, StatusStep DEF Lifecycle

(* PendingAccounted is preserved.                                          *)
LEMMA PendingStep ==
    Inv /\ EndInv /\ PendingHeld /\ PendingAccounted /\ [Next]_vars => PendingAccounted'
<1> SUFFICES ASSUME Inv, EndInv, PendingHeld, PendingAccounted, [Next]_vars,
                    NEW t \in DOMAIN txs', txs'[t].status = "pending"
             PROVE  \/ pc'[t] \in {"gateway", "update", "crashed"}
                    \/ err'[t] = "dbError"
                    \/ err'[t] = "panic" /\ input'[t].op = "charge"
  BY DEF PendingAccounted
<1>0. /\ BasicInv /\ RowInv /\ InputsKept /\ DOMAIN txs \subseteq Id
      /\ pc \in [Id -> Stage] /\ err \in [Id -> Errors]
  BY InputsStep DEF Inv, BasicInv, TypeOK, RepositoryTypeOK
<1>1. ASSUME t \in Id, saveTransaction(t), txs'[t] = PendingRow(t), t \notin DOMAIN txs
      PROVE  pc'[t] = "gateway" \/ err'[t] = "dbError"
  <2>1. ~UNCHANGED txs
    BY <1>1
  <2> QED
    BY <1>0, <1>1, <2>1 DEF saveTransaction, Goto, Return
<1>2. CASE t \in DOMAIN txs /\ txs[t].status = "pending"
  <2>0. t \in Id /\ pc[t] # "idle" /\ input'[t] = input[t] /\ ~Locks(t)
    BY <1>0, <1>2 DEF RowInv, InputsKept
  <2>1. CASE pc[t] = "crashed"
    BY <1>0, <2>0, <2>1, Closing
  <2>2. CASE err[t] \in {"dbError", "panic"} /\ (err[t] = "panic" => input[t].op = "charge")
    <3>1. err'[t] = err[t]
      BY <1>0, <2>0, <2>2, EndStep
    <3> QED
      BY <2>0, <2>2, <3>1
  <2>3. CASE pc[t] \in {"gateway", "update"}
    <3>1. CASE callGatewayPanics(t)
      <4>1. err'[t] = "panic" /\ pc[t] = "gateway"
        BY <1>0, <2>0, <3>1 DEF callGatewayPanics, Return
      <4>2. Parse[input[t].key] # Nil
        BY <1>0, <2>0, <4>1 DEF BasicInv, StageInv
      <4>3. PanicsOnlyInCharge'
        BY PanicStep DEF Inv
      <4> QED
        BY <2>0, <4>1, <4>2, <4>3 DEF PanicsOnlyInCharge
    <3>2. CASE updateTransaction(t)
      BY <2>0, <3>2, UpdateEndsPending
    <3>3. ~updateRefunded(t) /\ input[t].op # "refund"
      BY <2>0 DEF updateRefunded, Locks
    <3> QED
      BY <1>0, <2>0, <2>3, <3>1, <3>2, <3>3, Leaving
  <2>4. \/ pc[t] = "crashed"
        \/ pc[t] \in {"gateway", "update"}
        \/ err[t] \in {"dbError", "panic"} /\ (err[t] = "panic" => input[t].op = "charge")
    BY <1>2 DEF PendingAccounted
  <2> QED
    BY <2>1, <2>2, <2>3, <2>4
<1> QED
  BY <1>0, <1>1, <1>2, PendingBefore, SaveFacts

(* PendingAccounted, under every fault: a pending transaction is one whose *)
(* request is still to record its outcome, or died, failed on the          *)
(* database, or is a charge that panicked.                                 *)
THEOREM PendingHasReason == Spec => []PendingAccounted
<1>1. Init => EndInv /\ PendingHeld /\ PendingAccounted
  BY DEF Init, RepositoryInit, EndInv, PendingHeld, PendingAccounted
<1>2. Inv /\ EndInv /\ PendingHeld /\ PendingAccounted /\ [Next]_vars =>
        EndInv' /\ PendingHeld' /\ PendingAccounted'
  BY EndStep, PendingHeldStep, PendingStep DEF Inv
<1> QED
  BY <1>1, <1>2, Invariance, PTL DEF Spec

(* RefusedUntouched, under every fault: a request that is turned away, by  *)
(* a lock, a key, a status or an owner, has called no gateway and written  *)
(* no row.                                                                 *)
THEOREM TurnedAwayUntouched == Spec => []RefusedUntouched
<1>1. Init => EndInv /\ TraceInv
  BY DEF Init, RepositoryInit, EndInv, TraceInv, Untouched
<1>2. Inv /\ EndInv /\ TraceInv /\ [Next]_vars => EndInv' /\ TraceInv'
  BY EndStep, TraceInvStep DEF Inv
<1>3. TraceInv => RefusedUntouched
  BY DEF TraceInv, Untouched, RefusedUntouched
<1> QED
  BY <1>1, <1>2, <1>3, Invariance, PTL DEF Spec

-----------------------------------------------------------------------------
(* Refunds.                                                                *)

RefundEffect(r) == [op |-> "refund", order |-> input[r].tx, by |-> r]

(* A refund is booked only after the gateway has made it.                  *)
SentInv ==
    \A r \in Id :
        input[r].op = "refund" /\ (pc[r] \in {"update", "insert"} \/ r \in DOMAIN refunds) =>
            RefundEffect(r) \in gw

(* The gateway acts on the transaction that its request is about.          *)
TargetInv == \A e \in gw : e.order = Target(e.by)

(* TargetInv is preserved.                                                 *)
LEMMA TargetStep == Inv /\ TargetInv /\ [Next]_vars => TargetInv'
<1> SUFFICES ASSUME Inv, TargetInv, [Next]_vars, NEW e \in gw'
             PROVE  e.order = Target(e.by)'
  BY DEF TargetInv
<1>0. EffectInv /\ InputsKept /\ gw \subseteq Effect
  BY InputsStep DEF Inv, BasicInv, TypeOK
<1>1. CASE e \notin gw
  <2>1. PICK r \in Id : e.by = r /\ e.order = Target(r) /\ input' = input
    BY <1>1, NewEffect
  <2> QED
    BY <2>1 DEF Target, Locks
<1>2. CASE e \in gw
  <2>1. e.by \in Id /\ e.order = Target(e.by) /\ input'[e.by] = input[e.by]
    BY <1>0, <1>2 DEF TargetInv, EffectInv, Effect, InputsKept
  <2> QED
    BY <2>1 DEF Target, Locks
<1> QED
  BY <1>1, <1>2

(* SentInv is preserved.                                                   *)
LEMMA SentStep == Inv /\ RefundsInv /\ SentInv /\ [Next]_vars => SentInv'
<1> SUFFICES ASSUME Inv, RefundsInv, SentInv, [Next]_vars, NEW r \in Id,
                    input'[r].op = "refund",
                    pc'[r] \in {"update", "insert"} \/ r \in DOMAIN refunds'
             PROVE  RefundEffect(r)' \in gw'
  BY DEF SentInv
<1>0. /\ BasicInv /\ LocalInv /\ InputsKept /\ pc \in [Id -> Stage] /\ gw \subseteq gw'
  BY InputsStep, GatewayStep DEF Inv, BasicInv, TypeOK
<1>1. ASSUME pc[r] # "idle", input[r].op = "refund" => RefundEffect(r) \in gw
      PROVE  RefundEffect(r)' \in gw'
  BY <1>0, <1>1 DEF InputsKept, RefundEffect
<1>2. CASE r \in DOMAIN refunds
  BY <1>1, <1>2 DEF SentInv, RefundsInv
<1>3. CASE createRefund(r) \/ updateRefunded(r)
  BY <1>1, <1>3 DEF SentInv, createRefund, updateRefunded
<1>4. CASE pc'[r] \in {"update", "insert"} /\ pc'[r] = pc[r]
  BY <1>1, <1>4 DEF SentInv
<1>5. CASE (callGatewayOk(r) \/ callGatewayErr(r)) /\ pc'[r] = "update"
  <2>1. /\ pc[r] = "gateway" /\ input' = input
        /\ callGatewayOk(r)
    BY <1>0, <1>5 DEF callGatewayOk, callGatewayErr, Return, Goto, InCritical
  <2>2. ref[r] = input[r].tx
    BY <1>0, <2>1 DEF LocalInv, Locks
  <2>3. EffectOf(r) = RefundEffect(r)
    BY <2>1, <2>2 DEF EffectOf, RefundEffect
  <2>4. RefundEffect(r)' = RefundEffect(r)
    BY <2>1 DEF RefundEffect
  <2> QED
    BY <2>1, <2>3, <2>4 DEF callGatewayOk
<1> QED
  BY <1>0, <1>2, <1>3, <1>4, <1>5, Entering, RefundsStep

(* A refund that is about to insert its row does so, fails on it, or dies. *)
LEMMA InsertsOrFails ==
    ASSUME Inv, [Next]_vars, NEW r \in Id, pc[r] = "insert"
    PROVE  \/ pc'[r] \in {"insert", "crashed"}
           \/ err'[r] = "dbError"
           \/ r \in DOMAIN refunds' /\ refunds'[r].tx = input[r].tx
<1>0. pc \in [Id -> Stage] /\ err \in [Id -> Errors]
  BY DEF Inv, BasicInv, TypeOK
<1>1. ASSUME NEW s \in Id, Arrive(s)
      PROVE  pc'[r] = pc[r]
  BY <1>0, <1>1 DEF Arrive, Goto
<1>2. ASSUME NEW s \in Id, Handler(s), s # r
      PROVE  pc'[r] = pc[r]
  BY <1>0, <1>2
     DEF Handler, cachedIdempotency, callGateway, MustParsePanics, CacheHit, CacheMiss,
         tokenizeCardToGateway, saveTransaction, aquireLock, findTransaction,
         callGatewayPanics, callGatewayOk, callGatewayErr, updateTransaction,
         updateRefunded, createRefund, releaseLock, Goto, Return
<1>3. CASE Handler(r)
  <2>1. createRefund(r)
    BY <1>3 DEF Handler, cachedIdempotency, callGateway, MustParsePanics, CacheHit, CacheMiss,
         tokenizeCardToGateway, saveTransaction, aquireLock, findTransaction,
         callGatewayPanics, callGatewayOk, callGatewayErr, updateTransaction,
         updateRefunded, releaseLock
  <2>2. CASE refunds' = Insert(refunds, r, ProcessingRow(r))
    BY <2>2 DEF Insert, ProcessingRow
  <2>3. CASE Return(r, "dbError", NoOutput)
    BY <1>0, <2>3 DEF Return
  <2> QED
    BY <2>1, <2>2, <2>3 DEF createRefund
<1>4. CASE crash
  BY <1>0, <1>4 DEF crash, InFlight
<1>5. CASE UNCHANGED pc
  BY <1>5
<1> QED
  BY <1>1, <1>2, <1>3, <1>4, <1>5
     DEF Next, vars, locals, saveIdempotency, expireIdempotency, expireLock

(* A refunded transaction, and the refund that is behind it.               *)
RefundedInv ==
    \A t \in DOMAIN txs : txs[t].status = "refunded" =>
        \/ \E f \in DOMAIN refunds : refunds[f].tx = t
        \/ \E e \in gw : /\ e.op = "refund" /\ e.order = t
                        /\ \/ pc[e.by] \in {"insert", "crashed"}
                           \/ err[e.by] = "dbError"

(* RefundedInv is preserved.                                               *)
LEMMA RefundedInvStep ==
    Inv /\ EndInv /\ RefundsInv /\ SentInv /\ TargetInv /\ RefundedInv /\ [Next]_vars =>
        RefundedInv'
<1> SUFFICES ASSUME Inv, EndInv, RefundsInv, SentInv, TargetInv, RefundedInv, [Next]_vars,
                    NEW t \in DOMAIN txs', txs'[t].status = "refunded"
             PROVE  \/ \E f \in DOMAIN refunds' : refunds'[f].tx = t
                    \/ \E e \in gw' : /\ e.op = "refund" /\ e.order = t
                                     /\ \/ pc'[e.by] \in {"insert", "crashed"}
                                        \/ err'[e.by] = "dbError"
  BY DEF RefundedInv
<1>0. /\ BasicInv /\ gw \subseteq gw' /\ gw \subseteq Effect /\ EffectInv
      /\ pc \in [Id -> Stage] /\ err \in [Id -> Errors]
  BY GatewayStep DEF Inv, BasicInv, TypeOK
<1>1. CASE t \in DOMAIN txs /\ txs[t].status = "refunded"
  <2>1. CASE \E f \in DOMAIN refunds : refunds[f].tx = t
    BY <2>1, RefundsStep
  <2>2. ASSUME NEW e \in gw, e.op = "refund", e.order = t, pc[e.by] \in {"insert", "crashed"}
        PROVE  \/ \E f \in DOMAIN refunds' : refunds'[f].tx = t
               \/ pc'[e.by] \in {"insert", "crashed"}
               \/ err'[e.by] = "dbError"
    <3>1. e.by \in Id /\ e.order = Target(e.by) /\ input[e.by].op = "refund"
      BY <1>0, <2>2 DEF Effect, TargetInv, EffectInv
    <3>2. input[e.by].tx = t
      BY <2>2, <3>1 DEF Target, Locks
    <3> QED
      BY <1>0, <2>2, <3>1, <3>2, Closing, InsertsOrFails
  <2>3. ASSUME NEW e \in gw, err[e.by] = "dbError"
        PROVE  err'[e.by] = "dbError"
    BY <1>0, <2>3, EndStep DEF Effect
  <2> QED
    BY <1>0, <1>1, <2>1, <2>2, <2>3 DEF RefundedInv
<1>2. CASE t \in DOMAIN txs /\ txs[t].status # "refunded"
  <2>1. PICK r \in Id : /\ updateTransaction(r) \/ updateRefunded(r)
                        /\ Target(r) = t /\ To(r) = "refunded"
    BY <1>2, StatusStep
  <2>2. input[r].op \in Op /\ pc[r] = "update"
    BY <1>0, <2>1, UpdateStep, InputFacts DEF BasicInv, StageInv
  <2>3. input[r].op = "refund" /\ updateRefunded(r)
    BY <2>1, <2>2 DEF To, Op, updateTransaction
  <2>4. RefundEffect(r) \in gw /\ RefundEffect(r).order = t
    BY <2>1, <2>2, <2>3 DEF SentInv, RefundEffect, Target, Locks
  <2>5. pc'[r] = "insert" \/ err'[r] = "dbError"
    BY <1>0, <2>3 DEF updateRefunded, Goto, Return
  <2>6. RefundEffect(r).op = "refund" /\ RefundEffect(r).by = r
    BY DEF RefundEffect
  <2> QED
    BY <1>0, <2>4, <2>5, <2>6
<1>3. CASE t \notin DOMAIN txs
  BY <1>3, NewRow DEF PendingRow
<1> QED
  BY <1>1, <1>2, <1>3

(* RefundsBooked, under every fault: no refund row without a refund of     *)
(* that merchant at the gateway, and no refunded transaction without its   *)
(* row, but for a refund that was cut short between the two statements.    *)
THEOREM RefundsTellOneStory == Spec => []RefundsBooked
<1> DEFINE R == EndInv /\ SentInv /\ TargetInv /\ RefundedInv
<1>1. Init => R
  BY DEF Init, RepositoryInit, EndInv, SentInv, TargetInv, RefundedInv, NoInput
<1>2. Inv /\ ClaimInv /\ R /\ [Next]_vars => R'
  BY EndStep, SentStep, TargetStep, RefundedInvStep DEF Inv, ClaimInv
<1>3. Inv /\ ClaimInv /\ R => RefundsBooked
  <2> SUFFICES ASSUME Inv, ClaimInv, R
               PROVE  RefundsBooked
    OBVIOUS
  <2>1. ASSUME NEW f \in DOMAIN refunds
        PROVE  /\ refunds[f].tx \in DOMAIN txs
               /\ txs[refunds[f].tx].status = "refunded"
               /\ txs[refunds[f].tx].merchant = refunds[f].merchant
    <3>1. /\ f \in Id /\ input[f].op = "refund" /\ refunds[f] = ProcessingRow(f)
          /\ refunds[f].tx \in DOMAIN txs /\ txs[refunds[f].tx].status = "refunded"
      BY DEF Inv, BasicInv, TypeOK, RepositoryTypeOK, ClaimInv, RefundsInv
    <3>2. RefundEffect(f) \in gw
      BY <3>1 DEF SentInv
    <3>3. FindByIDAndMerchantID(input[f].tx, input[f].merchant)
      BY <3>2 DEF Inv, EffectInv, RefundEffect
    <3> QED
      BY <3>1, <3>3 DEF ProcessingRow, FindByIDAndMerchantID
  <2> QED
    BY <2>1 DEF RefundsBooked, RefundedInv
<1> QED
  BY <1>1, <1>2, <1>3, ClaimInvariance, PTL DEF Spec

-----------------------------------------------------------------------------
(* Locks.                                                                  *)

(* A request leaves its critical section by dying or by the deferred       *)
(* Release, and one that is done stays done.                               *)
LEMMA LeavingCritical ==
    ASSUME BasicInv, [Next]_vars, NEW r \in Id
    PROVE  /\ pc[r] = "done" => pc'[r] = "done"
           /\ InCritical(r) => \/ InCritical(r)'
                               \/ pc'[r] = "crashed"
                               \/ releaseLock(r) /\ pc'[r] = "done"
<1>0. /\ pc \in [Id -> Stage]
      /\ pc[r] # "idle" => input'[r] = input[r]
  BY InputsStep DEF BasicInv, TypeOK, InputsKept
<1>1. ASSUME NEW s \in Id, Arrive(s)
      PROVE  pc[r] # "idle" => pc'[r] = pc[r]
  BY <1>0, <1>1 DEF Arrive, Goto
<1>2. ASSUME NEW s \in Id, Handler(s), s # r
      PROVE  pc'[r] = pc[r]
  BY <1>0, <1>2
     DEF Handler, cachedIdempotency, callGateway, MustParsePanics, CacheHit, CacheMiss,
         tokenizeCardToGateway, saveTransaction, aquireLock, findTransaction,
         callGatewayPanics, callGatewayOk, callGatewayErr, updateTransaction,
         updateRefunded, createRefund, releaseLock, Goto, Return
<1>3. ASSUME Handler(r)
      PROVE  /\ pc[r] # "done"
             /\ InCritical(r) =>
                   \/ pc'[r] \in {"read", "gateway", "update", "insert", "release"}
                   \/ releaseLock(r) /\ pc'[r] = "done"
  BY <1>0, <1>3
     DEF Handler, cachedIdempotency, callGateway, MustParsePanics, CacheHit, CacheMiss,
         tokenizeCardToGateway, saveTransaction, aquireLock, findTransaction,
         callGatewayPanics, callGatewayOk, callGatewayErr, updateTransaction,
         updateRefunded, createRefund, releaseLock, Goto, Return, InCritical
<1>4. CASE crash
  BY <1>0, <1>4 DEF crash, InFlight, InCritical, Locks
<1>5. CASE UNCHANGED pc
  BY <1>0, <1>5 DEF InCritical, Locks
<1>6. \/ \E s \in Id : Arrive(s) \/ Handler(s)
      \/ crash
      \/ UNCHANGED pc
  BY DEF Next, vars, locals, saveIdempotency, expireIdempotency, expireLock
<1>7. \/ pc[r] # "idle" => pc'[r] = pc[r]
      \/ Handler(r)
      \/ crash
  BY <1>1, <1>2, <1>5, <1>6
<1>8. CASE pc[r] # "idle" => pc'[r] = pc[r]
  BY <1>0, <1>8 DEF InCritical, Locks
<1>9. CASE Handler(r)
  <2>1. InCritical(r) => pc[r] # "idle"
    BY DEF InCritical
  <2> QED
    BY <1>0, <1>3, <1>9, <2>1 DEF InCritical, Locks
<1> QED
  BY <1>4, <1>7, <1>8, <1>9

(* LocksAccounted is preserved.                                            *)
LEMMA LocksStep == BasicInv /\ LocksAccounted /\ [Next]_vars => LocksAccounted'
<1> SUFFICES ASSUME BasicInv, LocksAccounted, [Next]_vars, NEW t \in Id, lock'[t] # Nil,
                    NEW r, r = lock'[t]
             PROVE  /\ Locks(r)' /\ input'[r].tx = t
                    /\ \/ InCritical(r)' \/ pc'[r] = "crashed"
                       \/ "redis" \in Faults /\ pc'[r] = "done"
  BY DEF LocksAccounted, Locks, InCritical
<1>0. /\ lock \in [Id -> Id \cup {Nil}] /\ pc \in [Id -> Stage] /\ InputsKept
      /\ \A s \in Id : input[s].op = "none" \/ pc[s] # "idle"
  BY InputsStep DEF BasicInv, TypeOK, LockTypeOK, IdleInv, NoInput
<1>1. CASE lock[t] = r
  <2>1. /\ r \in Id /\ Locks(r) /\ input[r].tx = t
        /\ \/ InCritical(r) \/ pc[r] = "crashed"
           \/ "redis" \in Faults /\ pc[r] = "done"
    BY <1>0, <1>1 DEF LocksAccounted
  <2>2. input'[r] = input[r]
    BY <1>0, <2>1 DEF InputsKept, Locks
  <2>3. Locks(r)' /\ input'[r].tx = t
    BY <2>1, <2>2 DEF Locks
  <2>4. ~releaseLock(r) \/ "redis" \in Faults
    BY <1>0, <1>1, <2>1 DEF releaseLock, Released
  <2>5. pc[r] = "crashed" => pc'[r] = "crashed"
    BY <2>1, Closing
  <2> QED
    BY <2>1, <2>3, <2>4, <2>5, LeavingCritical
<1>2. CASE lock[t] # r
  <2>1. ASSUME NEW s \in Id, releaseLock(s) \/ expireLock(s)
        PROVE  lock'[t] \in {lock[t], Nil}
    BY <1>0, <2>1 DEF releaseLock, Released, expireLock, Expired
  <2>2. \/ UNCHANGED lock
        \/ \E s \in Id : aquireLock(s) \/ releaseLock(s) \/ expireLock(s)
    BY DEF Next, Handler, cachedIdempotency, callGateway, vars, Arrive, MustParsePanics,
           CacheHit, CacheMiss, tokenizeCardToGateway, saveTransaction, findTransaction,
           callGatewayPanics, callGatewayOk, callGatewayErr, updateTransaction, updateRefunded,
           createRefund, saveIdempotency, expireIdempotency, crash
  <2>3. PICK s \in Id : aquireLock(s)
    <3>1. CASE \E s \in Id : releaseLock(s) \/ expireLock(s)
      BY <1>2, <2>1, <3>1
    <3>2. CASE UNCHANGED lock
      BY <1>2, <3>2
    <3> QED
      BY <2>2, <3>1, <3>2
  <2>4. /\ pc[s] = "lock" /\ input' = input /\ Locks(s) /\ input[s].tx \in Id
        /\ Acquired(input[s].tx, s)
    BY <1>2, <2>3, InputFacts DEF aquireLock, Refused, BasicInv, StageInv, Locks
  <2>5. s = r /\ input[s].tx = t
    BY <1>0, <1>2, <2>4 DEF Acquired
  <2>6. \/ pc'[r] = "read"
        \/ "redis" \in Faults /\ pc'[r] = "done"
    <3>1. ~Refused(input[r].tx)
      BY <1>2, <2>5 DEF Refused
    <3> QED
      BY <1>0, <2>3, <2>4, <2>5, <3>1 DEF aquireLock, Goto, Return, InCritical
  <2> QED
    BY <2>4, <2>5, <2>6 DEF Locks, InCritical
<1> QED
  BY <1>1, <1>2

(* LocksAccounted, under every fault: a lock that is set is held by a      *)
(* request for its transaction that is at work or died, unless a Redis     *)
(* command failed.                                                         *)
THEOREM LocksHaveOwners == Spec => []LocksAccounted
<1>1. Init => LocksAccounted
  BY DEF Init, LockInit, LocksAccounted
<1> QED
  BY <1>1, LocksStep, BasicInit, BasicStep, PTL DEF Spec

-----------------------------------------------------------------------------
(* Successful answers that name no row.                                    *)

(* Request q has idempotency key k of merchant m.                          *)
Uses(q, k, m) ==
    input[q].key # Nil /\ Parse[input[q].key] = k /\ input[q].merchant = m

(* What is stored, or about to be, names a row and has the shape of a      *)
(* request with that key; a success that names none replays to an          *)
(* operation of one shape what an operation of the other has stored.       *)
NamedInv ==
    /\ \A r \in bg : pc[r] \in Returned /\ out[r].id # Nil
    /\ \A k \in DOMAIN idem :
          /\ idem[k].response.id # Nil
          /\ \E q \in Id : /\ Uses(q, k, idem[k].merchant)
                          /\ idem[k].response.shape = Shape(q)
    /\ \A r \in Id :
          err[r] = "nil" /\ pc[r] \in {"release", "done"} /\ input[r].key # Nil =>
              \/ out[r].id # Nil
              \/ \E q \in Id : /\ Uses(q, Parse[input[r].key], input[r].merchant)
                              /\ Shape(q) # Shape(r)

(* A key that is used stays used, by an operation of the same shape.       *)
LEMMA UsesKept ==
    ASSUME BasicInv, [Next]_vars, NEW q \in Id, input[q].key # Nil
    PROVE  input'[q] = input[q]
<1>1. pc[q] # "idle"
  BY DEF BasicInv, IdleInv, NoInput
<1> QED
  BY <1>1, InputsStep DEF InputsKept

(* A success comes from the table of stored responses, from an update, or  *)
(* from the insert of a refund.                                            *)
LEMMA SuccessSource ==
    ASSUME BasicInv, [Next]_vars, NEW r \in Id,
           pc[r] \notin Returned, pc'[r] \in {"release", "done"}, err'[r] = "nil"
    PROVE  CacheHit(r) \/ updateTransaction(r) \/ createRefund(r)
<1>0. pc \in [Id -> Stage] /\ err \in [Id -> Errors]
  BY DEF BasicInv, TypeOK
<1>1. ASSUME NEW s \in Id, Arrive(s)
      PROVE  FALSE
  BY <1>0, <1>1 DEF Arrive, Goto, Returned
<1>2. ASSUME NEW s \in Id, Handler(s), s # r
      PROVE  FALSE
  BY <1>0, <1>2
     DEF Handler, cachedIdempotency, callGateway, MustParsePanics, CacheHit, CacheMiss,
         tokenizeCardToGateway, saveTransaction, aquireLock, findTransaction,
         callGatewayPanics, callGatewayOk, callGatewayErr, updateTransaction,
         updateRefunded, createRefund, releaseLock, Goto, Return, Returned
<1>3. CASE Handler(r)
  BY <1>0, <1>3
     DEF Handler, cachedIdempotency, callGateway, MustParsePanics, CacheMiss,
         tokenizeCardToGateway, saveTransaction, aquireLock, findTransaction,
         callGatewayPanics, callGatewayOk, callGatewayErr,
         updateRefunded, releaseLock, Goto, Return, Returned
<1>4. CASE crash
  BY <1>0, <1>4 DEF crash, InFlight, Returned
<1>5. CASE UNCHANGED pc
  BY <1>5 DEF Returned
<1> QED
  BY <1>1, <1>2, <1>3, <1>4, <1>5
     DEF Next, vars, locals, saveIdempotency, expireIdempotency, expireLock

(* A background save is started by a request that returns what it saves.   *)
LEMMA SaveSource ==
    ASSUME Inv, PendingHeld, [Next]_vars, NEW r \in bg', r \notin bg
    PROVE  r \in Id /\ pc'[r] \in Returned /\ out'[r].id = r
<1>0. /\ BasicInv /\ pc \in [Id -> Stage] /\ out \in [Id -> Output] /\ NoOutput.id = Nil
      /\ bg \subseteq Id
  BY DEF Inv, BasicInv, TypeOK, NoOutput
<1>1. ASSUME NEW s \in Id, updateTransaction(s)
      PROVE  s = r /\ pc'[r] \in Returned /\ out'[r].id = r
  <2>1. s = r /\ ~Locks(r) /\ Return(r, UpdateErr(r), UpdateOutput(r))
    BY <1>1 DEF updateTransaction
  <2>2. pc[r] = "update" /\ input[r].op \in Op /\ r \in Id
    BY <1>0, <1>1, <2>1, InputFacts DEF updateTransaction, BasicInv, StageInv
  <2>3. Matches(r, "pending") /\ Target(r) = r /\ From(r) = "pending"
    BY <2>1, <2>2, FromFacts DEF PendingHeld, Target
  <2> QED
    BY <1>0, <2>1, <2>2, <2>3
       DEF Return, Goto, InCritical, Returned, UpdateOutput, ReturnedId
<1>2. ASSUME NEW s \in Id, createRefund(s)
      PROVE  s = r /\ pc'[r] \in Returned /\ out'[r].id = r
  <2>1. s = r
    BY <1>2 DEF createRefund
  <2>2. Return(r, "nil", [shape |-> "refund", id |-> r, status |-> "processing"])
    BY <1>2, <2>1 DEF createRefund
  <2> QED
    BY <1>0, <2>1, <2>2 DEF Return, Goto, Returned
<1>3. \/ bg' \subseteq bg
      \/ \E s \in Id : updateTransaction(s) \/ createRefund(s)
  BY DEF Next, Handler, cachedIdempotency, callGateway, vars, Arrive, MustParsePanics,
         CacheHit, CacheMiss, tokenizeCardToGateway, saveTransaction, aquireLock,
         findTransaction, callGatewayPanics, callGatewayOk, callGatewayErr, updateRefunded,
         releaseLock, saveIdempotency, expireIdempotency, expireLock, crash
<1> QED
  BY <1>1, <1>2, <1>3

(* What a new success names.                                               *)
LEMMA SuccessNames ==
    ASSUME Inv, PendingHeld, NamedInv, NEW r \in Id, err'[r] = "nil", input[r].key # Nil,
           CacheHit(r) \/ updateTransaction(r) \/ createRefund(r)
    PROVE  \/ out'[r].id # Nil
           \/ \E q \in Id : /\ Uses(q, Parse[input[r].key], input[r].merchant)
                           /\ Shape(q) # Shape(r)
<1>0. /\ BasicInv /\ err \in [Id -> Errors] /\ out \in [Id -> Output] /\ r # Nil
  BY NilAssumption DEF Inv, BasicInv, TypeOK
<1>1. CASE CacheHit(r)
  <2> DEFINE k == Parse[input[r].key]
             o == idem[k].response
  <2>1. /\ k \in DOMAIN idem /\ idem[k].merchant = input[r].merchant
        /\ out'[r] = Unmarshal(o, Shape(r))
    BY <1>0, <1>1 DEF CacheHit, Return, FindByKeyAndMerchantID
  <2>2. PICK q \in Id : Uses(q, k, idem[k].merchant) /\ o.shape = Shape(q)
    BY <2>1 DEF NamedInv
  <2>3. o.id # Nil
    BY <2>1 DEF NamedInv
  <2>4. CASE o.shape = Shape(r)
    BY <2>1, <2>3, <2>4 DEF Unmarshal
  <2>5. CASE o.shape # Shape(r)
    BY <2>1, <2>2, <2>5
  <2> QED
    BY <2>4, <2>5
<1>2. CASE updateTransaction(r)
  <2>1. pc[r] = "update" /\ input[r] \in Input /\ input[r].op # "refund"
    BY <1>0, <1>2 DEF updateTransaction, BasicInv, StageInv
  <2>2. ~Locks(r)
    BY <2>1, InputFacts DEF Locks
  <2>3. err'[r] = "dbError" \/ out'[r] = [shape |-> "charge", id |-> r, status |-> To(r)]
    BY <1>2, <2>2, UpdateEndsPending
  <2> QED
    BY <1>0, <2>3
<1>3. CASE createRefund(r)
  BY <1>0, <1>3 DEF createRefund, Return
<1> QED
  BY <1>1, <1>2, <1>3

(* NamedInv is preserved.                                                  *)
LEMMA NamedStep ==
    Inv /\ ClaimInv /\ EndInv /\ PendingHeld /\ NamedInv /\ [Next]_vars => NamedInv'
<1> SUFFICES ASSUME Inv, ClaimInv, EndInv, PendingHeld, NamedInv, [Next]_vars
             PROVE  NamedInv'
  OBVIOUS
<1>0. /\ BasicInv /\ AnswersInv /\ bg \subseteq Id
      /\ \A q \in Id : input[q].key # Nil => input'[q] = input[q]
  BY UsesKept DEF Inv, ClaimInv, BasicInv, TypeOK
<1>1. ASSUME NEW q \in Id, NEW k, NEW m, Uses(q, k, m)
      PROVE  Uses(q, k, m)' /\ Shape(q)' = Shape(q)
  BY <1>0, <1>1 DEF Uses, Shape
<1>2. ASSUME NEW r \in bg'
      PROVE  pc'[r] \in Returned /\ out'[r].id # Nil
  <2>1. CASE r \in bg
    BY <1>0, <2>1, Closing DEF NamedInv, Returned
  <2>2. CASE r \notin bg
    BY <2>2, SaveSource, NilAssumption
  <2> QED
    BY <2>1, <2>2
<1>3. ASSUME NEW k \in DOMAIN idem', NEW o, NEW m, o = idem'[k].response,
             m = idem'[k].merchant
      PROVE  o.id # Nil /\ \E q \in Id : Uses(q, k, m)' /\ o.shape = Shape(q)'
  <2>1. CASE k \in DOMAIN idem /\ o = idem[k].response /\ m = idem[k].merchant
    <3>1. PICK q \in Id : Uses(q, k, m) /\ o.shape = Shape(q)
      BY <2>1 DEF NamedInv
    <3>2. o.id # Nil
      BY <2>1 DEF NamedInv
    <3> QED
      BY <1>1, <3>1, <3>2
  <2>2. ASSUME NEW q \in bg, k = Parse[input[q].key], o = out[q], m = input[q].merchant
        PROVE  o.id # Nil /\ Uses(q, k, m)' /\ o.shape = Shape(q)' /\ q \in Id
    <3>1. q \in Id /\ o.id # Nil /\ o.shape = Shape(q)
      BY <1>0, <2>2 DEF NamedInv, AnswersInv
    <3>2. input[q] \in Input /\ input[q].op \notin {"capture", "void"}
      BY <1>0, <2>2, <3>1 DEF BasicInv, SaveInv, StageInv
    <3>3. input[q].key # Nil
      BY <3>2, InputFacts, NilAssumption DEF Op
    <3> QED
      BY <1>1, <2>2, <3>1, <3>3 DEF Uses
  <2> QED
    BY <1>0, <1>3, <2>1, <2>2, StoredSource
<1>4. ASSUME NEW r \in Id, err'[r] = "nil", pc'[r] \in {"release", "done"},
             input'[r].key # Nil, NEW k, NEW m, k = Parse[input[r].key], m = input[r].merchant
      PROVE  /\ input'[r] = input[r]
             /\ \/ out'[r].id # Nil
                \/ \E q \in Id : Uses(q, k, m)' /\ Shape(q)' # Shape(r)'
  <2>0. pc[r] # "crashed"
    BY <1>0, <1>4, Closing
  <2>1. pc[r] # "idle"
    <3>1. SUFFICES ASSUME pc[r] = "idle", pc[r] \notin Returned
                   PROVE  FALSE
      BY DEF Returned
    <3> QED
      BY <1>4, <3>1, SuccessSource, <1>0 DEF CacheHit, updateTransaction, createRefund
  <2>2. input'[r] = input[r]
    BY <1>0, <2>1, InputsStep DEF InputsKept
  <2>3. \/ out'[r].id # Nil
        \/ \E q \in Id : Uses(q, k, m) /\ Shape(q) # Shape(r)
    <3>1. CASE pc[r] \in {"release", "done"}
      BY <1>0, <1>4, <2>2, <3>1, Closing DEF NamedInv
    <3>2. CASE pc[r] \notin {"release", "done"}
      BY <1>0, <1>4, <2>0, <2>2, <3>2, SuccessSource, SuccessNames DEF Returned
    <3> QED
      BY <3>1, <3>2
  <2>4. Shape(r)' = Shape(r)
    BY <2>2 DEF Shape
  <2> QED
    BY <1>1, <2>2, <2>3, <2>4
<1> QED
  BY <1>2, <1>3, <1>4 DEF NamedInv, Uses, Shape

(* NamedInv, and what it is preserved with, hold in every state.           *)
LEMMA NamedInvariance == Spec => [](Inv /\ ClaimInv /\ EndInv /\ PendingHeld /\ NamedInv)
<1>1. Init => EndInv /\ PendingHeld /\ NamedInv
  <2> SUFFICES ASSUME Init
               PROVE  EndInv /\ PendingHeld /\ NamedInv
    OBVIOUS
  <2>1. /\ DOMAIN idem = {} /\ bg = {}
        /\ \A r \in Id : pc[r] = "idle" /\ err[r] = "nil"
    BY DEF Init, RepositoryInit
  <2> QED
    BY <2>1 DEF EndInv, PendingHeld, NamedInv
<1>2. Inv /\ EndInv /\ PendingHeld /\ [Next]_vars => EndInv' /\ PendingHeld'
  BY EndStep, PendingHeldStep DEF Inv
<1> QED
  BY <1>1, <1>2, NamedStep, ClaimInvariance, PTL DEF Spec

(* When its key is kept, a success names a row.                            *)
LEMMA KeptNames ==
    ASSUME NamedInv, NEW r \in Id, Answered(r), err[r] = "nil",
           input[r].key # Nil, KeyKept(r)
    PROVE  out[r].id # Nil
<1>1. \/ out[r].id # Nil
      \/ \E q \in Id : /\ Uses(q, Parse[input[r].key], input[r].merchant)
                      /\ Shape(q) # Shape(r)
  BY DEF NamedInv, Answered
<1> QED
  BY <1>1 DEF Uses, KeyKept

(* An answer to an authorization or a charge names the transaction that    *)
(* has its idempotency key, when that key is kept.                         *)
LEMMA KeyNamesRow ==
    ASSUME Inv, ClaimInv, NEW r \in Id, NEW q \in Id, input[q] = input[r], KeyKept(r),
           input[r].op \notin {"capture", "void", "refund"}, out[q].id # Nil
    PROVE  out[q].id \in DOMAIN txs /\ txs[out[q].id].key = input[r].key
<1>0. BasicInv /\ RowInv /\ AnswersInv /\ DOMAIN txs \subseteq Id
  BY DEF Inv, ClaimInv, BasicInv, TypeOK, RepositoryTypeOK
<1> DEFINE t == out[q].id
<1>1. out[q].shape = "charge"
  BY <1>0 DEF AnswersInv, Shape
<1>2. AnswerOK(out[q], input[r].merchant) /\ KeyOK(out[q], Parse[input[r].key])
  BY <1>0 DEF AnswersInv
<1>3. /\ t \in DOMAIN txs /\ Parse[txs[t].key] = Parse[input[r].key]
      /\ txs[t].merchant = input[r].merchant
  BY <1>1, <1>2 DEF AnswerOK, KeyOK
<1>4. /\ t \in Id /\ pc[t] # "idle" /\ ~Locks(t)
      /\ txs[t].key = input[t].key /\ txs[t].merchant = input[t].merchant
  BY <1>0, <1>3 DEF RowInv
<1>5. input[t].key # Nil
  BY <1>0, <1>4, InputFacts, NilAssumption DEF BasicInv, StageInv, Locks, Op
<1> QED
  BY <1>3, <1>4, <1>5 DEF KeyKept

(* An answer to a refund names a row of refunds for the transaction it     *)
(* asked for, when its key is kept.                                        *)
LEMMA KeyNamesRefund ==
    ASSUME Inv, ClaimInv, NEW r \in Id, NEW q \in Id, input[q] = input[r], KeyKept(r),
           input[r].op = "refund", out[q].id # Nil
    PROVE  out[q].id \in DOMAIN refunds /\ refunds[out[q].id].tx = input[r].tx
<1>0. BasicInv /\ RefundsInv /\ AnswersInv /\ DOMAIN refunds \subseteq Id
  BY DEF Inv, ClaimInv, BasicInv, TypeOK, RepositoryTypeOK
<1> DEFINE a == out[q].id
<1>1. out[q].shape = "refund"
  BY <1>0 DEF AnswersInv, Shape
<1>2. AnswerOK(out[q], input[r].merchant) /\ KeyOK(out[q], Parse[input[r].key])
  BY <1>0 DEF AnswersInv
<1>3. /\ a \in DOMAIN refunds /\ Parse[input[a].key] = Parse[input[r].key]
      /\ refunds[a].merchant = input[r].merchant
  BY <1>1, <1>2 DEF AnswerOK, KeyOK
<1>4. /\ a \in Id /\ pc[a] # "idle" /\ input[a].op = "refund"
      /\ refunds[a].tx = input[a].tx /\ refunds[a].merchant = input[a].merchant
  BY <1>0, <1>3 DEF RefundsInv, ProcessingRow
<1>5. input[a].key # Nil
  BY <1>0, <1>4, InputFacts, NilAssumption DEF BasicInv, StageInv
<1> QED
  BY <1>3, <1>4, <1>5 DEF KeyKept

(* RetriesAgree, while no handler outlives its lock: all successful        *)
(* answers to the same operation of a merchant under a key it keeps for it *)
(* name one row, the same one, replays from idempotency_keys and duplicate *)
(* requests included.                                                      *)
THEOREM RetriesGiveOneAnswer ==
    ASSUME "slow" \notin Faults
    PROVE  Spec => []RetriesAgree
<1>1. Inv /\ ClaimInv /\ SerialInv /\ NamedInv => RetriesAgree
  <2> SUFFICES ASSUME Inv, ClaimInv, SerialInv, NamedInv, NEW r \in Id, NEW s \in Id,
                      Answered(r), err[r] = "nil", Answered(s), err[s] = "nil",
                      input[r] = input[s], input[r].key # Nil, KeyKept(r)
               PROVE  out[r].id = out[s].id /\ out[r].id # Nil
    BY DEF RetriesAgree
  <2>0. BasicInv /\ UniqueInv /\ AnswersInv /\ OneRefundRow
    BY DEF Inv, ClaimInv, SerialInv
  <2>1. KeyKept(s)
    BY DEF KeyKept, Shape
  <2>2. out[r].id # Nil /\ out[s].id # Nil
    BY <2>1, KeptNames
  <2>3. input[r].op \notin {"capture", "void"}
    BY <2>0, <2>2, InputFacts DEF AnswersInv, BasicInv, StageInv
  <2>4. CASE input[r].op = "refund"
    BY <2>0, <2>2, <2>4, KeyNamesRefund DEF OneRefundRow
  <2>5. CASE input[r].op # "refund"
    BY <2>0, <2>2, <2>3, <2>5, KeyNamesRow DEF UniqueInv
  <2> QED
    BY <2>2, <2>4, <2>5
<1> QED
  BY <1>1, SerialInvariance, NamedInvariance, PTL

-----------------------------------------------------------------------------
(* Rejections.                                                             *)

(* A pending transaction has no reference yet.                             *)
PendingRef == \A t \in DOMAIN txs : txs[t].status = "pending" => txs[t].ref = Nil

(* PendingRef is preserved.                                                *)
LEMMA PendingRefStep == Inv /\ PendingRef /\ [Next]_vars => PendingRef'
<1> SUFFICES ASSUME Inv, PendingRef, [Next]_vars,
                    NEW t \in DOMAIN txs', txs'[t].status = "pending"
             PROVE  txs'[t].ref = Nil
  BY DEF PendingRef
<1>0. BasicInv /\ RowInv /\ RepositoryTypeOK
  BY DEF Inv, BasicInv, TypeOK
<1>1. CASE t \in Id /\ saveTransaction(t) /\ txs'[t] = PendingRow(t)
  BY <1>1 DEF PendingRow
<1>2. CASE t \in DOMAIN txs /\ txs[t].status = "pending"
  <2>1. ASSUME NEW r \in Id, updateTransaction(r) \/ updateRefunded(r)
        PROVE  txs'[t] = txs[t]
    <3>1. CASE txs' = Updated(r)
      <4>1. To(r) # "pending"
        BY DEF To
      <4>2. ~(t = Target(r) /\ txs[t].status = From(r))
        BY <1>0, <1>2, <3>1, <4>1, UpdatedFacts DEF Matches
      <4> QED
        BY <1>0, <1>2, <3>1, <4>2, UpdatedFacts
    <3> QED
      BY <1>0, <2>1, <3>1, UpdateStep
  <2>2. ASSUME NEW r \in Id, callGatewayOk(r) \/ callGatewayErr(r)
        PROVE  txs' = txs
    BY <2>2 DEF callGatewayOk, callGatewayErr, tables
  <2>3. txs'[t] = txs[t]
    BY <1>0, <1>2, <2>1, <2>2, QuietOrNot, SaveFacts DEF Quiet
  <2> QED
    BY <1>2, <2>3 DEF PendingRef
<1> QED
  BY <1>1, <1>2, PendingBefore

(* A row keeps all but its status and its reference; a reference is        *)
(* written once, by the update that ends the pending status; and a failed  *)
(* transaction is not touched again.                                       *)
LEMMA RefKept ==
    ASSUME Inv, PendingRef, [Next]_vars, NEW t \in DOMAIN txs
    PROVE  /\ t \in DOMAIN txs'
           /\ txs'[t] = [txs[t] EXCEPT !.status = txs'[t].status, !.ref = txs'[t].ref]
           /\ txs[t].ref # Nil => txs'[t].ref = txs[t].ref
           /\ txs[t].status = "failed" => txs'[t] = txs[t]
<1>0. BasicInv /\ RowInv /\ RepositoryTypeOK /\ txs[t] \in TxRow
  BY DEF Inv, BasicInv, TypeOK, RepositoryTypeOK
<1>1. ASSUME t \in DOMAIN txs', txs'[t] = txs[t]
      PROVE  txs'[t] = [txs[t] EXCEPT !.status = txs'[t].status, !.ref = txs'[t].ref]
  BY <1>0, <1>1 DEF TxRow
<1>2. ASSUME NEW r \in Id, updateTransaction(r) \/ updateRefunded(r), txs' = Updated(r),
             t = Target(r), txs[t].status = From(r)
      PROVE  /\ t \in DOMAIN txs'
             /\ txs'[t] = [txs[t] EXCEPT !.status = txs'[t].status, !.ref = txs'[t].ref]
             /\ txs[t].ref # Nil => txs'[t].ref = txs[t].ref
             /\ txs[t].status # "failed"
  <2>1. txs[t].status # "failed"
    BY <1>2 DEF From
  <2>2. txs' = [txs EXCEPT ![t] = [txs[t] EXCEPT !.status = To(r),
                   !.ref = IF NewRef(r) = Nil THEN txs[t].ref ELSE NewRef(r)]]
    BY <1>0, <1>2 DEF Updated, UpdateByQuery, Matches, TxRow
  <2>3. /\ t \in DOMAIN txs'
        /\ txs'[t] = [txs[t] EXCEPT !.status = To(r),
                      !.ref = IF NewRef(r) = Nil THEN txs[t].ref ELSE NewRef(r)]
    BY <2>2
  <2>4. txs'[t] = [txs[t] EXCEPT !.status = txs'[t].status, !.ref = txs'[t].ref]
    BY <1>0, <2>3 DEF TxRow
  <2>5. txs'[t].ref = IF NewRef(r) = Nil THEN txs[t].ref ELSE NewRef(r)
    BY <1>0, <2>3 DEF TxRow
  <2>6. NewRef(r) # Nil => txs[t].ref = Nil
    <3>1. pc[r] = "update" /\ input[r].op \in Op
      BY <1>0, <1>2, UpdateStep, InputFacts DEF BasicInv, StageInv
    <3>2. NewRef(r) # Nil => From(r) = "pending"
      BY <3>1, FromFacts DEF NewRef
    <3> QED
      BY <1>2, <3>2 DEF PendingRef
  <2> QED
    BY <2>1, <2>3, <2>4, <2>5, <2>6
<1>3. ASSUME NEW r \in Id, updateTransaction(r) \/ updateRefunded(r),
             ~(txs' = Updated(r) /\ t = Target(r) /\ txs[t].status = From(r))
      PROVE  t \in DOMAIN txs' /\ txs'[t] = txs[t]
  BY <1>0, <1>3, UpdateStep, UpdatedFacts
<1>4. ASSUME NEW r \in Id, callGatewayOk(r) \/ callGatewayErr(r)
      PROVE  txs' = txs
  BY <1>4 DEF callGatewayOk, callGatewayErr, tables
<1>5. ASSUME NEW r \in Id, saveTransaction(r)
      PROVE  t \in DOMAIN txs' /\ txs'[t] = txs[t]
  BY <1>0, <1>5, SaveFacts
<1>6. \/ t \in DOMAIN txs' /\ txs'[t] = txs[t]
      \/ \E r \in Id : /\ updateTransaction(r) \/ updateRefunded(r)
                       /\ txs' = Updated(r) /\ t = Target(r) /\ txs[t].status = From(r)
  BY <1>3, <1>4, <1>5, QuietOrNot DEF Quiet
<1> QED
  BY <1>1, <1>2, <1>6

(* The rejection of an authorization or a charge comes with the update     *)
(* that records it.                                                        *)
LEMMA RejectionSource ==
    ASSUME BasicInv, [Next]_vars, NEW r \in Id,
           err'[r] = "ErrGatewayRejected", err[r] # "ErrGatewayRejected", ~Locks(r)
    PROVE  updateTransaction(r)
<1>0. err \in [Id -> Errors] /\ input[r].op # "refund"
  BY DEF BasicInv, TypeOK, Locks
<1>1. ASSUME NEW s \in Id, Handler(s), s # r
      PROVE  FALSE
  BY <1>0, <1>1
     DEF Handler, cachedIdempotency, callGateway, MustParsePanics, CacheHit, CacheMiss,
         tokenizeCardToGateway, saveTransaction, aquireLock, findTransaction,
         callGatewayPanics, callGatewayOk, callGatewayErr, updateTransaction,
         updateRefunded, createRefund, releaseLock, Return
<1>2. ~findTransaction(r)
  BY <1>0, RowErrFacts DEF findTransaction, Return
<1>3. CASE Handler(r)
  BY <1>0, <1>2, <1>3
     DEF Handler, cachedIdempotency, callGateway, MustParsePanics, CacheHit, CacheMiss,
         tokenizeCardToGateway, saveTransaction, aquireLock,
         callGatewayPanics, callGatewayOk, callGatewayErr,
         updateRefunded, createRefund, releaseLock, Return
<1>4. ~UNCHANGED err
  OBVIOUS
<1> QED
  BY <1>1, <1>3, <1>4 DEF Next, vars, locals, Arrive, saveIdempotency, expireIdempotency,
                          expireLock, crash

Rejection(r) == [shape |-> "charge", id |-> r, status |-> "failed"]

(* What a rejected authorization leaves: its row, failed, without a        *)
(* reference, and the output that says so, which its client does not get   *)
(* but which is stored for retries.                                        *)
RejectInv ==
    \A r \in Id : err[r] = "ErrGatewayRejected" /\ ~Locks(r) =>
        /\ r \in DOMAIN txs /\ txs[r].status = "failed" /\ txs[r].ref = Nil
        /\ out[r] = Rejection(r)

(* RejectInv is preserved.                                                 *)
LEMMA RejectStep ==
    Inv /\ EndInv /\ PendingHeld /\ PendingRef /\ RejectInv /\ [Next]_vars => RejectInv'
<1> SUFFICES ASSUME Inv, EndInv, PendingHeld, PendingRef, RejectInv, [Next]_vars,
                    NEW r \in Id, err'[r] = "ErrGatewayRejected", ~Locks(r)'
             PROVE  /\ r \in DOMAIN txs' /\ txs'[r].status = "failed" /\ txs'[r].ref = Nil
                    /\ out'[r] = Rejection(r)
  BY DEF RejectInv, Rejection
<1>0. BasicInv /\ RepositoryTypeOK /\ InputsKept
  BY InputsStep DEF Inv, BasicInv, TypeOK
<1>1. CASE err[r] = "ErrGatewayRejected"
  <2>1. pc[r] # "idle" /\ out'[r] = out[r]
    BY <1>0, <1>1, EndStep DEF EndInv, Returned
  <2>2. ~Locks(r)
    BY <1>0, <2>1 DEF InputsKept, Locks
  <2>3. r \in DOMAIN txs /\ txs[r].status = "failed" /\ txs[r].ref = Nil
        /\ out[r] = Rejection(r)
    BY <1>1, <2>2 DEF RejectInv
  <2>4. txs'[r] = txs[r] /\ r \in DOMAIN txs'
    BY <2>3, RefKept
  <2> QED
    BY <2>1, <2>3, <2>4
<1>2. CASE err[r] # "ErrGatewayRejected"
  <2>1. err'[r] # err[r] /\ pc'[r] \in Returned
    BY <1>0, <1>2, Closing DEF Returned
  <2>2. ASSUME pc[r] = "idle"
        PROVE  FALSE
    <3>1. \A s \in Id : Handler(s) => s # r
      BY <2>2 DEF Handler, cachedIdempotency, callGateway, MustParsePanics, CacheHit, CacheMiss,
         tokenizeCardToGateway, saveTransaction, aquireLock, findTransaction,
         callGatewayPanics, callGatewayOk, callGatewayErr, updateTransaction,
         updateRefunded, createRefund, releaseLock
    <3>2. \A s \in Id : Handler(s) /\ s # r => err'[r] = err[r]
      BY <1>0 DEF BasicInv, TypeOK, Handler, cachedIdempotency, callGateway, MustParsePanics,
         CacheHit, CacheMiss, tokenizeCardToGateway, saveTransaction, aquireLock, findTransaction,
         callGatewayPanics, callGatewayOk, callGatewayErr, updateTransaction,
         updateRefunded, createRefund, releaseLock, Return
    <3> QED
      BY <2>1, <3>1, <3>2 DEF Next, vars, locals, Arrive, saveIdempotency, expireIdempotency,
                              expireLock, crash
  <2>3. ~Locks(r)
    BY <1>0, <2>2 DEF InputsKept, Locks
  <2>4. updateTransaction(r)
    BY <1>0, <1>2, <2>3, RejectionSource
  <2>5. /\ txs' = Updated(r) /\ r \in DOMAIN txs' /\ txs'[r].status = To(r)
        /\ "ErrGatewayRejected" = UpdateErr(r)
        /\ out'[r] = [shape |-> "charge", id |-> r, status |-> To(r)]
    BY <2>3, <2>4, UpdateEndsPending
  <2>6. To(r) = "failed" /\ NewRef(r) = Nil
    BY <2>5 DEF UpdateErr, To, NewRef
  <2>7. Target(r) = r /\ From(r) = "pending" /\ Matches(r, "pending")
    <3>1. pc[r] = "update" /\ input[r].op \in Op
      BY <1>0, <2>4, UpdateStep, InputFacts DEF BasicInv, StageInv
    <3> QED
      BY <2>3, <3>1, FromFacts DEF PendingHeld, Target
  <2>8. txs'[r].ref = txs[r].ref /\ txs[r].ref = Nil
    BY <1>0, <2>5, <2>6, <2>7, UpdatedFacts DEF PendingRef, Matches
  <2> QED
    BY <2>5, <2>6, <2>8 DEF Rejection
<1> QED
  BY <1>1, <1>2

(* A response that promises an accepted authorization names a row with a   *)
(* reference.                                                              *)
Promise(o) ==
    o.shape # "refund" /\ o.status \in {"authorized", "captured", "voided"} =>
        txs[o.id].ref # Nil

PromiseInv ==
    /\ \A r \in Id : out[r].id # Nil => Promise(out[r])
    /\ \A k \in DOMAIN idem : idem[k].response.id # Nil => Promise(idem[k].response)

(* Promises are kept, since references are.                                *)
LEMMA PromiseKept ==
    ASSUME Inv, PendingRef, [Next]_vars, NEW o, NEW m, AnswerOK(o, m), Promise(o)
    PROVE  Promise(o)'
<1>1. CASE o.shape = "refund"
  BY <1>1 DEF Promise
<1>2. CASE o.shape # "refund"
  <2>1. o.id \in DOMAIN txs
    BY <1>2 DEF AnswerOK
  <2> QED
    BY <2>1, RefKept DEF Promise
<1> QED
  BY <1>1, <1>2

(* What an update answers is backed by its row.                            *)
LEMMA UpdatePromise ==
    ASSUME Inv, EvidenceInv', NEW r \in Id, updateTransaction(r), NEW o, o = out'[r], o.id # Nil
    PROVE  Promise(o)'
<1>0. /\ BasicInv /\ out \in [Id -> Output] /\ RepositoryTypeOK /\ NoOutput.id = Nil
      /\ DOMAIN txs \subseteq Id
  BY DEF Inv, BasicInv, TypeOK, RepositoryTypeOK, NoOutput
<1>1. o = UpdateOutput(r) /\ txs' = Updated(r) /\ DOMAIN txs' = DOMAIN txs
  BY <1>0, UpdateStep DEF updateTransaction, Return
<1>2. /\ Matches(Target(r), From(r)) /\ o.id = Target(r) /\ o.status = To(r)
      /\ o.id \in DOMAIN txs
  BY <1>1 DEF UpdateOutput, ReturnedId, Matches
<1>3. txs'[o.id].status = o.status
  BY <1>0, <1>1, <1>2, UpdatedFacts
<1>4. o.status \in {"authorized", "captured", "voided"} => txs'[o.id].ref = o.id
  BY <1>1, <1>2, <1>3 DEF EvidenceInv
<1> QED
  BY <1>0, <1>2, <1>4, NilAssumption DEF Promise

(* PromiseInv is preserved.                                                *)
LEMMA PromiseStep ==
    Inv /\ ClaimInv /\ PendingRef /\ PromiseInv /\ [Next]_vars => PromiseInv'
<1> SUFFICES ASSUME Inv, ClaimInv, PendingRef, PromiseInv, [Next]_vars
             PROVE  PromiseInv'
  OBVIOUS
<1>0. /\ BasicInv /\ AnswersInv /\ StoredInv /\ EvidenceInv'
      /\ out \in [Id -> Output] /\ NoOutput.id = Nil
  BY EvidenceStep DEF Inv, ClaimInv, BasicInv, TypeOK, NoOutput
<1>1. ASSUME NEW r \in Id, NEW o, o = out'[r], o.id # Nil
      PROVE  Promise(o)'
  <2>1. CASE o = out[r]
    <3>1. AnswerOK(o, input[r].merchant) /\ Promise(o)
      BY <1>0, <1>1, <2>1 DEF AnswersInv, PromiseInv
    <3> QED
      BY <3>1, PromiseKept
  <2>2. CASE CacheHit(r)
    <3> DEFINE k == Parse[input[r].key]
    <3>1. k \in DOMAIN idem /\ o = Unmarshal(idem[k].response, Shape(r)) /\ txs' = txs
      BY <1>0, <1>1, <2>2 DEF CacheHit, Return, FindByKeyAndMerchantID, tables
    <3>2. /\ o.shape = idem[k].response.shape /\ o.id = idem[k].response.id
          /\ o.status = idem[k].response.status
      BY <1>1, <3>1 DEF Unmarshal
    <3>3. Promise(idem[k].response)
      BY <1>1, <3>1, <3>2 DEF PromiseInv
    <3> QED
      BY <3>1, <3>2, <3>3 DEF Promise
  <2>3. CASE updateTransaction(r)
    BY <1>0, <1>1, <2>3, UpdatePromise
  <2>4. CASE createRefund(r)
    <3>1. o.shape = "refund"
      BY <1>0, <1>1, <2>4 DEF createRefund, Return
    <3> QED
      BY <3>1 DEF Promise
  <2> QED
    BY <1>0, <1>1, <2>1, <2>2, <2>3, <2>4, AnswerSource
<1>2. ASSUME NEW k \in DOMAIN idem', NEW o, o = idem'[k].response, o.id # Nil
      PROVE  Promise(o)'
  <2>1. CASE k \in DOMAIN idem /\ o = idem[k].response
    <3>1. AnswerOK(o, idem[k].merchant) /\ Promise(o)
      BY <1>0, <1>2, <2>1 DEF StoredInv, PromiseInv
    <3> QED
      BY <3>1, PromiseKept
  <2>2. ASSUME NEW r \in bg, o = out[r]
        PROVE  Promise(o)'
    <3>1. r \in Id
      BY <1>0 DEF BasicInv, TypeOK
    <3>2. AnswerOK(o, input[r].merchant) /\ Promise(o)
      BY <1>0, <1>2, <2>2, <3>1 DEF AnswersInv, PromiseInv
    <3> QED
      BY <3>2, PromiseKept
  <2> QED
    BY <1>0, <1>2, <2>1, <2>2, StoredSource
<1> QED
  BY <1>1, <1>2 DEF PromiseInv, Promise

(* RejectionsStick, under every fault: after a rejected authorization no   *)
(* other request under its key places a hold, and a retry that is answered *)
(* without an error, when the key is kept, is told that it has failed.     *)
THEOREM RejectionsAreFinal == Spec => []RejectionsStick
<1> DEFINE J == PendingRef /\ RejectInv /\ PromiseInv
<1>1. Init => J
  <2> SUFFICES ASSUME Init
               PROVE  J
    OBVIOUS
  <2>1. DOMAIN txs = {} /\ DOMAIN idem = {} /\ NoOutput.id = Nil
    BY DEF Init, RepositoryInit, NoOutput
  <2>2. \A r \in Id : out[r].id = Nil /\ err[r] = "nil"
    BY <2>1 DEF Init
  <2> QED
    BY <2>1, <2>2 DEF PendingRef, RejectInv, PromiseInv
<1>2. Inv /\ ClaimInv /\ EndInv /\ PendingHeld /\ J /\ [Next]_vars => J'
  BY PendingRefStep, RejectStep, PromiseStep
<1>3. Inv /\ ClaimInv /\ NamedInv /\ J => RejectionsStick
  <2> SUFFICES ASSUME Inv, ClaimInv, NamedInv, J, NEW r \in Id,
                      err[r] = "ErrGatewayRejected", ~Locks(r)
               PROVE  /\ \A e \in gw :
                            e.op = "authorize" /\ input[e.by].key = input[r].key => e.by = r
                      /\ KeyKept(r) =>
                            \A s \in Id :
                                Answered(s) /\ err[s] = "nil" /\ input[s] = input[r] =>
                                    out[s].id = r /\ out[s].status = "failed"
    BY DEF RejectionsStick
  <2>0. BasicInv /\ RowInv /\ UniqueInv /\ EffectInv /\ AnswersInv
    BY DEF Inv, ClaimInv
  <2>1. /\ r \in DOMAIN txs /\ txs[r].status = "failed" /\ txs[r].ref = Nil
        /\ txs[r].key = input[r].key /\ pc[r] # "idle"
    BY <2>0 DEF RejectInv, RowInv
  <2>2. input[r].op \notin {"capture", "void", "refund"} /\ input[r].key # Nil
    BY <2>0, <2>1, InputFacts, NilAssumption DEF BasicInv, StageInv, Locks, Op
  <2>3. ASSUME NEW e \in gw, e.op = "authorize", input[e.by].key = input[r].key
        PROVE  e.by = r
    <3>1. e.order = e.by /\ e.order \in DOMAIN txs
      BY <2>0, <2>3 DEF EffectInv, FindByIDAndMerchantID
    <3>2. txs[e.by].key = input[r].key
      BY <2>0, <2>3, <3>1 DEF RowInv
    <3> QED
      BY <2>0, <2>1, <3>1, <3>2 DEF UniqueInv
  <2>4. ASSUME KeyKept(r), NEW s \in Id, Answered(s), err[s] = "nil", input[s] = input[r]
        PROVE  out[s].id = r /\ out[s].status = "failed"
    <3>1. KeyKept(s)
      BY <2>4 DEF KeyKept, Shape
    <3>2. out[s].id # Nil
      BY <2>2, <2>4, <3>1, KeptNames
    <3>3. out[s].id \in DOMAIN txs /\ txs[out[s].id].key = input[r].key
      BY <2>2, <2>4, <3>2, KeyNamesRow
    <3>4. out[s].id = r
      BY <2>0, <2>1, <3>3 DEF UniqueInv
    <3>5. out[s].shape = "charge" /\ AnswerOK(out[s], input[s].merchant)
      BY <2>0, <2>2, <2>4, <3>2 DEF AnswersInv, Shape
    <3>6. out[s].status \in Outcome /\ "failed" \in Since(out[s].status)
      BY <2>1, <3>4, <3>5 DEF AnswerOK
    <3>7. out[s].status # "authorized"
      BY <2>1, <3>2, <3>4, <3>5 DEF PromiseInv, Promise
    <3>8. out[s].status = "failed"
      BY <3>6, <3>7 DEF Outcome, Since
    <3> QED
      BY <3>4, <3>8
  <2> QED
    BY <2>3, <2>4
<1> QED
  BY <1>1, <1>2, <1>3, NamedInvariance, PTL DEF Spec

-----------------------------------------------------------------------------
(* History.                                                                *)

(* A stored response is never replaced, and comes to life only once.       *)
LEMMA StoredKept ==
    ASSUME BasicInv, [Next]_vars, NEW k \in DOMAIN idem
    PROVE  /\ k \in DOMAIN idem'
           /\ idem'[k].merchant = idem[k].merchant
           /\ idem'[k].response = idem[k].response
           /\ idem'[k].live => idem[k].live
<1>0. RepositoryTypeOK
  BY DEF BasicInv, TypeOK
<1>1. ASSUME NEW r \in Id, saveIdempotency(r)
      PROVE  k \in DOMAIN idem' /\ idem'[k] = idem[k]
  BY <1>1 DEF saveIdempotency, Insert
<1>2. ASSUME NEW j \in Uuid, expireIdempotency(j)
      PROVE  /\ k \in DOMAIN idem'
             /\ idem'[k].merchant = idem[k].merchant
             /\ idem'[k].response = idem[k].response
             /\ idem'[k].live => idem[k].live
  BY <1>0, <1>2 DEF expireIdempotency, RepositoryTypeOK, IdemRow
<1>3. \/ UNCHANGED idem
      \/ \E r \in Id : saveIdempotency(r)
      \/ \E j \in Uuid : expireIdempotency(j)
  BY DEF Next, Handler, cachedIdempotency, callGateway, vars, tables, Arrive, MustParsePanics,
         CacheHit, CacheMiss, tokenizeCardToGateway, saveTransaction, aquireLock,
         findTransaction, callGatewayPanics, callGatewayOk, callGatewayErr,
         updateTransaction, updateRefunded, createRefund, releaseLock, expireLock, crash
<1> QED
  BY <1>1, <1>2, <1>3

(* HistoryKept, under every fault: no update rewrites what a transaction   *)
(* was made with or its reference, and no request rewrites a refund or the *)
(* response stored for another one.                                        *)
THEOREM HistoryIsKept == Spec => HistoryKept
<1>1. Init => PendingRef
  BY DEF Init, RepositoryInit, PendingRef
<1>2. Inv /\ PendingRef /\ [Next]_vars => PendingRef'
  BY PendingRefStep
<1> DEFINE Kept ==
        /\ \A t \in DOMAIN txs :
              /\ t \in DOMAIN txs'
              /\ txs'[t] = [txs[t] EXCEPT !.status = txs'[t].status, !.ref = txs'[t].ref]
              /\ txs[t].ref # Nil => txs'[t].ref = txs[t].ref
        /\ \A f \in DOMAIN refunds : f \in DOMAIN refunds' /\ refunds'[f] = refunds[f]
        /\ \A k \in DOMAIN idem :
              /\ k \in DOMAIN idem'
              /\ idem'[k].merchant = idem[k].merchant
              /\ idem'[k].response = idem[k].response
              /\ idem'[k].live => idem[k].live
<1>3. Inv /\ ClaimInv /\ PendingRef /\ [Next]_vars => [Kept]_vars
  BY RefKept, RefundsStep, StoredKept DEF Inv, ClaimInv
<1> QED
  BY <1>1, <1>2, <1>3, ClaimInvariance, PTL DEF Spec, HistoryKept
=============================================================================
