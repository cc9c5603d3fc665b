--------------------------- MODULE PaymentService ---------------------------
(***************************************************************************)
(* The payment service of internal/service: Authorize, Charge, Capture,    *)
(* Void and Refund run concurrently over the tables of Repository, the     *)
(* Redis lock of RedisLock and the third-party gateway.                    *)
(*                                                                         *)
(* Every request is a goroutine.  A step is one access to shared state (a  *)
(* query, a Redis command, a gateway call, the background save of an       *)
(* idempotency entry) with the local code around it; between two steps     *)
(* other requests run, the process may crash, and time passes.             *)
(*                                                                         *)
(* Stages of a request:                                                    *)
(*    authorize, charge   idem save gateway update              done       *)
(*    capture, void       lock read gateway update      release done       *)
(*    refund         idem lock read gateway update insert release done     *)
(***************************************************************************)
EXTENDS Repository, RedisLock

CONSTANTS
    Parse,      \* uuid.Parse: Nil on a header that is not a UUID
    Workload,   \* Workload[r]: the inputs request r may come with
    Faults      \* what the environment may do, a subset of FaultKinds

VARIABLES
    gw,         \* what the gateway has carried out (external)
    pc,         \* the stage each request is in
    input,      \* the input struct it was called with
    ref,        \* its tx.GatewayRef, as read from the row
    reply,      \* how its gateway call ended
    out, err,   \* what it returns
    bg          \* requests whose go saveIdempotency(...) has not finished

locals == <<pc, input, ref, reply, out, err>>
vars == <<txs, idem, refunds, lock, gw, pc, input, ref, reply, out, err, bg>>

(* "slow": a handler may outlive the 5 s TTL of its lock; "crash": the     *)
(* process may stop and start again; "db", "redis": a statement or command *)
(* may fail, possibly after it took effect; "gateway": the gateway may     *)
(* carry out a call and the answer be lost (a timeout, an empty response). *)
FaultKinds == {"slow", "crash", "db", "redis", "gateway"}

Op == {"authorize", "charge", "capture", "void", "refund"}

(* ChargeInput, CaptureInput and VoidInput, RefundInput.  RefundInput's    *)
(* key has been parsed by the caller, so it is a header that is a UUID.    *)
Input ==
    [op : {"authorize", "charge"}, merchant : Merchant, key : RawKey, tx : {Nil}]
    \cup [op : {"capture", "void"}, merchant : Merchant, key : {Nil}, tx : Id]
    \cup [op : {"refund"}, merchant : Merchant,
          key : {k \in RawKey : Parse[k] # Nil}, tx : Id]

NoInput == [op |-> "none", merchant |-> Nil, key |-> Nil, tx |-> Nil]

Stage == {"idle", "idem", "save", "lock", "read", "gateway", "update", "insert",
          "release", "done", "crashed"}

GatewayOp == {"authorize", "capture", "void", "refund"}

Effect == [op : GatewayOp, order : Id, by : Id]

ASSUME ParseAssumption == Parse \in [RawKey -> Uuid \cup {Nil}]
ASSUME NilAssumption == Nil \notin Id \cup Uuid \cup RawKey \cup Merchant
ASSUME WorkloadAssumption == Workload \in [Id -> SUBSET Input]
ASSUME FaultsAssumption == Faults \subseteq FaultKinds

Init ==
    /\ RepositoryInit
    /\ LockInit
    /\ gw = {}
    /\ pc = [r \in Id |-> "idle"]
    /\ input = [r \in Id |-> NoInput]
    /\ ref = [r \in Id |-> Nil]
    /\ reply = [r \in Id |-> "none"]
    /\ out = [r \in Id |-> NoOutput]
    /\ err = [r \in Id |-> "nil"]
    /\ bg = {}

TypeOK ==
    /\ RepositoryTypeOK
    /\ LockTypeOK
    /\ gw \subseteq Effect
    /\ pc \in [Id -> Stage]
    /\ input \in [Id -> Input \cup {NoInput}]
    /\ ref \in [Id -> Id \cup {Nil}]
    /\ reply \in [Id -> {"none", "ok", "err"}]
    /\ out \in [Id -> Output]
    /\ err \in [Id -> Errors]
    /\ bg \subseteq Id

-----------------------------------------------------------------------------
(* Helpers on a request r.                                                 *)

Locks(r) == input[r].op \in {"capture", "void", "refund"}

(* The transaction the request is about: the one it inserts, or the one it *)
(* names.                                                                  *)
Target(r) == IF Locks(r) THEN input[r].tx ELSE r

(* Between a successful aquireLock and the deferred Release.               *)
InCritical(r) ==
    Locks(r) /\ pc[r] \in {"read", "gateway", "update", "insert", "release"}

InFlight(r) == pc[r] \notin {"idle", "done", "crashed"}

Goto(r, stage) == pc' = [pc EXCEPT ![r] = stage]

(* Mutant of Return: the Release is not deferred.                          *)
ReturnUnreleased(r, e, o) ==
    /\ Goto(r, "done")
    /\ err' = [err EXCEPT ![r] = e]
    /\ out' = [out EXCEPT ![r] = o]

(* return o, e: a handler that holds the lock first runs its defer.        *)
Return(r, e, o) ==
    /\ Goto(r, IF InCritical(r) THEN "release" ELSE "done")
    /\ err' = [err EXCEPT ![r] = e]
    /\ out' = [out EXCEPT ![r] = o]

(* The stored response as json.Unmarshal reads it into an output struct:   *)
(* both structs have a status, but their ids have different names.         *)
Unmarshal(o, shape) ==
    [shape |-> shape, id |-> IF o.shape = shape THEN o.id ELSE Nil, status |-> o.status]

Shape(r) == IF input[r].op = "refund" THEN "refund" ELSE "charge"

-----------------------------------------------------------------------------
(* A request arrives with one of the inputs its workload allows.           *)
Arrive(r) ==
    /\ pc[r] = "idle"
    /\ \E i \in Workload[r] :
          /\ input' = [input EXCEPT ![r] = i]
          /\ Goto(r, IF i.op \in {"capture", "void"} THEN "lock" ELSE "idem")
    /\ UNCHANGED <<tables, lock, gw, ref, reply, out, err, bg>>

(* uuid.MustParse panics on a header that is not a UUID.                   *)
MustParsePanics(r) ==
    /\ pc[r] = "idem"
    /\ Parse[input[r].key] = Nil
    /\ Return(r, "panic", NoOutput)
    /\ UNCHANGED <<tables, lock, gw, input, ref, reply, bg>>

CacheHit(r) ==
    /\ pc[r] = "idem"
    /\ FindByKeyAndMerchantID(Parse[input[r].key], input[r].merchant)
    /\ Return(r, "nil", Unmarshal(idem[Parse[input[r].key]].response, Shape(r)))
    /\ UNCHANGED <<tables, lock, gw, input, ref, reply, bg>>

(* A failing query counts as a miss.                                       *)
CacheMiss(r) ==
    /\ pc[r] = "idem"
    /\ Parse[input[r].key] # Nil
    /\ \/ ~FindByKeyAndMerchantID(Parse[input[r].key], input[r].merchant)
       \/ "db" \in Faults
    /\ Goto(r, IF Locks(r) THEN "lock" ELSE "save")
    /\ UNCHANGED <<tables, lock, gw, input, ref, reply, out, err, bg>>

cachedIdempotency(r) == MustParsePanics(r) \/ CacheHit(r) \/ CacheMiss(r)

(* The card is refused before anything is stored.                          *)
tokenizeCardToGateway(r) ==
    /\ pc[r] = "save"
    /\ Return(r, "ErrTokenizeCard", NoOutput)
    /\ UNCHANGED <<tables, lock, gw, input, ref, reply, bg>>

(* Mutant of PendingRow: the operation instead of the payment type.        *)
PendingRowOpAsType(r) ==
    [merchant |-> input[r].merchant, key |-> input[r].key, type |-> input[r].op,
     status |-> "pending", ref |-> Nil]

PendingRow(r) ==
    [merchant |-> input[r].merchant, key |-> input[r].key,
     type |-> IF input[r].op = "charge" THEN "direct_charge" ELSE "authorize_capture",
     status |-> "pending", ref |-> Nil]

(* The card is tokenized and the transaction inserted as pending, unless   *)
(* its idempotency key is taken or the statement fails.                    *)
saveTransaction(r) ==
    /\ pc[r] = "save"
    /\ \/ /\ KeyTaken(input[r].key)
          /\ Return(r, "ErrDuplicateIdempotencyKey", NoOutput)
          /\ UNCHANGED txs
       \/ /\ ~KeyTaken(input[r].key)
          /\ txs' = Insert(txs, r, PendingRow(r))
          /\ Goto(r, "gateway")
          /\ UNCHANGED <<out, err>>
       \/ /\ "db" \in Faults
          /\ \/ UNCHANGED txs
             \/ ~KeyTaken(input[r].key) /\ txs' = Insert(txs, r, PendingRow(r))
          /\ Return(r, "dbError", NoOutput)
    /\ UNCHANGED <<idem, refunds, lock, gw, input, ref, reply, bg>>

(* A Redis failure may come after the key was set: then nobody releases    *)
(* the lock and only its TTL removes it.                                   *)
aquireLock(r) ==
    /\ pc[r] = "lock"
    /\ \/ /\ Acquired(input[r].tx, r)
          /\ Goto(r, "read")
          /\ UNCHANGED <<out, err>>
       \/ /\ Refused(input[r].tx)
          /\ Return(r, "redis.Nil", NoOutput)
       \/ /\ "redis" \in Faults
          /\ Acquired(input[r].tx, r) \/ UNCHANGED lock
          /\ Return(r, "redisError", NoOutput)
    /\ UNCHANGED <<tables, gw, input, ref, reply, bg>>

(* Mutant of TxAuthorizedErr: the status is not looked at.                 *)
TxAuthorizedErrNoStatus(row) == IF row.ref = Nil THEN "ErrInvalidGatewayRef" ELSE "nil"

(* What getTxAuthorized makes of the row it found.                         *)
TxAuthorizedErr(row) ==
    IF row.ref = Nil THEN "ErrInvalidGatewayRef"
    ELSE IF row.status # "authorized" THEN "ErrTransactionNotCapturable"
    ELSE "nil"

(* Void looks at the row once more after getTxAuthorized has accepted it.  *)
VoidErr(row) ==
    IF TxAuthorizedErr(row) # "nil" THEN TxAuthorizedErr(row)
    ELSE IF row.status = "voided" THEN "ErrTransactionAlreadyVoided"
    ELSE "nil"

(* Mutant of RefundErr: a refunded transaction may be refunded again.      *)
RefundErrAgain(row) ==
    IF row.status \in {"captured", "refunded"} THEN "nil" ELSE "ErrTransactionNotRefundable"

RefundErr(row) ==
    CASE row.status = "refunded"  -> "ErrTransactionAlreadyRefunded"
      [] row.status = "captured"  -> "nil"
      [] OTHER                    -> "ErrTransactionNotRefundable"

RowErr(r, row) ==
    CASE input[r].op = "capture" -> TxAuthorizedErr(row)
      [] input[r].op = "void"    -> VoidErr(row)
      [] OTHER                   -> RefundErr(row)

(* getTxAuthorized answers any failure of the query, an absent row         *)
(* included, with ErrTransactionNotFound; Refund passes the error on.      *)
findTransaction(r) ==
    /\ pc[r] = "read"
    /\ \/ /\ FindByIDAndMerchantID(input[r].tx, input[r].merchant)
          /\ RowErr(r, txs[input[r].tx]) = "nil"
          /\ ref' = [ref EXCEPT ![r] = txs[input[r].tx].ref]
          /\ Goto(r, "gateway")
          /\ UNCHANGED <<out, err>>
       \/ /\ FindByIDAndMerchantID(input[r].tx, input[r].merchant)
          /\ RowErr(r, txs[input[r].tx]) # "nil"
          /\ Return(r, RowErr(r, txs[input[r].tx]), NoOutput)
          /\ UNCHANGED ref
       \/ /\ ~FindByIDAndMerchantID(input[r].tx, input[r].merchant)
          /\ Return(r, IF input[r].op = "refund" THEN "gorm.ErrRecordNotFound"
                       ELSE "ErrTransactionNotFound", NoOutput)
          /\ UNCHANGED ref
       \/ /\ "db" \in Faults
          /\ Return(r, IF input[r].op = "refund" THEN "dbError"
                       ELSE "ErrTransactionNotFound", NoOutput)
          /\ UNCHANGED ref
    /\ UNCHANGED <<tables, lock, gw, input, reply, bg>>

-----------------------------------------------------------------------------
(* The gateway call.  The gateway knows an authorization, a capture and a  *)
(* void by OrderID; RefundRequest carries the gateway reference alone.     *)
EffectOf(r) ==
    [op |-> IF input[r].op = "charge" THEN "capture" ELSE input[r].op,
     order |-> IF input[r].op = "refund" THEN ref[r] ELSE Target(r),
     by |-> r]

(* *tx.GatewayRef: every call but Authorize dereferences the pointer while *)
(* it builds the request.  Charge has just inserted its row without one.   *)
DereferencesNil(r) == input[r].op # "authorize" /\ ref[r] = Nil

callGatewayPanics(r) ==
    /\ pc[r] = "gateway"
    /\ DereferencesNil(r)
    /\ Return(r, "panic", NoOutput)
    /\ UNCHANGED <<tables, lock, gw, input, ref, reply, bg>>

callGatewayOk(r) ==
    /\ pc[r] = "gateway"
    /\ ~DereferencesNil(r)
    /\ gw' = gw \cup {EffectOf(r)}
    /\ reply' = [reply EXCEPT ![r] = "ok"]
    /\ Goto(r, "update")
    /\ UNCHANGED <<tables, lock, input, ref, out, err, bg>>

(* An error or an empty response.  Refund returns it; the other handlers   *)
(* go on to record the transaction as failed.                              *)
callGatewayErr(r) ==
    /\ pc[r] = "gateway"
    /\ ~DereferencesNil(r)
    /\ \E e \in {"ErrGatewayRejected", "context.DeadlineExceeded"} :
          /\ \/ UNCHANGED gw
             \/ "gateway" \in Faults /\ gw' = gw \cup {EffectOf(r)}
          /\ reply' = [reply EXCEPT ![r] = "err"]
          /\ IF input[r].op = "refund"
             THEN Return(r, e, NoOutput)
             ELSE Goto(r, "update") /\ UNCHANGED <<out, err>>
    /\ UNCHANGED <<tables, lock, input, ref, bg>>

callGateway(r) == callGatewayPanics(r) \/ callGatewayOk(r) \/ callGatewayErr(r)

-----------------------------------------------------------------------------
(* Mutant of From: Authorize updates WHERE status = authorized.            *)
FromAuthorized(r) == IF input[r].op = "refund" THEN "captured" ELSE "authorized"

(* The update that records the outcome.                                    *)
From(r) ==
    CASE input[r].op \in {"authorize", "charge"} -> "pending"
      [] input[r].op \in {"capture", "void"}     -> "authorized"
      [] OTHER                                   -> "captured"

To(r) ==
    IF reply[r] # "ok" THEN "failed"
    ELSE CASE input[r].op = "authorize"              -> "authorized"
           [] input[r].op \in {"charge", "capture"}  -> "captured"
           [] input[r].op = "void"                   -> "voided"
           [] OTHER                                  -> "refunded"

(* Authorize and Charge store the reference of an accepted call.           *)
NewRef(r) == IF reply[r] = "ok" /\ ~Locks(r) THEN r ELSE Nil

Updated(r) == UpdateByQuery(Target(r), From(r), To(r), NewRef(r))

(* gorm has written the new status into the struct it returns, whether or  *)
(* not a row matched.                                                      *)
UpdateOutput(r) ==
    [shape |-> "charge", id |-> ReturnedId(Target(r), From(r)), status |-> To(r)]

(* Mutant of UpdateErr: an update that matched no row is refused.          *)
UpdateErrUnmatched(r) ==
    IF ~Matches(Target(r), From(r)) THEN "ErrTransactionNotCapturable"
    ELSE IF To(r) = "failed" THEN "ErrGatewayRejected" ELSE "nil"

UpdateErr(r) == IF To(r) = "failed" THEN "ErrGatewayRejected" ELSE "nil"

(* Authorize and Charge, Capture and Void: update, build the output, and   *)
(* in the first two start the background save of the idempotency entry.    *)
updateTransaction(r) ==
    /\ pc[r] = "update"
    /\ input[r].op # "refund"
    /\ \/ /\ txs' = Updated(r)
          /\ Return(r, UpdateErr(r), UpdateOutput(r))
          /\ bg' = IF Locks(r) THEN bg ELSE bg \cup {r}
       \/ /\ "db" \in Faults
          /\ txs' \in {txs, Updated(r)}
          /\ Return(r, "dbError", NoOutput)
          /\ UNCHANGED bg
    /\ UNCHANGED <<idem, refunds, lock, gw, input, ref, reply>>

(* createRefundAndUpdateTx, first statement: whether a row matched is not  *)
(* looked at.                                                              *)
updateRefunded(r) ==
    /\ pc[r] = "update"
    /\ input[r].op = "refund"
    /\ \/ /\ txs' = Updated(r)
          /\ Goto(r, "insert")
          /\ UNCHANGED <<out, err>>
       \/ /\ "db" \in Faults
          /\ txs' \in {txs, Updated(r)}
          /\ Return(r, "dbError", NoOutput)
    /\ UNCHANGED <<idem, refunds, lock, gw, input, ref, reply, bg>>

ProcessingRow(r) ==
    [merchant |-> input[r].merchant, tx |-> input[r].tx, status |-> "processing"]

(* createRefundAndUpdateTx, second statement, and the rest of Refund.      *)
createRefund(r) ==
    /\ pc[r] = "insert"
    /\ \/ /\ refunds' = Insert(refunds, r, ProcessingRow(r))
          /\ Return(r, "nil", [shape |-> "refund", id |-> r, status |-> "processing"])
          /\ bg' = bg \cup {r}
       \/ /\ "db" \in Faults
          /\ refunds' \in {refunds, Insert(refunds, r, ProcessingRow(r))}
          /\ Return(r, "dbError", NoOutput)
          /\ UNCHANGED bg
    /\ UNCHANGED <<txs, idem, lock, gw, input, ref, reply>>

(* The deferred Release; its failure is only logged.                       *)
releaseLock(r) ==
    /\ pc[r] = "release"
    /\ \/ lock' = Released(input[r].tx, r)
       \/ "redis" \in Faults /\ UNCHANGED lock
    /\ Goto(r, "done")
    /\ UNCHANGED <<tables, gw, input, ref, reply, out, err, bg>>

-----------------------------------------------------------------------------
(* The goroutine behind a response: the entry is stored unless its key is  *)
(* present (also when it has expired, or belongs to another merchant) or   *)
(* the statement fails.                                                    *)
saveIdempotency(r) ==
    /\ r \in bg
    /\ bg' = bg \ {r}
    /\ LET k == Parse[input[r].key]
           row == [merchant |-> input[r].merchant, response |-> out[r], live |-> TRUE]
       IN  \/ k \notin DOMAIN idem /\ idem' = Insert(idem, k, row)
           \/ k \in DOMAIN idem /\ UNCHANGED idem
           \/ "db" \in Faults /\ UNCHANGED idem
    /\ UNCHANGED <<txs, refunds, lock, gw, locals>>

(* 24 hours pass.                                                          *)
expireIdempotency(k) ==
    /\ k \in DOMAIN idem
    /\ idem[k].live
    /\ idem' = [idem EXCEPT ![k] = [idem[k] EXCEPT !.live = FALSE]]
    /\ UNCHANGED <<txs, refunds, lock, gw, locals, bg>>

(* 5 seconds pass since the lock was set.  Its holder has finished by      *)
(* then, unless handlers may be slow.                                      *)
expireLock(t) ==
    /\ Expired(t)
    /\ InFlight(lock[t]) => "slow" \in Faults
    /\ UNCHANGED <<tables, gw, locals, bg>>

(* The process dies and is started again: goroutines are gone, PostgreSQL, *)
(* Redis and the gateway keep what they have.                              *)
crash ==
    /\ "crash" \in Faults
    /\ bg # {} \/ \E r \in Id : InFlight(r)
    /\ pc' = [r \in Id |-> IF InFlight(r) THEN "crashed" ELSE pc[r]]
    /\ bg' = {}
    /\ UNCHANGED <<tables, lock, gw, input, ref, reply, out, err>>

(* The steps the handler goroutine of r takes.                             *)
Handler(r) ==
    \/ cachedIdempotency(r) \/ tokenizeCardToGateway(r) \/ saveTransaction(r)
    \/ aquireLock(r) \/ findTransaction(r) \/ callGateway(r)
    \/ updateTransaction(r) \/ updateRefunded(r) \/ createRefund(r)
    \/ releaseLock(r)

Next ==
    \/ \E r \in Id : Arrive(r) \/ Handler(r) \/ saveIdempotency(r)
    \/ \E k \in Uuid : expireIdempotency(k)
    \/ \E t \in Id : expireLock(t)
    \/ crash

Spec == Init /\ [][Next]_vars

(* Goroutines that can run do run, calls to PostgreSQL, Redis and the      *)
(* gateway return, and Redis drops a key whose TTL has passed.  Clients    *)
(* owe nothing.                                                            *)
Fairness ==
    /\ \A r \in Id : WF_vars(Handler(r)) /\ WF_vars(saveIdempotency(r))
    /\ \A t \in Id : WF_vars(expireLock(t))

FairSpec == Spec /\ Fairness

-----------------------------------------------------------------------------
(* Properties.                                                             *)

Answered(r) == pc[r] = "done"

(* The stored statuses and the gateway's books implement PaymentLedger:    *)
(* the guarded updates of Authorize, Capture, Void and Refund keep every   *)
(* transaction on its lifecycle, and record only what the gateway did, in  *)
(* every interleaving and under every fault.                               *)
Ledger == INSTANCE PaymentLedger WITH
    Tx <- Id,
    ledger <- [t \in DOMAIN txs |-> txs[t].status],
    effects <- {<<e.op, e.order>> : e \in gw}

LedgerSpec == Ledger!Spec

(* However often a client sends the same Idempotency-Key to Authorize, and *)
(* whatever is lost in between, the gateway places at most one hold for    *)
(* it: the unique key column is written before the gateway is called.      *)
OneHoldPerKey ==
    \A e, f \in gw :
        /\ e.op = "authorize" /\ f.op = "authorize"
        /\ input[e.by].key = input[f.by].key
        => e = f

(* The gateway is asked to capture, void or refund a transaction only on   *)
(* behalf of the merchant that owns it: the row is looked up by id and     *)
(* merchant after the lock is taken, and used after other steps.           *)
OwnTransactionsOnly ==
    \A e \in gw : e.order \in DOMAIN txs /\ txs[e.order].merchant = input[e.by].merchant

(* Refund dereferences tx.GatewayRef without the nil check of              *)
(* getTxAuthorized.  It never panics: a captured row has a reference.      *)
(* Only Charge, and a key that is not a UUID, make a handler panic.        *)
PanicsOnlyInCharge ==
    \A r \in Id : err[r] = "panic" =>
        input[r].op = "charge" \/ Parse[input[r].key] = Nil

(* The statuses a transaction may have once it has been reported as s.     *)
Since(s) ==
    CASE s = "authorized" -> {"authorized", "captured", "voided", "refunded", "failed"}
      [] s = "captured"   -> {"captured", "refunded"}
      [] OTHER            -> {s}

(* The status that records an effect.                                      *)
Recorded == [authorize |-> "authorized", capture |-> "captured", void |-> "voided",
             refund |-> "refunded"]

(* A success response that names a transaction or a refund, fresh or       *)
(* replayed from idempotency_keys, names one of the caller's own, and the  *)
(* status it reports is one the transaction has really reached: no crash,  *)
(* retry or late update takes back what a client was told.                 *)
ResponsesHold ==
    \A r \in Id : Answered(r) /\ err[r] = "nil" /\ out[r].id # Nil =>
        IF out[r].shape = "refund"
        THEN /\ out[r].id \in DOMAIN refunds
             /\ refunds[out[r].id].merchant = input[r].merchant
             /\ txs[refunds[out[r].id].tx].status = "refunded"
        ELSE /\ out[r].id \in DOMAIN txs
             /\ txs[out[r].id].merchant = input[r].merchant
             /\ txs[out[r].id].status \in Since(out[r].status)

(* The merchant uses the key of request r for nothing else: in one         *)
(* spelling only, either for Authorize and Charge or for Refund, and then  *)
(* for one transaction only.  What other merchants do is up to them.       *)
KeyKept(r) ==
    \A q \in Id :
        /\ input[q].key # Nil /\ input[q].merchant = input[r].merchant
        /\ Parse[input[q].key] = Parse[input[r].key]
        => Shape(q) = Shape(r) /\ input[q].key = input[r].key /\ input[q].tx = input[r].tx

(* Two successful answers to the same operation of a merchant with the     *)
(* same idempotency key (and, for Refund, the same transaction) name the   *)
(* same transaction or refund, and never none, whether they come from the  *)
(* handler or from the stored response: also when other merchants use the  *)
(* key.  When the merchant itself uses it for Refund as well as for        *)
(* Authorize they need not: the stored response of the one, read into the  *)
(* output of the other, has no id.                                         *)
RetriesAgree ==
    \A r, s \in Id :
        /\ Answered(r) /\ err[r] = "nil" /\ Answered(s) /\ err[s] = "nil"
        /\ input[r] = input[s] /\ input[r].key # Nil /\ KeyKept(r)
        => out[r].id = out[s].id /\ out[r].id # Nil

(* While no handler outlives its lock, at most one request at a time is    *)
(* between aquireLock and Release on a transaction, even when Redis fails  *)
(* or the process crashes with the lock held.                              *)
OneInCritical ==
    \A r, s \in Id : InCritical(r) /\ InCritical(s) /\ input[r].tx = input[s].tx => r = s

(* A transaction is refunded at most once in the books: the second INSERT  *)
(* into refunds is prevented by the lock and by the status read under it,  *)
(* although updateRefunded does not look at the rows it affected.          *)
OneRefundRow ==
    \A a, b \in DOMAIN refunds : refunds[a].tx = refunds[b].tx => a = b

(* A request that went through, or is still going: the process did not die *)
(* under it, no statement failed on it, and the answer of the gateway, if  *)
(* it acted, was not lost.                                                 *)
Whole(r) == pc[r] # "crashed" /\ err[r] # "dbError" /\ reply[r] # "err"

(* The gateway captures or voids a transaction at most once in all, and    *)
(* refunds it at most once, except on behalf of a request that was cut     *)
(* short after its gateway call or never heard of it: in particular not    *)
(* because a lock was left behind or lost.                                 *)
SettledOnce ==
    \A e, f \in gw :
        /\ e.order = f.order
        /\ \/ e.op \in {"capture", "void"} /\ f.op \in {"capture", "void"}
           \/ e.op = "refund" /\ f.op = "refund"
        /\ Whole(e.by) /\ Whole(f.by)
        => e = f

(* Money and books agree: once a request has been answered without a 500   *)
(* of the database, what the gateway did for it, and told it of, is the    *)
(* stored status, or was until a later operation moved it on.              *)
EffectsRecorded ==
    \A e \in gw : Answered(e.by) /\ Whole(e.by) =>
        txs[e.order].status \in Since(Recorded[e.op])

(* A transaction that stays pending has a reason: its request is still to  *)
(* hear from the gateway or to record what it heard, or died, failed on    *)
(* the database, or is a charge that panicked.  No rejected, overtaken or  *)
(* repeated authorization leaves one behind.                               *)
PendingAccounted ==
    \A t \in DOMAIN txs : txs[t].status = "pending" =>
        \/ pc[t] \in {"gateway", "update", "crashed"}
        \/ err[t] = "dbError"
        \/ err[t] = "panic" /\ input[t].op = "charge"

(* The two statements of createRefundAndUpdateTx tell one story, although  *)
(* no transaction holds them together and the first may match nothing: a   *)
(* refund row is about a refunded transaction of the same merchant, and a  *)
(* refunded transaction has a refund row unless the request that refunded  *)
(* it is just about to insert it, or was cut short.                        *)
RefundsBooked ==
    /\ \A f \in DOMAIN refunds :
          /\ refunds[f].tx \in DOMAIN txs
          /\ txs[refunds[f].tx].status = "refunded"
          /\ txs[refunds[f].tx].merchant = refunds[f].merchant
    /\ \A t \in DOMAIN txs : txs[t].status = "refunded" =>
          \/ \E f \in DOMAIN refunds : refunds[f].tx = t
          \/ \E e \in gw : /\ e.op = "refund" /\ e.order = t
                          /\ \/ pc[e.by] \in {"insert", "crashed"}
                             \/ err[e.by] = "dbError"

(* A lock that is set belongs to a request for its transaction that is in  *)
(* its critical section, or died there: every return of every handler runs *)
(* the deferred Release.  Only a Redis that fails leaves others behind.    *)
LocksAccounted ==
    \A t \in Id : lock[t] # Nil =>
        LET r == lock[t]
        IN  /\ Locks(r) /\ input[r].tx = t
            /\ \/ InCritical(r) \/ pc[r] = "crashed"
               \/ "redis" \in Faults /\ pc[r] = "done"

(* The errors of a request that was turned away: all but those of a        *)
(* gateway call and of the database.                                       *)
TurnedAway(r) ==
    err[r] \notin {"nil", "ErrGatewayRejected", "context.DeadlineExceeded", "dbError", "panic"}

(* A request that was turned away has done nothing: no gateway call, no    *)
(* row, nothing to be stored for its retries.  That includes the request   *)
(* that found the lock taken, which is answered 500.                       *)
RefusedUntouched ==
    \A r \in Id : TurnedAway(r) =>
        /\ \A e \in gw : e.by # r
        /\ r \notin DOMAIN txs /\ r \notin DOMAIN refunds /\ r \notin bg

(* A rejection is final: once an authorization has been answered with      *)
(* ErrGatewayRejected, no other request under its key places a hold, and   *)
(* a retry that is answered without an error is told that this very        *)
(* transaction has failed, never that another attempt went through.  The   *)
(* two answers are not the same one: the handler drops the output that     *)
(* comes with an error, so the rejected client has only seen the error.    *)
RejectionsStick ==
    \A r \in Id : Answered(r) /\ err[r] = "ErrGatewayRejected" /\ ~Locks(r) =>
        /\ \A e \in gw :
              e.op = "authorize" /\ input[e.by].key = input[r].key => e.by = r
        /\ KeyKept(r) =>
              \A s \in Id : Answered(s) /\ err[s] = "nil" /\ input[s] = input[r] =>
                  out[s].id = r /\ out[s].status = "failed"

(* Nothing that was recorded is rewritten, although updates name a row by  *)
(* id and status only and hand gorm a struct that is mostly empty: a       *)
(* transaction keeps its owner, key, type and, once it has one, its        *)
(* gateway reference; rows of refunds stay as they are; and a stored       *)
(* response is replaced by no other request, not even after 24 hours.      *)
HistoryKept ==
    [][/\ \A t \in DOMAIN txs :
             /\ t \in DOMAIN txs'
             /\ txs'[t] = [txs[t] EXCEPT !.status = txs'[t].status, !.ref = txs'[t].ref]
             /\ txs[t].ref # Nil => txs'[t].ref = txs[t].ref
       /\ \A f \in DOMAIN refunds : f \in DOMAIN refunds' /\ refunds'[f] = refunds[f]
       /\ \A k \in DOMAIN idem :
             /\ k \in DOMAIN idem'
             /\ idem'[k].merchant = idem[k].merchant
             /\ idem'[k].response = idem[k].response
             /\ idem'[k].live => idem[k].live]_vars

(* A handler that outlived its lock does not release the lock of the next  *)
(* one: the release script deletes the key only under the caller's value.  *)
OnlyOwnLockReleased ==
    [][\A r, t \in Id :
          pc[r] = "release" /\ pc'[r] = "done" /\ lock[t] # r => lock'[t] = lock[t]]_vars

(* The lock of a transaction always becomes free again: by Release, or by  *)
(* its TTL when Release failed, when the reply to SET was lost, or when    *)
(* the process crashed with the lock held.                                 *)
LockFreed == \A t \in Id : lock[t] # Nil ~> lock[t] = Nil

(* A stored transaction leaves pending, by the update that follows the     *)
(* gateway call, unless the process died under the request that made it.   *)
PendingResolved ==
    \A t \in Id :
        Matches(t, "pending") ~> ~Matches(t, "pending") \/ pc[t] = "crashed"

-----------------------------------------------------------------------------
(* What readme.md says and the code does not do.                           *)

(* readme.md 5.4: idempotency and the lock prevent duplicate refunds.      *)
NoDuplicateRefund ==
    \A e, f \in gw : e.op = "refund" /\ f.op = "refund" /\ e.order = f.order => e = f

(* readme.md 5.2.2, 5.3: a success response to Capture or Void carries the *)
(* id of the transaction.                                                  *)
SuccessNamesTransaction ==
    \A r \in Id : Answered(r) /\ input[r].op \in {"capture", "void"} /\ err[r] = "nil"
                 => out[r].id = input[r].tx

(* readme.md 2.9: the idempotency key prevents duplicate charges.          *)
OneHoldPerUuid ==
    \A e, f \in gw :
        /\ e.op = "authorize" /\ f.op = "authorize"
        /\ Parse[input[e.by].key] = Parse[input[f.by].key]
        => e = f
=============================================================================
