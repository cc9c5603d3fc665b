---------------------------- MODULE ServerProofs ----------------------------
(***************************************************************************)
(* Proofs about Server: the process around the payment service adds        *)
(* nothing to it but failing statements and stops, so what is proved of    *)
(* PaymentService under these faults holds in every process that starts,   *)
(* serves, shuts down and dies.                                            *)
(***************************************************************************)
EXTENDS Server, TLAPS

(* The payment service, and all that is proved of it, under the faults a   *)
(* process adds.                                                           *)
Service == INSTANCE AccountingProofs WITH Faults <- Faults \cup {"crash", "db", "redis"}

-----------------------------------------------------------------------------
(* A handler does what the handler of the payment service may do, with its *)
(* stores open or closed.                                                  *)
LEMMA HandlerStep ==
    ASSUME NEW r \in Id, Handler(r) \/ Failing!Handler(r)
    PROVE  Service!Handler(r)
<1> USE DEF tables, Failing!tables, Service!tables, NoOutput, Failing!NoOutput,
            Service!NoOutput, Insert, Failing!Insert, Service!Insert, KeyTaken,
            Failing!KeyTaken, Service!KeyTaken, Locks, Failing!Locks, Service!Locks,
            Target, Failing!Target, Service!Target, InCritical, Failing!InCritical,
            Service!InCritical, Goto, Failing!Goto, Service!Goto, Return,
            Failing!Return, Service!Return, Shape, Failing!Shape, Service!Shape,
            Acquired, Failing!Acquired, Service!Acquired, Refused, Failing!Refused,
            Service!Refused, Released, Failing!Released, Service!Released,
            FindByIDAndMerchantID, Failing!FindByIDAndMerchantID,
            Service!FindByIDAndMerchantID, FindByKeyAndMerchantID,
            Failing!FindByKeyAndMerchantID, Service!FindByKeyAndMerchantID, Matches,
            Failing!Matches, Service!Matches
<1>1. MustParsePanics(r) \/ Failing!MustParsePanics(r) => Service!MustParsePanics(r)
  BY DEF MustParsePanics, Failing!MustParsePanics, Service!MustParsePanics
<1>2. CacheHit(r) \/ Failing!CacheHit(r) => Service!CacheHit(r)
  BY DEF CacheHit, Failing!CacheHit, Service!CacheHit, Unmarshal, Failing!Unmarshal,
         Service!Unmarshal
<1>3. CacheMiss(r) \/ Failing!CacheMiss(r) => Service!CacheMiss(r)
  BY DEF CacheMiss, Failing!CacheMiss, Service!CacheMiss
<1>4. tokenizeCardToGateway(r) \/ Failing!tokenizeCardToGateway(r) => Service!tokenizeCardToGateway(r)
  BY DEF tokenizeCardToGateway, Failing!tokenizeCardToGateway,
         Service!tokenizeCardToGateway
<1>5. saveTransaction(r) \/ Failing!saveTransaction(r) => Service!saveTransaction(r)
  BY DEF saveTransaction, Failing!saveTransaction, Service!saveTransaction, PendingRow,
         Failing!PendingRow, Service!PendingRow
<1>6. aquireLock(r) \/ Failing!aquireLock(r) => Service!aquireLock(r)
  BY DEF aquireLock, Failing!aquireLock, Service!aquireLock
<1>7. findTransaction(r) \/ Failing!findTransaction(r) => Service!findTransaction(r)
  BY DEF findTransaction, Failing!findTransaction, Service!findTransaction, RowErr,
         Failing!RowErr, Service!RowErr, TxAuthorizedErr, Failing!TxAuthorizedErr,
         Service!TxAuthorizedErr, VoidErr, Failing!VoidErr, Service!VoidErr, RefundErr,
         Failing!RefundErr, Service!RefundErr
<1>8. callGatewayPanics(r) \/ Failing!callGatewayPanics(r) => Service!callGatewayPanics(r)
  BY DEF callGatewayPanics, Failing!callGatewayPanics, Service!callGatewayPanics,
         DereferencesNil, Failing!DereferencesNil, Service!DereferencesNil
<1>9. callGatewayOk(r) \/ Failing!callGatewayOk(r) => Service!callGatewayOk(r)
  BY DEF callGatewayOk, Failing!callGatewayOk, Service!callGatewayOk, DereferencesNil,
         Failing!DereferencesNil, Service!DereferencesNil, EffectOf, Failing!EffectOf,
         Service!EffectOf
<1>10. callGatewayErr(r) \/ Failing!callGatewayErr(r) => Service!callGatewayErr(r)
  BY DEF callGatewayErr, Failing!callGatewayErr, Service!callGatewayErr,
         DereferencesNil, Failing!DereferencesNil, Service!DereferencesNil, EffectOf,
         Failing!EffectOf, Service!EffectOf
<1>11. updateTransaction(r) \/ Failing!updateTransaction(r) => Service!updateTransaction(r)
  BY DEF updateTransaction, Failing!updateTransaction, Service!updateTransaction, From,
         Failing!From, Service!From, To, Failing!To, Service!To, NewRef,
         Failing!NewRef, Service!NewRef, Updated, Failing!Updated, Service!Updated,
         UpdateByQuery, Failing!UpdateByQuery, Service!UpdateByQuery, UpdateErr,
         Failing!UpdateErr, Service!UpdateErr, UpdateOutput, Failing!UpdateOutput,
         Service!UpdateOutput, ReturnedId, Failing!ReturnedId, Service!ReturnedId
<1>12. updateRefunded(r) \/ Failing!updateRefunded(r) => Service!updateRefunded(r)
  BY DEF updateRefunded, Failing!updateRefunded, Service!updateRefunded, From,
         Failing!From, Service!From, To, Failing!To, Service!To, NewRef,
         Failing!NewRef, Service!NewRef, Updated, Failing!Updated, Service!Updated,
         UpdateByQuery, Failing!UpdateByQuery, Service!UpdateByQuery
<1>13. createRefund(r) \/ Failing!createRefund(r) => Service!createRefund(r)
  BY DEF createRefund, Failing!createRefund, Service!createRefund, ProcessingRow,
         Failing!ProcessingRow, Service!ProcessingRow
<1>14. releaseLock(r) \/ Failing!releaseLock(r) => Service!releaseLock(r)
  BY DEF releaseLock, Failing!releaseLock, Service!releaseLock
<1> QED
  BY <1>1, <1>2, <1>3, <1>4, <1>5, <1>6, <1>7, <1>8,
     <1>9, <1>10, <1>11, <1>12, <1>13, <1>14
     DEF Handler, Failing!Handler, Service!Handler, cachedIdempotency,
         Failing!cachedIdempotency, Service!cachedIdempotency, callGateway,
         Failing!callGateway, Service!callGateway

(* Every step of the process is one of the payment service, or none of its *)
(* business.                                                               *)
LEMMA ServiceStep == [ServerNext]_allVars => [Service!Next]_(Service!vars)
<1> SUFFICES ASSUME [ServerNext]_allVars
             PROVE  Service!Next \/ UNCHANGED vars
  BY DEF vars, Service!vars
<1>1. ASSUME NEW r \in Id, Request(r)
      PROVE  Service!Arrive(r)
  BY <1>1 DEF Request, Arrive, Service!Arrive, Goto, Service!Goto, tables, Service!tables
<1>2. ASSUME NEW r \in Id, Serve(r) \/ ServeClosed(r)
      PROVE  Service!Handler(r)
  BY <1>2, HandlerStep DEF Serve, ServeClosed
<1>3. ASSUME NEW r \in Id, BackgroundSave(r) \/ BackgroundSaveClosed(r)
      PROVE  Service!saveIdempotency(r)
  BY <1>3
     DEF BackgroundSave, BackgroundSaveClosed, saveIdempotency,
         Failing!saveIdempotency, Service!saveIdempotency, Insert, Failing!Insert,
         Service!Insert, locals, Failing!locals, Service!locals
<1>4. CASE Expire
  <2>1. ASSUME NEW k \in Uuid, expireIdempotency(k)
        PROVE  Service!expireIdempotency(k)
    BY <2>1
       DEF expireIdempotency, Service!expireIdempotency, locals, Service!locals
  <2>2. ASSUME NEW t \in Id, expireLock(t)
        PROVE  Service!expireLock(t)
    BY <2>2
       DEF expireLock, Service!expireLock, Expired, Service!Expired, InFlight,
           Service!InFlight, tables, Service!tables, locals, Service!locals
  <2> QED
    BY <1>4, <2>1, <2>2 DEF Expire, Service!Next
<1>5. CASE Exit
  <2>1. Stopping!crash => Service!crash
    BY DEF Stopping!crash, Service!crash, Stopping!InFlight, Service!InFlight,
           Stopping!tables, Service!tables
  <2> QED
    BY <1>5, <2>1 DEF Exit, Service!Next
<1>6. \/ Exit \/ Expire \/ UNCHANGED vars
      \/ \E r \in Id : \/ Request(r) \/ Serve(r) \/ ServeClosed(r)
                       \/ BackgroundSave(r) \/ BackgroundSaveClosed(r)
  BY DEF ServerNext, Main, allVars, start, connect, startServer, ListenAndServe, notify,
         signal, Shutdown, closeRedis, CloseDB, return, kill
<1> QED
  BY <1>1, <1>2, <1>3, <1>4, <1>5, <1>6 DEF Service!Next

(* The process implements the payment service: every behaviour of the      *)
(* payment service in it, through starts, shutdowns and kills, is one of   *)
(* PaymentService under crashes and failing statements.                    *)
THEOREM ImplementsService == ServerSpec => Service!Spec
<1>1. ServerInit => Service!Init
  BY DEF ServerInit, Init, Service!Init, RepositoryInit, Service!RepositoryInit,
                     LockInit, Service!LockInit, NoInput, Service!NoInput, NoOutput,
                     Service!NoOutput
<1> QED
  BY <1>1, ServiceStep, PTL DEF ServerSpec, Service!Spec

(* The assumptions of the payment service hold for the faults of the       *)
(* process.                                                                *)
LEMMA ServiceAssumptions ==
    Service!WorkloadAssumption /\ Service!FaultsAssumption
BY WorkloadAssumption, FaultsAssumption
   DEF Input, FaultKinds, Service!Input, Service!FaultKinds, Service!WorkloadAssumption,
       Service!FaultsAssumption

-----------------------------------------------------------------------------
(* SettledOnce, in a process that is started, shut down and killed at any  *)
(* time: among requests that are neither cut short nor left without an     *)
(* answer, the gateway settles a transaction once and refunds it once.     *)
THEOREM ServerSettlesOnce ==
    ASSUME "slow" \notin Faults
    PROVE  ServerSpec => []SettledOnce
<1>1. "slow" \notin Faults \cup {"crash", "db", "redis"}
  OBVIOUS
<1>2. Service!Spec => []Service!SettledOnce
  BY <1>1, Service!SettledOnlyOnce, ServiceAssumptions, ParseAssumption, NilAssumption, PTL
<1>3. Service!SettledOnce => SettledOnce
  BY DEF SettledOnce, Whole, Service!SettledOnce, Service!Whole
<1> QED
  BY <1>2, <1>3, ImplementsService, PTL

(* RetriesAgree, in such a process: a retry may be served by a process     *)
(* that was started after the first answer, before or after the first one  *)
(* was stored.                                                             *)
THEOREM ServerRetriesAgree ==
    ASSUME "slow" \notin Faults
    PROVE  ServerSpec => []RetriesAgree
<1>1. "slow" \notin Faults \cup {"crash", "db", "redis"}
  OBVIOUS
<1>2. Service!Spec => []Service!RetriesAgree
  BY <1>1, Service!RetriesGiveOneAnswer, ServiceAssumptions, ParseAssumption, NilAssumption, PTL
<1>3. Service!RetriesAgree => RetriesAgree
  BY DEF RetriesAgree, Service!RetriesAgree, Answered, Service!Answered, KeyKept,
         Service!KeyKept, Shape, Service!Shape
<1> QED
  BY <1>2, <1>3, ImplementsService, PTL

(* What is left behind, in such a process: a pending transaction, a refund *)
(* or its row has its reason, a request that was turned away has done      *)
(* nothing, and a rejection is final, whichever process is asked.          *)
THEOREM ServerKeepsAccounts ==
    ServerSpec => [](PendingAccounted /\ RefundsBooked /\ RefusedUntouched /\ RejectionsStick)
<1>1. /\ Service!Spec => []Service!PendingAccounted
      /\ Service!Spec => []Service!RefundsBooked
      /\ Service!Spec => []Service!RefusedUntouched
      /\ Service!Spec => []Service!RejectionsStick
  BY Service!PendingHasReason, Service!RefundsTellOneStory, Service!TurnedAwayUntouched,
     Service!RejectionsAreFinal, ServiceAssumptions, ParseAssumption, NilAssumption, PTL
<1>2. Service!PendingAccounted => PendingAccounted
  BY DEF PendingAccounted, Service!PendingAccounted
<1>3. Service!RefundsBooked => RefundsBooked
  BY DEF RefundsBooked, Service!RefundsBooked
<1>4. Service!RefusedUntouched => RefusedUntouched
  BY DEF RefusedUntouched, Service!RefusedUntouched, TurnedAway, Service!TurnedAway
<1>5. Service!RejectionsStick => RejectionsStick
  BY DEF RejectionsStick, Service!RejectionsStick, Answered, Service!Answered, Locks,
         Service!Locks, KeyKept, Service!KeyKept, Shape, Service!Shape
<1> QED
  BY <1>1, <1>2, <1>3, <1>4, <1>5, ImplementsService, PTL

(* The process implements PaymentLedger: starts, shutdowns and kills       *)
(* included, no transaction leaves its lifecycle, and no status claims     *)
(* what the gateway has not done.                                          *)
THEOREM ServerImplementsLedger == ServerSpec => LedgerSpec
<1>1. Service!Spec => Service!LedgerSpec
  BY Service!ImplementsLedger, ServiceAssumptions, ParseAssumption, NilAssumption, PTL
<1>2. Service!Ledger!Init => Ledger!Init
  BY DEF Ledger!Init, Service!Ledger!Init
<1>3. [Service!Ledger!Next]_<<Service!book, Service!effectsOf>> =>
        [Ledger!Next]_<<Service!book, Service!effectsOf>>
  BY DEF Ledger!Next, Service!Ledger!Next, Ledger!Open, Service!Ledger!Open,
         Ledger!Authorize, Service!Ledger!Authorize, Ledger!Capture, Service!Ledger!Capture,
         Ledger!Void, Service!Ledger!Void, Ledger!Refund, Service!Ledger!Refund,
         Ledger!Fail, Service!Ledger!Fail, Ledger!Gateway, Service!Ledger!Gateway,
         Ledger!Move, Service!Ledger!Move, Ledger!Done, Service!Ledger!Done
<1>4. Service!LedgerSpec => LedgerSpec
  BY <1>2, <1>3, PTL DEF LedgerSpec, Service!LedgerSpec, Ledger!Spec, Service!Ledger!Spec, Service!book,
                     Service!effectsOf
<1> QED
  BY <1>1, <1>4, ImplementsService, PTL

-----------------------------------------------------------------------------
(* The variables of main take the values of its stages.                    *)
ProcessTypeOK ==
    /\ main \in MainStage
    /\ listener \in {"off", "opening", "open", "draining", "closed"}
    /\ shutdownErr \in {"nil", "context.DeadlineExceeded"}

(* ProcessTypeOK is inductive.                                             *)
LEMMA ProcessStep ==
    /\ ServerInit => ProcessTypeOK
    /\ ProcessTypeOK /\ [ServerNext]_allVars => ProcessTypeOK'
<1>1. ServerInit => ProcessTypeOK
  BY DEF ServerInit, MainStage, ProcessTypeOK
<1>2. ProcessTypeOK /\ [ServerNext]_allVars => ProcessTypeOK'
  BY DEF ServerNext, Main, allVars, serverVars, MainAt, Exit, MainStage, Starting, start, connect,
         startServer, ListenAndServe, notify, signal, ShutdownListener, Shutdown, DeadlineErr,
         closeRedis, CloseDB, return, kill, Request, Serve, ServeClosed, BackgroundSave,
         BackgroundSaveClosed, Expire, ProcessTypeOK
<1> QED
  BY <1>1, <1>2

(* ServerTypeOK: the process is well formed, and its service with it.      *)
THEOREM ServerTypeCorrect == ServerSpec => []ServerTypeOK
<1>1. Service!Spec => []Service!TypeOK
  BY Service!TypeCorrect, ServiceAssumptions, ParseAssumption, NilAssumption, PTL
<1>2. Service!TypeOK => TypeOK
  <2>1. Service!RepositoryTypeOK => RepositoryTypeOK
    BY DEF RepositoryTypeOK, Service!RepositoryTypeOK, TxRow, Service!TxRow, IdemRow,
           Service!IdemRow, RefundRow, Service!RefundRow, Output, Service!Output,
           PaymentType, Service!PaymentType, TransactionStatus,
           Service!TransactionStatus, RefundStatus, Service!RefundStatus
  <2>2. Service!Errors = Errors /\ Service!Input = Input /\ Service!NoInput = NoInput
    BY DEF Errors, Service!Errors, NotFound, Service!NotFound, NotAcceptable,
           Service!NotAcceptable, Conflict, Service!Conflict, Unprocessable,
           Service!Unprocessable, PaymentRequired, Service!PaymentRequired, Unlisted,
           Service!Unlisted, Input, Service!Input, NoInput, Service!NoInput
  <2>3. Service!Output = Output /\ Service!Effect = Effect /\ Service!Stage = Stage
    BY DEF Output, Service!Output, TransactionStatus, Service!TransactionStatus,
           RefundStatus, Service!RefundStatus, Effect, Service!Effect, GatewayOp,
           Service!GatewayOp, Stage, Service!Stage
  <2> QED
    BY <2>1, <2>2, <2>3 DEF TypeOK, Service!TypeOK, LockTypeOK, Service!LockTypeOK
<1> QED
  BY <1>1, <1>2, ProcessStep, ImplementsService, PTL
     DEF ServerSpec, ServerTypeOK, ProcessTypeOK

(* Once the signal has come no connection is accepted, and when main goes  *)
(* on without an error none is left and nobody is being served.            *)
DrainInv ==
    /\ main \in {"drain", "closeRedis", "closeDB", "return"} => listener # "open"
    /\ main \in {"closeRedis", "closeDB", "return"} /\ shutdownErr = "nil" =>
          listener # "draining" /\ \A r \in Id : ~InFlight(r)

(* Nobody is served when nobody is in flight.                              *)
LEMMA ServeFacts ==
    ASSUME NEW r \in Id, Serve(r) \/ ServeClosed(r)
    PROVE  InFlight(r) /\ UNCHANGED serverVars
<1>1. Handler(r) \/ Failing!Handler(r)
  BY DEF Serve, ServeClosed
<1>2. InFlight(r)
  BY <1>1
     DEF Handler, Failing!Handler, cachedIdempotency, Failing!cachedIdempotency,
         callGateway, Failing!callGateway, MustParsePanics, Failing!MustParsePanics,
         CacheHit, Failing!CacheHit, CacheMiss, Failing!CacheMiss,
         tokenizeCardToGateway, Failing!tokenizeCardToGateway, saveTransaction,
         Failing!saveTransaction, aquireLock, Failing!aquireLock, findTransaction,
         Failing!findTransaction, callGatewayPanics, Failing!callGatewayPanics,
         callGatewayOk, Failing!callGatewayOk, callGatewayErr, Failing!callGatewayErr,
         updateTransaction, Failing!updateTransaction, updateRefunded,
         Failing!updateRefunded, createRefund, Failing!createRefund, releaseLock,
         Failing!releaseLock, InFlight
<1> QED
  BY <1>2 DEF Serve, ServeClosed

(* DrainInv is inductive.                                                  *)
LEMMA DrainStep ==
    /\ ServerInit => DrainInv
    /\ DrainInv /\ [ServerNext]_allVars => DrainInv'
<1>1. ServerInit => DrainInv
  BY DEF ServerInit, DrainInv
<1>2. DrainInv /\ [ServerNext]_allVars => DrainInv'
  <2> SUFFICES ASSUME DrainInv, [ServerNext]_allVars
               PROVE  DrainInv'
    OBVIOUS
  <2>1. CASE Exit
    BY <2>1 DEF Exit, DrainInv
  <2>2. CASE UNCHANGED pc /\ UNCHANGED serverVars
    BY <2>2 DEF serverVars, DrainInv, InFlight
  <2>3. ASSUME NEW r \in Id, Request(r)
        PROVE  DrainInv'
    BY <2>3 DEF Request, serverVars, DrainInv
  <2>4. ASSUME NEW r \in Id, Serve(r) \/ ServeClosed(r)
        PROVE  DrainInv'
    BY <2>4, ServeFacts DEF serverVars, DrainInv
  <2>5. ASSUME NEW r \in Id, BackgroundSave(r) \/ BackgroundSaveClosed(r)
        PROVE  UNCHANGED pc /\ UNCHANGED serverVars
    BY <2>5 DEF BackgroundSave, BackgroundSaveClosed, saveIdempotency, locals,
                Failing!saveIdempotency, Failing!locals
  <2>6. CASE Expire
    BY <2>2, <2>6 DEF Expire, expireIdempotency, expireLock, locals
  <2>7. CASE \/ start \/ startServer \/ notify \/ signal \/ Shutdown \/ closeRedis \/ CloseDB
             \/ connect \/ ListenAndServe \/ return \/ kill
    BY <2>1, <2>7 DEF start, startServer, notify, signal, ShutdownListener, Shutdown, DeadlineErr,
              closeRedis, CloseDB, connect, ListenAndServe, return, kill, MainAt, vars, DrainInv, InFlight
  <2> QED
    BY <2>2, <2>3, <2>4, <2>5, <2>6, <2>7 DEF ServerNext, Main, allVars, vars
<1> QED
  BY <1>1, <1>2

(* ServedWithStoresOpen: a request in flight meets a closed store only     *)
(* after Shutdown gave up waiting for it.                                  *)
THEOREM StoresOpen == ServerSpec => []ServedWithStoresOpen
<1>1. DrainInv => ServedWithStoresOpen
  BY DEF DrainInv, ServedWithStoresOpen, RedisClosed, DBClosed
<1> QED
  BY <1>1, DrainStep, PTL DEF ServerSpec

(* A handler step that fails a request on the database needs a database    *)
(* that fails, or one that main has closed.                                *)
LEMMA DatabaseFails ==
    ASSUME NEW r \in Id, Serve(r) \/ ServeClosed(r), Service!TypeOK,
           NEW s \in Id, err[s] # "dbError", err'[s] = "dbError"
    PROVE  s = r /\ ("db" \in Faults \/ DBClosed)
<1>0. err \in [Id -> Service!Errors] /\ pc \in [Id -> Service!Stage]
  BY DEF Service!TypeOK
<1>1. CASE Serve(r)
  <2>1. Handler(r)
    BY <1>1 DEF Serve
  <2>2. RowErr(r, txs[input[r].tx]) # "dbError"
    BY DEF RowErr, TxAuthorizedErr, VoidErr, RefundErr
  <2> QED
    BY <1>0, <2>1, <2>2
       DEF Handler, cachedIdempotency, callGateway, MustParsePanics, CacheHit, CacheMiss,
           tokenizeCardToGateway, saveTransaction, aquireLock, findTransaction,
           callGatewayPanics, callGatewayOk, callGatewayErr, updateTransaction, UpdateErr,
           updateRefunded, createRefund, releaseLock, Return
<1>2. CASE ServeClosed(r)
  <2>1. Failing!Handler(r)
    BY <1>2 DEF ServeClosed
  <2>2. pc[r] \notin {"lock", "release"}
    BY <1>0, <1>2, <2>1
       DEF ServeClosed, Failing!Handler, Failing!cachedIdempotency, Failing!callGateway,
           Failing!MustParsePanics, Failing!CacheHit, Failing!CacheMiss,
           Failing!tokenizeCardToGateway, Failing!saveTransaction, Failing!aquireLock,
           Failing!findTransaction, Failing!callGatewayPanics, Failing!callGatewayOk,
           Failing!callGatewayErr, Failing!updateTransaction, Failing!updateRefunded,
           Failing!createRefund, Failing!releaseLock, Failing!Return
  <2>3. DBClosed
    BY <1>2, <2>2 DEF ServeClosed, MeetsClosed
  <2>4. s = r
    BY <1>0, <2>1
       DEF Failing!Handler, Failing!cachedIdempotency, Failing!callGateway,
           Failing!MustParsePanics, Failing!CacheHit, Failing!CacheMiss,
           Failing!tokenizeCardToGateway, Failing!saveTransaction, Failing!aquireLock,
           Failing!findTransaction, Failing!callGatewayPanics, Failing!callGatewayOk,
           Failing!callGatewayErr, Failing!updateTransaction, Failing!updateRefunded,
           Failing!createRefund, Failing!releaseLock, Failing!Return
  <2> QED
    BY <2>3, <2>4
<1> QED
  BY <1>1, <1>2

(* FailedByDeadline, whatever fails but PostgreSQL itself: the requests    *)
(* that a statement fails are among those Shutdown did not wait for.       *)
THEOREM FailuresAreForced == ServerSpec => FailedByDeadline
<1> DEFINE Forced ==
        \A r \in Id : err[r] # "dbError" /\ err'[r] = "dbError" =>
            \/ "db" \in Faults
            \/ main = "return" /\ shutdownErr = "context.DeadlineExceeded"
<1>1. Service!TypeOK /\ ProcessTypeOK /\ DrainInv /\ [ServerNext]_allVars => [Forced]_allVars
  <2> SUFFICES ASSUME Service!TypeOK, ProcessTypeOK, DrainInv, [ServerNext]_allVars,
                      NEW s \in Id, err[s] # "dbError", err'[s] = "dbError"
               PROVE  \/ "db" \in Faults
                      \/ main = "return" /\ shutdownErr = "context.DeadlineExceeded"
    OBVIOUS
  <2>1. PICK r \in Id : Serve(r) \/ ServeClosed(r)
    BY DEF ServerNext, Main, allVars, vars, start, connect, startServer, ListenAndServe, notify,
           signal, Shutdown, closeRedis, CloseDB, return, kill, Exit, Stopping!crash,
           Request, Arrive, BackgroundSave, BackgroundSaveClosed, saveIdempotency, locals,
           Failing!saveIdempotency, Failing!locals, Expire, expireIdempotency, expireLock
  <2>2. InFlight(r) /\ ("db" \in Faults \/ DBClosed)
    BY <2>1, ServeFacts, DatabaseFails
  <2> QED
    BY <2>2 DEF DBClosed, DrainInv, ProcessTypeOK
<1>2. Service!Spec => []Service!TypeOK
  BY Service!TypeCorrect, ServiceAssumptions, ParseAssumption, NilAssumption, PTL
<1> QED
  BY <1>1, <1>2, ProcessStep, DrainStep, ImplementsService, PTL DEF ServerSpec, FailedByDeadline

(* EffectsRecorded, in such a process, and what its exceptions are.  What  *)
(* the gateway did for a request that was answered is on record, unless    *)
(* its answer was lost or a statement failed: and while PostgreSQL itself  *)
(* does not fail, a statement fails only on a request that was still       *)
(* running when Shutdown gave up.  There gateway and books do disagree.    *)
THEOREM ServerBooksAgree ==
    ASSUME "slow" \notin Faults
    PROVE  ServerSpec => []EffectsRecorded /\ FailedByDeadline
<1>1. "slow" \notin Faults \cup {"crash", "db", "redis"}
  OBVIOUS
<1>2. Service!Spec => []Service!EffectsRecorded
  BY <1>1, Service!BooksAgree, ServiceAssumptions, ParseAssumption, NilAssumption, PTL
<1>3. Service!EffectsRecorded => EffectsRecorded
  BY DEF EffectsRecorded, Service!EffectsRecorded, Answered, Service!Answered, Whole,
         Service!Whole, Since, Service!Since, Recorded, Service!Recorded
<1> QED
  BY <1>2, <1>3, ImplementsService, FailuresAreForced, PTL

=============================================================================
