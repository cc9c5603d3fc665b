-------------------------- MODULE PaymentApiProofs --------------------------
(***************************************************************************)
(* Proofs about PaymentApi, for any requests, keys and emails.  Behind     *)
(* HTTP both services are what their own specifications say, so what is    *)
(* proved of each holds of both together; PlaceInv says how far a request  *)
(* is in each of the two, and with what.                                   *)
(***************************************************************************)
EXTENDS PaymentApi, SettlementProofs

(* All that is proved of MerchantService, for the requests that reach it.  *)
MP == INSTANCE MerchantServiceProofs WITH
    pc <- mpc, input <- minput, found <- mfound, out <- mout, err <- merr,
    Workload <- [r \in Id |->
        {MerchantInput(q) : q \in {p \in Requests[r] :
            p.route \in MerchantRoute \/ p.apiKey # Nil}}],
    Faults <- MerchantFaults

-----------------------------------------------------------------------------
(* The HTTP interface implements the payment service: the requests that    *)
(* pass the middlewares and the handlers are among those of                *)
(* PaymentService.                                                         *)
THEOREM ApiImplementsService == ApiSpec => Spec
<1>1. ApiInit => Init
  BY DEF ApiInit
<1>2. [ApiNext]_allVars => [Next]_vars
  BY DEF ApiNext, allVars, ReceiveMerchant, MerchantAuth, Serve, RefusePayment,
         CallPaymentService, MerchantStep, PaymentStep, BackgroundSave, Expire, Next
<1> QED
  BY <1>1, <1>2, PTL DEF ApiSpec, Spec

(* A step of the merchant service in PaymentApi is one in MP.              *)
LEMMA MerchantHandler ==
    ASSUME NEW r \in Id, M!Handler(r)
    PROVE  MP!Handler(r)
BY
   DEF M!Handler, MP!Handler, M!findExisting, MP!findExisting, M!createMerchant,
       MP!createMerchant, M!createAPIKey, MP!createAPIKey, M!findPending,
       MP!findPending, M!updateActive, MP!updateActive, M!findByHashedKey,
       MP!findByHashedKey, M!findMerchant, MP!findMerchant, M!Goto, MP!Goto, M!Return,
       MP!Return, M!Insert, MP!Insert, M!FindByEmail, MP!FindByEmail, M!EmailTaken,
       MP!EmailTaken, M!PendingMerchant, MP!PendingMerchant, M!KeyFailure,
       MP!KeyFailure, M!Activated, MP!Activated, M!AuthErr, MP!AuthErr

(* The HTTP interface implements the merchant service.                     *)
THEOREM ApiImplementsMerchants == ApiSpec => MP!Spec
<1>1. ApiInit => MP!Init
  BY DEF ApiInit, M!Init, MP!Init, M!NoInput, MP!NoInput
<1>2. [ApiNext]_allVars => [MP!Next]_(MP!vars)
  <2> SUFFICES ASSUME [ApiNext]_allVars
               PROVE  MP!Next \/ UNCHANGED mvars
    BY DEF mvars, MP!vars
  <2>1. ASSUME NEW r \in Id, M!Arrive(r)
        PROVE  MP!Arrive(r)
    BY <2>1 DEF M!Arrive, MP!Arrive, M!Goto, MP!Goto
  <2>2. \/ UNCHANGED mvars
        \/ \E r \in Id : M!Arrive(r) \/ M!Handler(r)
    BY DEF ApiNext, allVars, ReceiveMerchant, MerchantAuth, Serve, RefusePayment,
           CallPaymentService, MerchantStep, PaymentStep, BackgroundSave, Expire
  <2> QED
    BY <2>1, <2>2, MerchantHandler DEF MP!Next
<1> QED
  BY <1>1, <1>2, PTL DEF ApiSpec, MP!Spec

(* The assumptions of the merchant service hold for what it is given.      *)
LEMMA MerchantAssumptions ==
    MP!NilAssumption /\ MP!WorkloadAssumption /\ MP!FaultsAssumption
<1>1. ASSUME NEW q \in HttpRequest, q.route \in MerchantRoute \/ q.apiKey # Nil
      PROVE  MerchantInput(q) \in MP!Input
  BY <1>1 DEF HttpRequest, MerchantInput, MP!Input, MerchantRoute, ChargeRoute
<1>2. MP!WorkloadAssumption
  BY <1>1, RequestsAssumption DEF MP!WorkloadAssumption
<1> QED
  BY <1>2, NilAssumption, EmailAssumption, NoCrashAssumption
  DEF MP!NilAssumption, MP!FaultsAssumption

-----------------------------------------------------------------------------
(* The HTTP interface implements Accounts: behind concurrent requests and  *)
(* failing statements, its clients see accounts that are opened, given     *)
(* secrets, activated and let in by one statement each.                    *)
THEOREM ApiImplementsAccounts == ApiSpec => MP!AccountsSpec
BY ApiImplementsMerchants, MerchantAssumptions, MP!ImplementsAccounts, PTL

(* Where a request is, in the HTTP layer and in both services.             *)
FormInv ==
    /\ at \in [Id -> Place]
    /\ req \in [Id -> HttpRequest \cup {NoRequest}]
    /\ code \in [Id -> {0, 400, 401}]
    /\ \A r \in Id : req[r] \in Requests[r] \cup {NoRequest}

PlaceInv ==
    \A r \in Id :
        /\ at[r] = "idle" => mpc[r] = "idle" /\ req[r] = NoRequest
        /\ at[r] # "idle" => req[r] \in HttpRequest
        /\ at[r] \in {"auth", "service"} =>
              mpc[r] # "idle" /\ minput[r] = MerchantInput(req[r])
        /\ at[r] = "auth" => req[r].route \notin MerchantRoute
        /\ at[r] # "service" \/ req[r].route \in MerchantRoute => pc[r] = "idle"
        /\ at[r] = "service" /\ req[r].route \notin MerchantRoute =>
              /\ mpc[r] = "done"
              /\ Refusal(r) = 0
              /\ input[r] = ServiceInput(r)
        /\ at[r] = "refused" => code[r] \in {400, 401}

(* A refusal is a 400 or 401; only Authorize and Charge get through, with  *)
(* a merchant, a key and a body.                                           *)
LEMMA RefusalFacts ==
    ASSUME NEW r \in Id, req[r] \in HttpRequest, req[r].route \notin MerchantRoute
    PROVE  /\ Refusal(r) \in {0, 400, 401}
           /\ Refusal(r) = 0 =>
                 /\ req[r].route \in {"authorize", "charge"}
                 /\ merr[r] = "nil" /\ req[r].key \in RawKey /\ req[r].body.bound
                 /\ ServiceInput(r) = [op |-> req[r].route, merchant |-> mout[r],
                                       key |-> req[r].key, tx |-> Nil]
<1>1. req[r].route \in {"authorize", "charge", "capture", "void", "refund"}
  BY DEF HttpRequest, ChargeRoute, MerchantRoute
<1>2. req[r].route \in ChargeRoute =>
         /\ req[r].route \in {"authorize", "charge"} /\ req[r].route \in withIdemKey
         /\ req[r].key \in RawKey \cup {Nil} /\ req[r].tx = Nil
  BY DEF HttpRequest, ChargeRoute, MerchantRoute, withIdemKey
<1>3. ~GetPaymentMeta(r)
  BY DEF GetPaymentMeta, IdempotencyKeyContextKey
<1>4. merr[r] = "nil" /\ req[r].route \in ChargeRoute => ToChargeInputOK(r)
  BY <1>2 DEF ToChargeInputOK, MerchantIDKey, IdempotencyKeyContextKey
<1>5. merr[r] = "nil" /\ req[r].route \in ChargeRoute =>
         ServiceInput(r) = [op |-> req[r].route, merchant |-> mout[r],
                            key |-> req[r].key, tx |-> Nil]
  BY <1>2 DEF ServiceInput, MerchantIDKey, IdempotencyKeyContextKey
<1> QED
  BY <1>2, <1>3, <1>4, <1>5 DEF Refusal, Unauthorized, BadRequest, ChargeRoute

(* A step of the merchant service moves one request it is working on.      *)
LEMMA MerchantFrame ==
    ASSUME MP!TypeOK, NEW r \in Id, MP!Handler(r)
    PROVE  /\ mpc[r] \notin {"idle", "done"} /\ mpc'[r] # "idle"
           /\ minput' = minput
           /\ \A s \in Id \ {r} : /\ mpc'[s] = mpc[s] /\ merr'[s] = merr[s]
                                  /\ mout'[s] = mout[s]
BY DEF MP!TypeOK, MP!Handler, MP!findExisting, MP!createMerchant, MP!createAPIKey,
       MP!findPending, MP!updateActive, MP!findByHashedKey, MP!findMerchant, MP!Goto,
       MP!Return

(* So does a step of the payment service.                                  *)
LEMMA PaymentFrame ==
    ASSUME TypeOK, NEW r \in Id, Handler(r)
    PROVE  /\ pc[r] # "idle" /\ input' = input
           /\ \A s \in Id \ {r} : pc'[s] = pc[s] /\ err'[s] = err[s]
BY DEF TypeOK, Handler, cachedIdempotency, MustParsePanics, CacheHit, CacheMiss,
       tokenizeCardToGateway, saveTransaction, aquireLock, findTransaction, callGateway,
       callGatewayPanics, callGatewayOk, callGatewayErr, updateTransaction,
       updateRefunded, createRefund, releaseLock, Goto, Return

(* What the handlers see of a request does not change while the merchant   *)
(* service leaves it alone.                                                *)
LEMMA SameRequest ==
    ASSUME NEW r \in Id, req'[r] = req[r], merr'[r] = merr[r], mout'[r] = mout[r]
    PROVE  Refusal(r)' = Refusal(r) /\ ServiceInput(r)' = ServiceInput(r)
BY DEF Refusal, ServiceInput, GetPaymentMeta, ToChargeInputOK, MerchantIDKey,
       IdempotencyKeyContextKey

LEMMA FormStep ==
    ASSUME FormInv, PlaceInv, [ApiNext]_allVars
    PROVE  FormInv'
<1>1. CASE UNCHANGED apiVars
  BY <1>1 DEF FormInv, apiVars
<1>2. ASSUME NEW r \in Id, ReceiveMerchant(r) \/ MerchantAuth(r)
      PROVE  FormInv'
  BY <1>2, RequestsAssumption
  DEF FormInv, ReceiveMerchant, MerchantAuth, Enter, Refuse, Place, BadRequest,
      Unauthorized
<1>3. ASSUME NEW r \in Id, RefusePayment(r)
      PROVE  FormInv'
  BY <1>3, RefusalFacts DEF FormInv, PlaceInv, RefusePayment, Refuse, Place
<1>4. ASSUME NEW r \in Id, CallPaymentService(r)
      PROVE  FormInv'
  BY <1>4 DEF FormInv, CallPaymentService, Enter, Place
<1> QED
  BY <1>1, <1>2, <1>3, <1>4
  DEF ApiNext, Serve, MerchantStep, PaymentStep, BackgroundSave, Expire, allVars, apiVars

LEMMA PlaceStep ==
    ASSUME TypeOK, MP!TypeOK, FormInv, PlaceInv, [ApiNext]_allVars
    PROVE  PlaceInv'
<1>0. /\ pc \in [Id -> Stage] /\ input \in [Id -> Input \cup {NoInput}]
      /\ mpc \in [Id -> MP!Stage] /\ minput \in [Id -> MP!Input \cup {MP!NoInput}]
      /\ at \in [Id -> Place] /\ req \in [Id -> HttpRequest \cup {NoRequest}]
      /\ code \in [Id -> {0, 400, 401}]
  BY DEF TypeOK, MP!TypeOK, FormInv
<1>1. CASE UNCHANGED allVars
  BY <1>1, SameRequest DEF PlaceInv, allVars, vars, mvars, apiVars
<1>2. ASSUME NEW r \in Id, ReceiveMerchant(r) \/ MerchantAuth(r)
      PROVE  PlaceInv'
  <2> SUFFICES ASSUME NEW s \in Id
               PROVE  PlaceInv!(s)'
    BY DEF PlaceInv
  <2>1. /\ UNCHANGED <<pc, input, merr, mout>>
        /\ at[r] = "idle" /\ pc[r] = "idle" /\ at'[r] # "idle"
        /\ req'[r] \in HttpRequest
        /\ at'[r] \in {"auth", "service"} =>
              /\ mpc'[r] # "idle" /\ minput'[r] = MerchantInput(req'[r])
        /\ at'[r] = "auth" => req'[r].route \notin MerchantRoute
        /\ at'[r] = "service" => req'[r].route \in MerchantRoute
        /\ at'[r] = "refused" => code'[r] \in {400, 401}
    BY <1>0, <1>2, RequestsAssumption
    DEF ReceiveMerchant, MerchantAuth, Enter, Refuse, BadRequest, Unauthorized, vars,
        mvars, M!Arrive, M!Goto, PlaceInv
  <2>2. CASE s = r
    BY <2>1, <2>2
  <2>3. CASE s # r
    <3>1. /\ at'[s] = at[s] /\ req'[s] = req[s] /\ mpc'[s] = mpc[s]
          /\ minput'[s] = minput[s] /\ code'[s] = code[s]
      BY <1>0, <1>2, <2>3
      DEF ReceiveMerchant, MerchantAuth, Enter, Refuse, mvars, M!Arrive, M!Goto
    <3> QED
      BY <2>1, <3>1, SameRequest DEF PlaceInv
  <2> QED
    BY <2>2, <2>3
<1>3. ASSUME NEW r \in Id, RefusePayment(r)
      PROVE  PlaceInv'
  <2> SUFFICES ASSUME NEW s \in Id
               PROVE  PlaceInv!(s)'
    BY DEF PlaceInv
  <2>1. Refusal(r) \in {400, 401}
    BY <1>3, RefusalFacts DEF RefusePayment, PlaceInv
  <2> QED
    BY <1>0, <1>3, <2>1, SameRequest DEF RefusePayment, Refuse, PlaceInv, vars, mvars
<1>4. ASSUME NEW r \in Id, CallPaymentService(r)
      PROVE  PlaceInv'
  <2> SUFFICES ASSUME NEW s \in Id
               PROVE  PlaceInv!(s)'
    BY DEF PlaceInv
  <2> QED
    BY <1>0, <1>4, SameRequest
    DEF CallPaymentService, Enter, PlaceInv, mvars, Arrive, Goto
<1>5. ASSUME NEW r \in Id, MerchantStep(r)
      PROVE  PlaceInv'
  <2> SUFFICES ASSUME NEW s \in Id
               PROVE  PlaceInv!(s)'
    BY DEF PlaceInv
  <2>1. MP!Handler(r)
    BY <1>5, MerchantHandler DEF MerchantStep
  <2>2. UNCHANGED <<pc, input, at, req, code>>
    BY <1>5 DEF MerchantStep, vars, apiVars
  <2>3. CASE s = r
    BY <2>1, <2>2, <2>3, MerchantFrame DEF PlaceInv
  <2>4. CASE s # r
    BY <2>1, <2>2, <2>4, MerchantFrame, SameRequest DEF PlaceInv
  <2> QED
    BY <2>3, <2>4
<1>6. ASSUME NEW r \in Id, PaymentStep(r)
      PROVE  PlaceInv'
  <2> SUFFICES ASSUME NEW s \in Id
               PROVE  PlaceInv!(s)'
    BY DEF PlaceInv
  <2>1. pc[r] # "idle" /\ input' = input /\ \A q \in Id \ {r} : pc'[q] = pc[q]
    BY <1>6, PaymentFrame DEF PaymentStep
  <2>2. UNCHANGED <<at, req, code, mpc, minput, merr, mout>>
    BY <1>6 DEF PaymentStep, mvars, apiVars
  <2> QED
    BY <2>1, <2>2, SameRequest DEF PlaceInv
<1>7. ASSUME (\E r \in Id : BackgroundSave(r)) \/ Expire
      PROVE  PlaceInv'
  <2>1. UNCHANGED <<pc, input, at, req, code, mpc, minput, merr, mout>>
    BY <1>7 DEF BackgroundSave, Expire, saveIdempotency, expireIdempotency, locals,
                mvars, apiVars
  <2> QED
    BY <2>1, SameRequest DEF PlaceInv
<1> QED
  BY <1>1, <1>2, <1>3, <1>4, <1>5, <1>6, <1>7 DEF ApiNext, Serve

LEMMA ApiInvariance ==
    ApiSpec => [](Inv /\ ClaimInv /\ MP!Inv /\ FormInv /\ PlaceInv)
<1>1. ApiInit => FormInv /\ PlaceInv
  BY DEF ApiInit, Init, M!Init, FormInv, PlaceInv, Place
<1>2. FormInv /\ PlaceInv /\ Inv /\ MP!Inv /\ [ApiNext]_allVars => FormInv' /\ PlaceInv'
  BY FormStep, PlaceStep DEF Inv, BasicInv, MP!Inv
<1>3. MP!Spec => []MP!Inv
  BY MP!Invariance, MerchantAssumptions
<1> QED
  BY <1>1, <1>2, <1>3, ApiImplementsService, ApiImplementsMerchants, ClaimInvariance, PTL
  DEF ApiSpec

-----------------------------------------------------------------------------
(* The types.                                                              *)
THEOREM ApiTypeCorrect == ApiSpec => []ApiTypeOK
<1>1. MP!TypeOK => M!TypeOK
  <2>1. M!Errors = MP!Errors
    BY DEF M!Errors, MP!Errors, M!NotFound, MP!NotFound, M!NotAcceptable,
           MP!NotAcceptable, M!Conflict, MP!Conflict, M!Unprocessable, MP!Unprocessable,
           M!PaymentRequired, MP!PaymentRequired, M!Unlisted, MP!Unlisted
  <2>2. M!MerchantRow = MP!MerchantRow
    BY DEF M!MerchantRow, MP!MerchantRow, M!MerchantStatus, MP!MerchantStatus
  <2>3. M!Stage = MP!Stage /\ M!Input = MP!Input /\ M!NoInput = MP!NoInput
    BY DEF M!Stage, MP!Stage, M!Input, MP!Input, M!NoInput, MP!NoInput
  <2> QED
    BY <2>1, <2>2, <2>3 DEF M!TypeOK, MP!TypeOK
<1>2. FormInv => code \in [Id -> {0, 400, 401, 500}]
  BY DEF FormInv
<1>3. Inv /\ MP!Inv /\ FormInv => ApiTypeOK
  BY <1>1, <1>2 DEF Inv, BasicInv, MP!Inv, FormInv, ApiTypeOK
<1> QED
  BY <1>3, ApiInvariance, PTL

(* A payment request that reached the service is one of an active merchant,*)
(* whose identifier it was given.                                          *)
LEMMA Served ==
    ASSUME Inv, MP!Inv, PlaceInv, NEW r \in Id, pc[r] # "idle"
    PROVE  /\ at[r] = "service" /\ req[r] \in HttpRequest
           /\ req[r].route \in {"authorize", "charge"}
           /\ req[r].key \in RawKey /\ req[r].body.bound
           /\ input[r] = [op |-> req[r].route, merchant |-> mout[r],
                          key |-> req[r].key, tx |-> Nil]
           /\ req[r].apiKey \in DOMAIN keys
           /\ keys[req[r].apiKey] = input[r].merchant
           /\ input[r].merchant \in DOMAIN merchants
           /\ merchants[input[r].merchant].status = "active"
<1>1. /\ at[r] = "service" /\ req[r].route \notin MerchantRoute /\ req[r] \in HttpRequest
      /\ mpc[r] = "done" /\ minput[r] = MerchantInput(req[r]) /\ Refusal(r) = 0
      /\ input[r] = ServiceInput(r)
  BY DEF PlaceInv
<1>2. /\ req[r].route \in {"authorize", "charge"}
      /\ merr[r] = "nil" /\ req[r].key \in RawKey /\ req[r].body.bound
      /\ input[r] = [op |-> req[r].route, merchant |-> mout[r],
                     key |-> req[r].key, tx |-> Nil]
  BY <1>1, RefusalFacts
<1>3. minput[r].op = "authenticate" /\ minput[r].key = req[r].apiKey
  BY <1>1 DEF MerchantInput
<1> QED
  BY <1>1, <1>2, <1>3 DEF MP!Inv, MP!AuthenticatedAreActive, MP!Answered

(* Every stored transaction belongs to the active merchant whose API key   *)
(* its request presented, in every interleaving with registrations and     *)
(* activations.                                                            *)
THEOREM OnlyActiveMerchants == ApiSpec => []ServedMerchantsAreActive
<1>1. Inv /\ MP!Inv /\ PlaceInv => ServedMerchantsAreActive
  BY Served DEF Inv, BasicInv, TypeOK, RepositoryTypeOK, RowInv, ServedMerchantsAreActive
<1> QED
  BY <1>1, ApiInvariance, PTL

(* No request is answered 500 before its service is called.                *)
THEOREM NoEarlyPanic == ApiSpec => []NoPanicBeforeService
<1>1. PlaceInv => NoPanicBeforeService
  BY DEF PlaceInv, NoPanicBeforeService, Code
<1> QED
  BY <1>1, ApiInvariance, PTL

(* A successful answer names a transaction of the merchant whose API key   *)
(* was presented.                                                          *)
THEOREM AnswersAreOwn == ApiSpec => []AnswersNameOwn
<1>1. Inv /\ ClaimInv /\ MP!Inv /\ PlaceInv => AnswersNameOwn
  <2> SUFFICES ASSUME Inv, ClaimInv, MP!Inv, PlaceInv, NEW r \in Id,
                      Code(r) \in {200, 201}, req[r].route \notin MerchantRoute,
                      out[r].id # Nil
               PROVE  /\ out[r].id \in DOMAIN txs
                      /\ keys[req[r].apiKey] = txs[out[r].id].merchant
                      /\ txs[out[r].id].status \in Since(out[r].status)
    BY DEF AnswersNameOwn
  <2>1. /\ pc[r] # "idle" /\ out[r].shape = Shape(r)
        /\ AnswerOK(out[r], input[r].merchant)
    BY DEF ClaimInv, AnswersInv
  <2>2. /\ input[r].op \in {"authorize", "charge"}
        /\ keys[req[r].apiKey] = input[r].merchant
    <3>1. /\ req[r].route \in {"authorize", "charge"}
          /\ input[r] = [op |-> req[r].route, merchant |-> mout[r],
                         key |-> req[r].key, tx |-> Nil]
          /\ keys[req[r].apiKey] = input[r].merchant
      BY <2>1, Served
    <3> QED
      BY <3>1
  <2> QED
    BY <2>1, <2>2 DEF AnswerOK, Shape
<1> QED
  BY <1>1, ApiInvariance, PTL

-----------------------------------------------------------------------------
(* A request gets to the gateway with a card that tokenized, and the       *)
(* gateway acts on a body it accepts.                                      *)
EarnedInv ==
    /\ \A r \in Id :
          /\ pc[r] \in {"idle", "idem", "save"} => err[r] = "nil"
          /\ pc[r] = "gateway" => TokenizeCard(req[r].body.card) = "nil"
    /\ \A e \in gw :
          /\ TokenizeCard(req[e.by].body.card) = "nil"
          /\ Authorize(req[e.by].body) = "nil"
          /\ Parse[req[e.by].key] # Nil

(* How a request gets to the stages before and at the gateway call.        *)
LEMMA Opening ==
    ASSUME BasicInv, NEW r \in Id, Handler(r)
    PROVE  /\ pc'[r] \notin {"idle", "idem"}
           /\ pc'[r] = "save" => pc[r] = "idem" /\ err'[r] = err[r]
           /\ pc'[r] = "gateway" => Locks(r) \/ (pc[r] = "save" /\ err'[r] = err[r])
<1>0. pc \in [Id -> Stage] /\ StageInv
  BY DEF BasicInv, TypeOK
<1>1. CASE cachedIdempotency(r)
  BY <1>0, <1>1 DEF cachedIdempotency, MustParsePanics, CacheHit, CacheMiss, Goto, Return
<1>2. CASE tokenizeCardToGateway(r) \/ saveTransaction(r)
  BY <1>0, <1>2 DEF tokenizeCardToGateway, saveTransaction, Goto, Return
<1>3. CASE aquireLock(r) \/ findTransaction(r)
  BY <1>0, <1>3 DEF aquireLock, findTransaction, Goto, Return, StageInv
<1>4. CASE callGateway(r)
  BY <1>0, <1>4
  DEF callGateway, callGatewayPanics, callGatewayOk, callGatewayErr, Goto, Return
<1>5. CASE updateTransaction(r) \/ updateRefunded(r) \/ createRefund(r) \/ releaseLock(r)
  BY <1>0, <1>5
  DEF updateTransaction, updateRefunded, createRefund, releaseLock, Goto, Return
<1> QED
  BY <1>1, <1>2, <1>3, <1>4, <1>5 DEF Handler

(* No request behind HTTP settles anything.                                *)
LEMMA NeverLocks ==
    ASSUME Inv, MP!Inv, PlaceInv, NEW r \in Id, pc[r] # "idle"
    PROVE  input[r].op \in {"authorize", "charge"} /\ ~Locks(r)
<1>1. /\ req[r].route \in {"authorize", "charge"}
      /\ input[r] = [op |-> req[r].route, merchant |-> mout[r],
                     key |-> req[r].key, tx |-> Nil]
  BY Served
<1> QED
  BY <1>1 DEF Locks

LEMMA EarnedStep ==
    ASSUME Inv, MP!Inv, FormInv, PlaceInv, EarnedInv, "gateway" \notin Faults,
           [ApiNext]_allVars
    PROVE  EarnedInv'
<1>0. /\ pc \in [Id -> Stage] /\ err \in [Id -> Errors] /\ BasicInv /\ TypeOK
      /\ req \in [Id -> HttpRequest \cup {NoRequest}]
      /\ \A e \in gw : e.by \in Id /\ pc[e.by] # "idle"
  BY DEF Inv, BasicInv, TypeOK, FormInv, EffectInv, Effect
<1>1. ASSUME UNCHANGED <<pc, err, gw>>, \A r \in Id : pc[r] # "idle" => req'[r] = req[r]
      PROVE  EarnedInv'
  BY <1>0, <1>1 DEF EarnedInv
<1>2. ASSUME NEW r \in Id, CallPaymentService(r)
      PROVE  EarnedInv'
  BY <1>0, <1>2 DEF CallPaymentService, Arrive, Goto, EarnedInv
<1>3. ASSUME NEW r \in Id, PaymentStep(r)
      PROVE  EarnedInv'
  <2>0. Handler(r) /\ ObeysMock(r) /\ UNCHANGED <<req>> /\ pc[r] # "idle"
    BY <1>0, <1>3, PaymentFrame DEF PaymentStep, apiVars
  <2>1. input[r].op \in {"authorize", "charge"} /\ ~Locks(r)
    BY <2>0, NeverLocks
  <2>2. ASSUME NEW s \in Id
        PROVE  /\ pc'[s] \in {"idle", "idem", "save"} => err'[s] = "nil"
               /\ pc'[s] = "gateway" => TokenizeCard(req[s].body.card) = "nil"
    <3>1. CASE s # r
      BY <1>0, <2>0, <3>1, PaymentFrame DEF EarnedInv
    <3>2. CASE s = r
      BY <1>0, <2>0, <2>1, <3>2, Opening DEF EarnedInv, ObeysMock
    <3> QED
      BY <3>1, <3>2
  <2>3. ASSUME NEW e \in gw', e \notin gw
        PROVE  /\ TokenizeCard(req[e.by].body.card) = "nil"
               /\ Authorize(req[e.by].body) = "nil"
               /\ Parse[req[e.by].key] # Nil
    <3>1. [Next]_vars
      BY <2>0 DEF Next
    <3>2. PICK q \in Id : callGatewayOk(q) /\ e.by = q /\ e.op = input[q].op
      <4>1. PICK q \in Id : /\ callGatewayOk(q) \/ callGatewayErr(q)
                            /\ e.by = q /\ e.op = input[q].op
        BY <2>3, <3>1, NewEffect
      <4>2. ~callGatewayErr(q)
        BY <2>3 DEF callGatewayErr
      <4> QED
        BY <4>1, <4>2
    <3>3. q = r
      BY <1>0, <2>0, <3>2, PaymentFrame DEF callGatewayOk, Goto
    <3>4. pc[r] = "gateway" /\ ~DereferencesNil(r) /\ reply'[r] = "ok"
      BY <1>0, <3>2, <3>3 DEF callGatewayOk, TypeOK
    <3>5. input[r].op = "authorize"
      BY <2>1, <3>4 DEF DereferencesNil, Inv, RefInv
    <3>6. Authorize(req[r].body) = "nil"
      BY <2>0, <3>4, <3>5 DEF ObeysMock, Answer
    <3>7. Parse[req[r].key] # Nil
      <4>1. Parse[input[r].key] # Nil
        BY <1>0, <2>1, <3>4 DEF BasicInv, StageInv
      <4>2. input[r] = [op |-> req[r].route, merchant |-> mout[r],
                        key |-> req[r].key, tx |-> Nil]
        BY <2>0, Served
      <4> QED
        BY <4>1, <4>2
    <3> QED
      BY <3>2, <3>3, <3>4, <3>6, <3>7 DEF EarnedInv
  <2> QED
    BY <2>0, <2>2, <2>3 DEF EarnedInv
<1>4. CASE UNCHANGED allVars
  BY <1>1, <1>4 DEF allVars, vars, apiVars
<1>5. ASSUME NEW r \in Id, ReceiveMerchant(r) \/ MerchantAuth(r)
      PROVE  EarnedInv'
  <2>1. pc[r] = "idle" /\ UNCHANGED <<pc, err, gw>>
    BY <1>5 DEF ReceiveMerchant, MerchantAuth, vars, PlaceInv
  <2>2. \A s \in Id : s # r => req'[s] = req[s]
    BY <1>0, <1>5 DEF ReceiveMerchant, MerchantAuth
  <2> QED
    BY <1>1, <2>1, <2>2
<1>6. ASSUME NEW r \in Id, RefusePayment(r) \/ MerchantStep(r) \/ BackgroundSave(r)
      PROVE  EarnedInv'
  BY <1>1, <1>6
  DEF RefusePayment, MerchantStep, BackgroundSave, saveIdempotency, vars, locals, apiVars
<1>7. CASE Expire
  BY <1>1, <1>7 DEF Expire, expireIdempotency, locals, apiVars
<1> QED
  BY <1>2, <1>3, <1>4, <1>5, <1>6, <1>7 DEF ApiNext, Serve

(* The gateway holds money only for requests the code and the mock accept. *)
THEOREM OnlyEarnedHolds ==
    ASSUME "gateway" \notin Faults
    PROVE  ApiSpec => []HoldsAreEarned
<1>1. ApiInit => EarnedInv
  BY DEF ApiInit, Init, EarnedInv
<1>2. ApiSpec => []EarnedInv
  BY <1>1, EarnedStep, ApiInvariance, PTL DEF ApiSpec
<1>3. Inv /\ MP!Inv /\ PlaceInv /\ EarnedInv => HoldsAreEarned
  <2> SUFFICES ASSUME Inv, MP!Inv, PlaceInv, EarnedInv, NEW e \in gw, NEW q,
                      q = req[e.by]
               PROVE  /\ q.body.bound /\ q.body.amount > 0
                      /\ q.key # Nil /\ Parse[q.key] # Nil
                      /\ q.body.card.valid \/ (Develop /\ q.body.card.number = "success")
                      /\ Develop => q.body.card.number \in {"success", "other"}
    BY DEF HoldsAreEarned
  <2>1. e.by \in Id /\ pc[e.by] # "idle"
    BY DEF Inv, BasicInv, TypeOK, EffectInv, Effect
  <2>2. q \in HttpRequest /\ q.body.bound /\ q.key \in RawKey
    BY <2>1, Served
  <2>3. q.body \in Body
    <3>1. NoBody \in Body
      BY DEF NoBody, Body, Card
    <3> QED
      BY <2>2, <3>1 DEF HttpRequest
  <2>4. q.body.amount \in Int /\ q.body.card \in Card
    BY <2>3 DEF Body
  <2>5. q.body.amount > 0
    BY <2>4 DEF EarnedInv, Authorize
  <2>6. /\ q.body.card.valid \/ (Develop /\ q.body.card.number = "success")
        /\ Develop => q.body.card.number \in {"success", "other"}
    BY <2>4 DEF EarnedInv, TokenizeCard, Card, TestCard, scenarioErr
  <2> QED
    BY <2>2, <2>5, <2>6, NilAssumption DEF EarnedInv
<1> QED
  BY <1>2, <1>3, ApiInvariance, PTL

-----------------------------------------------------------------------------
(* The outcome of a payment request, at the gateway and in its own row.    *)
OutcomeInv ==
    \A r \in Id :
        /\ pc[r] \in {"gateway", "update"} => Matches(r, "pending")
        /\ (\E e \in gw : e.by = r) =>
              \/ pc[r] = "update" /\ reply[r] = "ok"
              \/ pc[r] = "done" /\ err[r] \in {"nil", "dbError"}
        /\ pc[r] = "done" =>
              \/ err[r] \in {"nil", "panic", "dbError"}
              \/ /\ err[r] \in {"ErrTokenizeCard", "ErrDuplicateIdempotencyKey"}
                 /\ r \notin DOMAIN txs
              \/ err[r] = "ErrGatewayRejected" /\ Matches(r, "failed")

(* What a merchant request leaves behind, and with which errors.           *)
LeavesInv ==
    \A r \in Id :
        /\ r \in DOMAIN merchants =>
              minput[r].op = "register" /\ (mpc[r] = "done" => merr[r] \in {"nil", "dbError"})
        /\ merr[r] \in {"nil", "dbError", "ErrMerchantAlreadyExists",
                        "gorm.ErrDuplicatedKey", "gorm.ErrRecordNotFound",
                        "ErrMerchantStatusNotAccepted", "ErrInvalidApiKey",
                        "ErrMerchantNotActive"}
        /\ at[r] = "refused" => minput[r].op # "register"

(* A request that does not lock changes its own row and books only.        *)
LEMMA OwnRow ==
    ASSUME Inv, NEW r \in Id, Handler(r), ~Locks(r), "gateway" \notin Faults
    PROVE  /\ \A s \in Id \ {r} : /\ s \in DOMAIN txs' <=> s \in DOMAIN txs
                                  /\ s \in DOMAIN txs => txs'[s] = txs[s]
                                  /\ reply'[s] = reply[s]
           /\ \A e \in gw' : e \in gw \/ e.by = r
<1>0. /\ reply \in [Id -> {"none", "ok", "err"}] /\ DOMAIN txs \subseteq Id
      /\ pc[r] # "idle" /\ StageInv
  BY PaymentFrame DEF Inv, BasicInv, TypeOK, RepositoryTypeOK
<1>1. CASE cachedIdempotency(r) \/ tokenizeCardToGateway(r)
  BY <1>1 DEF cachedIdempotency, MustParsePanics, CacheHit, CacheMiss,
              tokenizeCardToGateway, tables
<1>2. CASE saveTransaction(r)
  BY <1>2 DEF saveTransaction, Insert
<1>3. CASE callGateway(r)
  BY <1>0, <1>3
  DEF callGateway, callGatewayPanics, callGatewayOk, callGatewayErr, EffectOf, tables
<1>4. CASE updateTransaction(r)
  BY <1>0, <1>4 DEF updateTransaction, Updated, UpdateByQuery, Target
<1> QED
  BY <1>0, <1>1, <1>2, <1>3, <1>4
  DEF Handler, aquireLock, findTransaction, updateRefunded, createRefund, releaseLock,
      StageInv, Locks

(* The steps of one request keep its outcome in order.                     *)
LEMMA OutcomeOwn ==
    ASSUME Inv, OutcomeInv, NEW r \in Id, Handler(r), ~Locks(r), "gateway" \notin Faults
    PROVE  OutcomeInv!(r)'
<1>0. /\ pc \in [Id -> Stage] /\ err \in [Id -> Errors] /\ DOMAIN txs \subseteq Id
      /\ reply \in [Id -> {"none", "ok", "err"}]
      /\ pc[r] # "idle" /\ StageInv /\ ~InCritical(r)
      /\ pc[r] \in {"idem", "save"} => r \notin DOMAIN txs
      /\ input[r].op \in {"authorize", "charge"}
  BY PaymentFrame, InputFacts
  DEF Inv, BasicInv, TypeOK, RepositoryTypeOK, InCritical, RowInv, StageInv, Op, Locks
<1>1. CASE cachedIdempotency(r)
  BY <1>0, <1>1
  DEF cachedIdempotency, MustParsePanics, CacheHit, CacheMiss, Goto, Return, tables,
      OutcomeInv, Matches
<1>2. CASE tokenizeCardToGateway(r)
  BY <1>0, <1>2 DEF tokenizeCardToGateway, Goto, Return, tables, OutcomeInv, Matches
<1>3. CASE saveTransaction(r)
  BY <1>0, <1>3 DEF saveTransaction, Insert, PendingRow, Goto, Return, OutcomeInv, Matches
<1>4. CASE callGateway(r)
  BY <1>0, <1>4
  DEF callGateway, callGatewayPanics, callGatewayOk, callGatewayErr, EffectOf, Goto,
      Return, tables, OutcomeInv, Matches
<1>5. CASE updateTransaction(r)
  <2>1. Matches(r, "pending") /\ From(r) = "pending" /\ Target(r) = r
    BY <1>0, <1>5 DEF updateTransaction, OutcomeInv, From, Target
  <2>2. To(r) = "failed" <=> reply[r] # "ok"
    BY <1>0 DEF To
  <2>3. txs' = Updated(r) => r \in DOMAIN txs' /\ txs'[r].status = To(r)
    BY <2>1, UpdatedFacts DEF Matches, Inv, BasicInv, TypeOK
  <2>4. pc'[r] = "done" /\ UNCHANGED <<gw, input, reply>>
    BY <1>0, <1>5 DEF updateTransaction, Return, Goto
  <2>5. \/ err'[r] = UpdateErr(r) /\ txs' = Updated(r)
        \/ err'[r] = "dbError"
    BY <1>0, <1>5 DEF updateTransaction, Return
  <2> QED
    <3>1. ~(\E e \in gw' : e.by = r) \/ To(r) # "failed"
      BY <1>0, <1>5, <2>2, <2>4 DEF updateTransaction, OutcomeInv
    <3>2. \/ err'[r] = "nil" /\ To(r) # "failed"
          \/ err'[r] = "ErrGatewayRejected" /\ Matches(r, "failed")' /\ To(r) = "failed"
          \/ err'[r] = "dbError"
      BY <2>3, <2>5 DEF UpdateErr, Matches
    <3> QED
      BY <2>4, <3>1, <3>2 DEF Matches
<1> QED
  BY <1>0, <1>1, <1>2, <1>3, <1>4, <1>5
  DEF Handler, aquireLock, findTransaction, updateRefunded, createRefund, releaseLock,
      StageInv, Locks

LEMMA OutcomeStep ==
    ASSUME Inv, MP!Inv, FormInv, PlaceInv, OutcomeInv, "gateway" \notin Faults,
           [ApiNext]_allVars
    PROVE  OutcomeInv'
<1>0. /\ pc \in [Id -> Stage] /\ TypeOK
      /\ \A e \in gw : e.by \in Id /\ pc[e.by] # "idle"
  BY DEF Inv, BasicInv, TypeOK, EffectInv, Effect
<1>1. ASSUME UNCHANGED <<pc, err, gw, reply, txs>>
      PROVE  OutcomeInv'
  BY <1>1 DEF OutcomeInv, Matches
<1>2. ASSUME NEW r \in Id, CallPaymentService(r)
      PROVE  OutcomeInv'
  BY <1>0, <1>2 DEF CallPaymentService, Arrive, Goto, OutcomeInv, Matches, tables
<1>3. ASSUME NEW r \in Id, PaymentStep(r)
      PROVE  OutcomeInv'
  <2>0. Handler(r) /\ ~Locks(r)
    BY <1>0, <1>3, PaymentFrame, NeverLocks DEF PaymentStep
  <2>1. OutcomeInv!(r)'
    BY <2>0, OutcomeOwn
  <2>2. ASSUME NEW s \in Id \ {r}
        PROVE  OutcomeInv!(s)'
    <3>1. /\ pc'[s] = pc[s] /\ err'[s] = err[s] /\ reply'[s] = reply[s]
          /\ s \in DOMAIN txs' <=> s \in DOMAIN txs
          /\ s \in DOMAIN txs => txs'[s] = txs[s]
          /\ (\E e \in gw' : e.by = s) => (\E e \in gw : e.by = s)
      BY <1>0, <2>0, PaymentFrame, OwnRow
    <3> QED
      BY <3>1 DEF OutcomeInv, Matches
  <2> QED
    BY <2>1, <2>2 DEF OutcomeInv
<1>4. ASSUME NEW r \in Id,
             ReceiveMerchant(r) \/ MerchantAuth(r) \/ RefusePayment(r) \/ MerchantStep(r)
      PROVE  OutcomeInv'
  BY <1>1, <1>4 DEF ReceiveMerchant, MerchantAuth, RefusePayment, MerchantStep, vars
<1>5. ASSUME (\E r \in Id : BackgroundSave(r)) \/ Expire
      PROVE  OutcomeInv'
  BY <1>1, <1>5 DEF BackgroundSave, Expire, saveIdempotency, expireIdempotency, locals
<1>6. CASE UNCHANGED allVars
  BY <1>1, <1>6 DEF allVars, vars
<1> QED
  BY <1>2, <1>3, <1>4, <1>5, <1>6 DEF ApiNext, Serve

(* A step of the merchant service keeps what its requests leave in order.  *)
LEMMA LeavesOwn ==
    ASSUME MP!Inv, PlaceInv, LeavesInv, NEW r \in Id, MP!Handler(r), UNCHANGED apiVars
    PROVE  LeavesInv'
<1>0. /\ mpc \in [Id -> MP!Stage] /\ merr \in [Id -> MP!Errors]
      /\ DOMAIN merchants \subseteq Id /\ MP!StageInv /\ MP!LocalInv /\ MP!RowInv
      /\ minput' = minput /\ at' = at
      /\ mpc[r] \notin {"idle", "done"} /\ \A s \in Id \ {r} : mpc'[s] = mpc[s]
  BY MerchantFrame DEF MP!Inv, MP!TypeOK, apiVars
<1>1. CASE MP!findExisting(r)
  BY <1>0, <1>1 DEF MP!findExisting, MP!Goto, MP!Return, LeavesInv, MP!RowInv
<1>2. CASE MP!createMerchant(r)
  BY <1>0, <1>2
  DEF MP!createMerchant, MP!Goto, MP!Return, MP!Insert, LeavesInv, MP!StageInv, MP!RowInv
<1>3. CASE MP!createAPIKey(r)
  BY <1>0, <1>3
  DEF MP!createAPIKey, MP!KeyFailure, MP!Goto, MP!Return, LeavesInv
<1>4. CASE MP!findPending(r)
  BY <1>0, <1>4 DEF MP!findPending, MP!Goto, MP!Return, LeavesInv
<1>5. CASE MP!updateActive(r)
  BY <1>0, <1>5 DEF MP!updateActive, MP!Activated, MP!Goto, MP!Return, LeavesInv
<1>6. CASE MP!findByHashedKey(r)
  BY <1>0, <1>6 DEF MP!findByHashedKey, MP!Goto, MP!Return, LeavesInv, MP!StageInv
<1>7. CASE MP!findMerchant(r)
  BY <1>0, <1>7
  DEF MP!findMerchant, MP!AuthErr, MP!Goto, MP!Return, LeavesInv, MP!StageInv
<1> QED
  BY <1>1, <1>2, <1>3, <1>4, <1>5, <1>6, <1>7 DEF MP!Handler

(* MerchantAuth authenticates.                                             *)
LEMMA AuthInput ==
    ASSUME PlaceInv, NEW r \in Id, at[r] \in {"auth", "service"},
           req[r].route \notin MerchantRoute
    PROVE  minput[r].op # "register"
<1>1. minput[r] = MerchantInput(req[r])
  BY DEF PlaceInv
<1> QED
  BY <1>1 DEF MerchantInput

LEMMA LeavesStep ==
    ASSUME MP!Inv, FormInv, PlaceInv, LeavesInv, [ApiNext]_allVars
    PROVE  LeavesInv'
<1>0. /\ mpc \in [Id -> MP!Stage] /\ minput \in [Id -> MP!Input \cup {MP!NoInput}]
      /\ at \in [Id -> Place] /\ req \in [Id -> HttpRequest \cup {NoRequest}]
      /\ DOMAIN merchants \subseteq Id /\ MP!StageInv /\ MP!RowInv
  BY DEF MP!Inv, MP!TypeOK, FormInv
<1>1. ASSUME UNCHANGED mvars,
             \A r \in Id : at'[r] = "refused" => at[r] = "refused" \/ minput[r].op # "register"
      PROVE  LeavesInv'
  BY <1>1 DEF LeavesInv, mvars
<1>2. ASSUME NEW r \in Id, ReceiveMerchant(r) \/ MerchantAuth(r)
      PROVE  LeavesInv'
  <2>1. mpc[r] = "idle" /\ minput[r] = MP!NoInput /\ r \notin DOMAIN merchants
    BY <1>0, <1>2 DEF ReceiveMerchant, MerchantAuth, PlaceInv, MP!StageInv, MP!RowInv
  <2>2. CASE at'[r] = "refused" /\ UNCHANGED mvars
    BY <1>0, <1>1, <1>2, <2>1, <2>2
    DEF ReceiveMerchant, MerchantAuth, Refuse, Enter, MP!NoInput
  <2>3. CASE /\ at' = [at EXCEPT ![r] = at'[r]] /\ at'[r] # "refused"
             /\ M!Arrive(r)
    <3>1. /\ UNCHANGED <<merchants, merr>>
          /\ \A s \in Id \ {r} : minput'[s] = minput[s] /\ mpc'[s] = mpc[s]
      BY <1>0, <2>3 DEF M!Arrive, M!Goto
    <3> QED
      BY <1>0, <2>1, <2>3, <3>1 DEF LeavesInv
  <2> QED
    BY <1>0, <1>2, <2>2, <2>3 DEF ReceiveMerchant, MerchantAuth, Refuse, Enter
<1>3. ASSUME NEW r \in Id, RefusePayment(r)
      PROVE  LeavesInv'
  <2>1. minput[r].op # "register"
    BY <1>3, AuthInput DEF RefusePayment, PlaceInv
  <2> QED
    BY <1>0, <1>1, <1>3, <2>1 DEF RefusePayment, Refuse
<1>4. ASSUME NEW r \in Id, CallPaymentService(r)
      PROVE  LeavesInv'
  BY <1>0, <1>1, <1>4 DEF CallPaymentService, Enter
<1>5. ASSUME NEW r \in Id, MerchantStep(r)
      PROVE  LeavesInv'
  BY <1>5, MerchantHandler, LeavesOwn DEF MerchantStep
<1>6. ASSUME (\E r \in Id : PaymentStep(r) \/ BackgroundSave(r)) \/ Expire
      PROVE  LeavesInv'
  BY <1>1, <1>6 DEF PaymentStep, BackgroundSave, Expire, apiVars
<1>7. CASE UNCHANGED allVars
  BY <1>1, <1>7 DEF allVars, apiVars
<1> QED
  BY <1>2, <1>3, <1>4, <1>5, <1>6, <1>7 DEF ApiNext, Serve

(* A refusal leaves nothing behind, a 402 only a failed transaction.       *)
THEOREM RefusalsAreClean ==
    ASSUME "gateway" \notin Faults
    PROVE  ApiSpec => []RefusalsLeaveNothing
<1>1. ApiInit => OutcomeInv /\ LeavesInv
  BY DEF ApiInit, Init, RepositoryInit, M!Init, M!NoInput, OutcomeInv, LeavesInv
<1>2. Inv /\ MP!Inv /\ FormInv /\ PlaceInv /\ OutcomeInv /\ LeavesInv /\ [ApiNext]_allVars
      => OutcomeInv' /\ LeavesInv'
  BY OutcomeStep, LeavesStep
<1>3. ApiSpec => [](OutcomeInv /\ LeavesInv)
  BY <1>1, <1>2, ApiInvariance, PTL DEF ApiSpec
<1>4. Inv /\ MP!Inv /\ PlaceInv /\ OutcomeInv /\ LeavesInv => RefusalsLeaveNothing
  <2> SUFFICES ASSUME Inv, MP!Inv, PlaceInv, OutcomeInv, LeavesInv,
                      NEW r \in Id, Code(r) \in 400 .. 499
               PROVE  /\ \A e \in gw : e.by # r
                      /\ IF Code(r) = 402 THEN r \in DOMAIN txs /\ txs[r].status = "failed"
                         ELSE r \notin DOMAIN txs \cup DOMAIN merchants \cup DOMAIN keys
    BY DEF RefusalsLeaveNothing
  <2>0. /\ r \in DOMAIN keys => r \in DOMAIN merchants
        /\ pc[r] = "idle" => r \notin DOMAIN txs /\ \A e \in gw : e.by # r
    BY DEF MP!Inv, MP!KeyInv, Inv, RowInv, EffectInv
  <2>1. CASE at[r] = "refused"
    BY <2>0, <2>1 DEF PlaceInv, LeavesInv, Code
  <2>2. CASE at[r] = "service" /\ req[r].route \in MerchantRoute
    <3>0. pc[r] = "idle" /\ at[r] # "refused" /\ ~Answered(r)
      BY <2>2 DEF PlaceInv, Answered
    <3>1. mpc[r] = "done" /\ merr[r] # "nil" /\ Code(r) = mapErrStatusCode(merr[r])
      BY <2>2, <3>0 DEF Code, M!Answered
    <3>2. merr[r] # "dbError" /\ Code(r) # 402
      BY <3>1
      DEF LeavesInv, mapErrStatusCode, NotFound, NotAcceptable, Conflict, Unprocessable,
          PaymentRequired
    <3> QED
      BY <2>0, <3>0, <3>1, <3>2 DEF LeavesInv
  <2>3. CASE at[r] = "service" /\ req[r].route \notin MerchantRoute
    <3>1. pc[r] = "done" /\ err[r] # "nil" /\ Code(r) = mapErrStatusCode(err[r])
      BY <2>3 DEF Code, Answered
    <3>2. r \notin DOMAIN merchants
      BY <2>3, AuthInput DEF LeavesInv
    <3>3. err[r] \in {"ErrTokenizeCard", "ErrDuplicateIdempotencyKey", "ErrGatewayRejected"}
      BY <3>1
      DEF OutcomeInv, mapErrStatusCode, NotFound, NotAcceptable, Conflict, Unprocessable,
          PaymentRequired
    <3>4. (Code(r) = 402) <=> (err[r] = "ErrGatewayRejected")
      BY <3>1, <3>3
      DEF mapErrStatusCode, NotFound, NotAcceptable, Conflict, Unprocessable,
          PaymentRequired
    <3> QED
      BY <2>0, <3>1, <3>2, <3>3, <3>4 DEF OutcomeInv, Matches
  <2> QED
    BY <2>1, <2>2, <2>3 DEF Code
<1> QED
  BY <1>3, <1>4, ApiInvariance, PTL
=============================================================================
