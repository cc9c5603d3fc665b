----------------------------- MODULE PaymentApi -----------------------------
(***************************************************************************)
(* The HTTP interface: the routes of internal/router, the middlewares, the *)
(* handlers of internal/handler with httpx and mapper, and the response    *)
(* envelope, composed with the two services behind them and with the mock  *)
(* gateway that the router gives the payment service.                      *)
(*                                                                         *)
(* A request is a goroutine.  One for a merchant route is bound and passed *)
(* on to MerchantService.  One for a payment route passes MerchantAuth,    *)
(* which runs ValidateAPIKey of MerchantService, then, on some routes,     *)
(* RequireIdempotencyKey, then its handler, which answers it or calls      *)
(* PaymentService.  All of this but the calls is local code.               *)
(***************************************************************************)
EXTENDS PaymentService, MockGateway

CONSTANTS
    Email,
    Requests,       \* Requests[r]: the HTTP requests r may be
    MerchantFaults  \* what may fail under MerchantService, as Faults does
                    \* for PaymentService

VARIABLES
    merchants, keys, mpc, minput, mfound, mout, merr,   \* of MerchantService
    req,        \* the HTTP request r is
    at,         \* how far it is: see Place
    code        \* the status code of a request that no service answered

MerchantRoute == {"register", "activate"}

(* Mutant of withIdemKey: Charge is registered next to Capture and Void.   *)
withIdemKeyNoCharge == {"authorize", "refund"}

(* The routes RequireIdempotencyKey guards.                                *)
withIdemKey == {"authorize", "charge", "refund"}

(* The handlers that bind a body and take their input from ToChargeInput;  *)
(* the other payment handlers take it from GetPaymentMeta.                 *)
ChargeRoute == {"authorize", "charge"}

NoBody == [bound |-> TRUE, card |-> [number |-> "other", valid |-> TRUE],
           amount |-> 0, currency |-> 0]

(* An absent header, and a transaction_id that uuid.Parse refuses, are Nil.*)
HttpRequest ==
    [route : MerchantRoute, email : Email, apiKey : {Nil}, key : {Nil}, tx : {Nil},
     body : Body]
    \cup [route : ChargeRoute, email : {Nil}, apiKey : Id \cup {Nil},
          key : RawKey \cup {Nil}, tx : {Nil}, body : Body]
    \cup [route : {"capture", "void", "refund"}, email : {Nil}, apiKey : Id \cup {Nil},
          key : RawKey \cup {Nil}, tx : Id \cup {Nil}, body : {NoBody}]

NoRequest == [route |-> "none", email |-> Nil, apiKey |-> Nil, key |-> Nil, tx |-> Nil,
              body |-> NoBody]

(* Nowhere yet, in MerchantAuth, in a service, or answered before a        *)
(* service was called.                                                     *)
Place == {"idle", "auth", "service", "refused"}

(* merchant ids are the registrations that drew them, and the services     *)
(* take any input: which ones they get is decided here.                    *)
ASSUME MerchantAssumption == Merchant = Id
ASSUME EmailAssumption == Nil \notin Email
ASSUME AnyInputAssumption == Workload = [r \in Id |-> Input]

(* A process that dies is the subject of the specifications of the         *)
(* services and of Server.                                                 *)
ASSUME NoCrashAssumption == "crash" \notin Faults /\ MerchantFaults \subseteq {"db"}

ASSUME RequestsAssumption == \A r \in Id : Requests[r] \subseteq HttpRequest

apiVars == <<req, at, code>>
mvars == <<merchants, keys, mpc, minput, mfound, mout, merr>>
allVars == <<vars, mvars, apiVars>>

(* What MerchantService is called with: RegisterInput, the email to        *)
(* activate, or the API key of a payment request.                          *)
MerchantInput(q) ==
    IF q.route \in MerchantRoute
    THEN [op |-> q.route, email |-> q.email, key |-> Nil]
    ELSE [op |-> "authenticate", email |-> Nil, key |-> q.apiKey]

M == INSTANCE MerchantService WITH
    pc <- mpc, input <- minput, found <- mfound, out <- mout, err <- merr,
    Workload <- [r \in Id |->
        {MerchantInput(q) : q \in {p \in Requests[r] :
            p.route \in MerchantRoute \/ p.apiKey # Nil}}],
    Faults <- MerchantFaults

ApiInit ==
    /\ Init /\ M!Init
    /\ req = [r \in Id |-> NoRequest]
    /\ at = [r \in Id |-> "idle"]
    /\ code = [r \in Id |-> 0]

ApiTypeOK ==
    /\ TypeOK /\ M!TypeOK
    /\ \A r \in Id : req[r] \in Requests[r] \cup {NoRequest}
    /\ at \in [Id -> Place]
    /\ code \in [Id -> {0, 400, 401, 500}]

-----------------------------------------------------------------------------
(* The gin context of a payment request: what MerchantAuth and             *)
(* RequireIdempotencyKey have put in it, with its dynamic type.            *)
MerchantIDKey(r) ==
    IF merr[r] = "nil" THEN [type |-> "uuid.UUID", value |-> mout[r]]
    ELSE [type |-> "none", value |-> Nil]

IdempotencyKeyContextKey(r) ==
    IF req[r].route \in withIdemKey
    THEN [type |-> "string", value |-> req[r].key]
    ELSE [type |-> "none", value |-> Nil]

(* GetPaymentMeta: the path parameter and both values, each a uuid.UUID.   *)
GetPaymentMeta(r) ==
    /\ req[r].tx # Nil
    /\ MerchantIDKey(r).type = "uuid.UUID"
    /\ IdempotencyKeyContextKey(r).type = "uuid.UUID"

(* The type assertions of ToChargeInput, which panic when they fail.       *)
ToChargeInputOK(r) ==
    /\ MerchantIDKey(r).type = "uuid.UUID"
    /\ IdempotencyKeyContextKey(r).type = "string"

(* What the handlers call PaymentService with.                             *)
ServiceInput(r) ==
    [op |-> req[r].route, merchant |-> MerchantIDKey(r).value,
     key |-> IF req[r].route \in withIdemKey THEN IdempotencyKeyContextKey(r).value ELSE Nil,
     tx |-> req[r].tx]

BadRequest == 400

(* Mutant of Unauthorized: Forbidden.                                      *)
UnauthorizedForbidden == 403

Unauthorized == 401

(* The code a payment request is answered with by its middlewares or its   *)
(* handler before the service is called; 0 when the service is called.     *)
Refusal(r) ==
    IF merr[r] # "nil" \/ (req[r].route \in withIdemKey /\ req[r].key = Nil)
    THEN Unauthorized
    ELSE IF req[r].route \notin ChargeRoute
         THEN IF GetPaymentMeta(r) THEN 0 ELSE BadRequest
    ELSE IF ~req[r].body.bound THEN BadRequest
    ELSE IF ~ToChargeInputOK(r) THEN 500
    ELSE 0

(* The code of a request is chosen and, with it, its answer.               *)
Refuse(r, c) ==
    /\ at' = [at EXCEPT ![r] = "refused"]
    /\ code' = [code EXCEPT ![r] = c]

Enter(r, place) == at' = [at EXCEPT ![r] = place] /\ UNCHANGED code

-----------------------------------------------------------------------------
(* The handlers of merchant.                                               *)
ReceiveMerchant(r) ==
    /\ at[r] = "idle"
    /\ \E q \in Requests[r] :
          /\ q.route \in MerchantRoute
          /\ req' = [req EXCEPT ![r] = q]
          /\ IF q.body.bound
             THEN /\ M!Arrive(r) /\ minput'[r] = MerchantInput(q)
                  /\ Enter(r, "service")
             ELSE Refuse(r, BadRequest) /\ UNCHANGED mvars
    /\ UNCHANGED vars

(* MerchantAuth, as far as ValidateAPIKey.                                 *)
MerchantAuth(r) ==
    /\ at[r] = "idle"
    /\ \E q \in Requests[r] :
          /\ q.route \notin MerchantRoute
          /\ req' = [req EXCEPT ![r] = q]
          /\ IF q.apiKey # Nil
             THEN /\ M!Arrive(r) /\ minput'[r] = MerchantInput(q)
                  /\ Enter(r, "auth")
             ELSE Refuse(r, Unauthorized) /\ UNCHANGED mvars
    /\ UNCHANGED vars

(* The rest of the chain, when it does not reach the service.              *)
RefusePayment(r) ==
    /\ at[r] = "auth" /\ mpc[r] = "done"
    /\ Refusal(r) # 0
    /\ Refuse(r, Refusal(r))
    /\ UNCHANGED <<vars, mvars, req>>

(* And when it does.                                                       *)
CallPaymentService(r) ==
    /\ at[r] = "auth" /\ mpc[r] = "done"
    /\ Refusal(r) = 0
    /\ Arrive(r) /\ input'[r] = ServiceInput(r)
    /\ Enter(r, "service")
    /\ UNCHANGED <<mvars, req>>

(* The services run.  The gateway they call is the mock.                   *)
MerchantStep(r) == M!Handler(r) /\ UNCHANGED <<vars, apiVars>>

Answer(r) ==
    CASE input[r].op = "authorize"             -> Authorize(req[r].body)
      [] input[r].op \in {"charge", "capture"} -> Capture(gw_mock_001)
      [] input[r].op = "void"                  -> Void(gw_mock_001)
      [] OTHER              -> Refund(gw_mock_001, req[Target(r)].body.amount)

ObeysMock(r) ==
    /\ pc[r] = "save" =>
          (err'[r] = "ErrTokenizeCard") = (TokenizeCard(req[r].body.card) # "nil")
    /\ pc[r] = "gateway" /\ ~DereferencesNil(r) =>
          (reply'[r] = "ok") = (Answer(r) = "nil")

PaymentStep(r) ==
    /\ Handler(r) /\ ObeysMock(r)
    /\ UNCHANGED <<mvars, apiVars>>

BackgroundSave(r) == saveIdempotency(r) /\ UNCHANGED <<mvars, apiVars>>

(* 24 hours pass.  No request that comes over HTTP gets as far as a lock   *)
(* (see SettlementsAsDocumented), so none expires.                         *)
Expire == (\E k \in Uuid : expireIdempotency(k)) /\ UNCHANGED <<mvars, apiVars>>

(* What happens to a request that has arrived.                             *)
Serve(r) ==
    RefusePayment(r) \/ CallPaymentService(r) \/ MerchantStep(r) \/ PaymentStep(r)

ApiNext ==
    \/ \E r \in Id : ReceiveMerchant(r) \/ MerchantAuth(r) \/ Serve(r) \/ BackgroundSave(r)
    \/ Expire

ApiSpec == ApiInit /\ [][ApiNext]_allVars

-----------------------------------------------------------------------------
(* The status code of the answer to r, 0 while there is none.              *)
Code(r) ==
    LET Status(e, success) == IF e = "nil" THEN success ELSE mapErrStatusCode(e)
    IN  CASE at[r] = "refused" -> code[r]
          [] at[r] = "service" /\ M!Answered(r) /\ req[r].route \in MerchantRoute ->
                Status(merr[r], IF req[r].route = "register" THEN 201 ELSE 200)
          [] at[r] = "service" /\ Answered(r) ->
                Status(err[r], IF req[r].route = "authorize" THEN 201 ELSE 200)
          [] OTHER -> 0

(* Properties.                                                             *)

(* Every stored transaction belongs to the merchant whose API key its      *)
(* request presented, and that merchant is stored and active: MerchantAuth *)
(* has looked at the key and at the merchant before, in two statements of  *)
(* another service, and registrations and activations go on meanwhile.     *)
ServedMerchantsAreActive ==
    \A t \in DOMAIN txs :
        /\ req[t].apiKey \in DOMAIN keys
        /\ keys[req[t].apiKey] = txs[t].merchant
        /\ txs[t].merchant \in DOMAIN merchants
        /\ merchants[txs[t].merchant].status = "active"

(* A successful answer that names a transaction names one of the merchant  *)
(* behind the API key that was presented, with a status it has reached,    *)
(* although idempotency keys are shared by all merchants.                  *)
AnswersNameOwn ==
    \A r \in Id :
        /\ Code(r) \in {200, 201} /\ req[r].route \notin MerchantRoute
        /\ out[r].id # Nil
        => /\ out[r].id \in DOMAIN txs
           /\ keys[req[r].apiKey] = txs[out[r].id].merchant
           /\ txs[out[r].id].status \in Since(out[r].status)

(* The gateway holds money only for a well-formed request with a valid     *)
(* card and an idempotency key that is a UUID; a test card that stands for *)
(* a rejection is never charged in development.                            *)
HoldsAreEarned ==
    \A e \in gw :
        LET q == req[e.by]
        IN  /\ q.body.bound /\ q.body.amount > 0 /\ q.key # Nil /\ Parse[q.key] # Nil
            /\ q.body.card.valid \/ (Develop /\ q.body.card.number = "success")
            /\ Develop => q.body.card.number \in {"success", "other"}

(* What an error tells a merchant to do is safe to do: after a 4xx answer  *)
(* other than 402 the request has stored nothing and holds nothing, so it  *)
(* may be sent again; after a 402 its transaction has failed and the       *)
(* gateway holds nothing.  Only a 500 leaves the outcome open.             *)
RefusalsLeaveNothing ==
    \A r \in Id : Code(r) \in 400 .. 499 =>
        /\ \A e \in gw : e.by # r
        /\ IF Code(r) = 402 THEN r \in DOMAIN txs /\ txs[r].status = "failed"
           ELSE r \notin DOMAIN txs \cup DOMAIN merchants \cup DOMAIN keys

(* No handler panics before it calls its service: whatever ToChargeInput   *)
(* asserts has been put into the context, with that type, by a middleware  *)
(* of its route.                                                           *)
NoPanicBeforeService == \A r \in Id : at[r] = "refused" => Code(r) # 500

(* What readme.md says and the code does not do.                           *)

(* readme.md 5.2.2, 5.3, 5.4: what a capture, void or refund with the API  *)
(* key of a merchant the service knows, for a transaction_id that is one,  *)
(* is answered.                                                            *)
SettlementsAsDocumented ==
    \A r \in Id :
        /\ Code(r) # 0 /\ req[r].route \in {"capture", "void", "refund"}
        /\ req[r].apiKey # Nil /\ merr[r] = "nil" /\ req[r].tx # Nil
        /\ req[r].route = "refund" => req[r].key # Nil
        => Code(r) \in {200, 402, 404, 409, 422}
=============================================================================
