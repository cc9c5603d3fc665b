# A verification project for card-payment-service

TLA+ models of the payment service, of the merchant service, of the HTTP layer in
front of both and of the process around them; runs that check them with TLC; and
theorems that TLAPS proves about them. Paths below are relative to the repository.

## 1. The system

An HTTP service (gin) through which merchants authorize, charge, capture, void
and refund card payments. State lives in PostgreSQL (through gorm), in Redis and
at a third-party payment gateway; the process itself keeps none between requests.

| Part | State it keeps | Operations |
| --- | --- | --- |
| Payment service (`internal/service/payment_*.go`) | none of its own | `Authorize`, `Charge`, `Capture`, `Void`, `Refund` |
| Repositories (`internal/repository`, `migrations/`) | tables `transactions`, `idempotency_keys`, `refunds`, `merchants`, `api_keys` | insert, look up, conditional update |
| Transaction lock (`internal/infra/redis/lock.go`) | one Redis key per transaction, TTL 5 s | `Acquire`, `Release`, expiry |
| Gateway (`internal/gateway`) | what it has carried out (third party) | authorize, capture, void, refund, tokenize |
| Merchant service (`internal/service/merchant_*.go`) | none of its own | `Register`, `Activate` |
| Authentication (`internal/service/auth`, `internal/middleware`) | none | `ValidateAPIKey`, the two middlewares |
| HTTP layer (`internal/router`, `internal/handler`, `internal/httpx`, `internal/middleware`) | gin context of a request | routes, middlewares, binding, metadata of a request, the response envelope |
| Error table (`internal/response/error.go`) | none | `mapErrStatusCode` |
| Server (`cmd/server/main.go`) | two connection pools, a listener, the signal channel | start, listen, shut down |
| Mock gateway (`internal/gateway/mock_gateway.go`) | none | the gateway that `router.go` wires in |
| Webhook simulator (`tools/`) | none | a developer's tool |

**How they interact.** Every request is a goroutine that calls a method of the
payment service; the method calls the repositories, the lock and the gateway one
after the other and synchronously. Requests share nothing but the tables, the
Redis keys and the gateway. `Authorize`, `Charge` and `Refund` leave one thing
behind: a goroutine that stores the response under the idempotency key after the
handler has returned. There is no retry inside the service and no webhook
handler: a refund is stored as `processing` and nothing in the code completes it.

**What is hard.** No two statements of a handler run in one database
transaction, so every prefix of a handler can be observed, interleaved with other
requests, or be all that happens before a crash. The lock expires after 5 s
whether its holder has finished or not. An idempotency entry is written late, may
be lost, and may be there already for another operation or merchant. The answer
of a gateway call may be lost after the gateway has acted. An update that matches
no row is not reported. On a signal the process waits for its handlers, but for 10
s only, and never for the goroutines they have left behind; then it closes Redis and
PostgreSQL under whatever still runs.

**What makes each part correct.**

* Payment service: a transaction keeps to its lifecycle and never claims more
  than the gateway has done; the gateway is asked at most once for a hold, a
  settlement, a refund; answers stay true; retries agree; a merchant acts on its
  own transactions only.
* Lock: one request at a time in the critical section, no lock released by
  somebody else, no lock held for ever.
* Repositories: uniqueness where the service relies on it, updates that are
  conditional on the status read before.
* Merchant service and authentication: one merchant per email, a secret that was
  handed out works, a key lets its own merchant in only, and only once activated.
* HTTP layer: whoever is served is who the API key says; nothing panics before a
  service is called; a status code tells the client what it may safely do next.
* Server: requests that are waited for are finished with both stores open, a signal
  ends the process, and no restart adds a behaviour the service has not without it.

## 2. The modules

| Module | Models | Kind |
| --- | --- | --- |
| `Domain` | `internal/domain`, the error table | operators |
| `RedisLock` | `internal/infra/redis/lock.go` | state and operations, composed by `PaymentService` |
| `Repository` | `internal/repository`, `migrations/0002`, `0003` | state and operations, composed by `PaymentService` |
| `PaymentService` | `internal/service/payment_*.go` and the composition of all of the above | specification and properties |
| `PaymentLedger` | what the payment service promises of each transaction | abstract specification |
| `PaymentServiceProofs` | theorems about `PaymentService` under every fault, and the lock | proofs |
| `SettlementProofs` | theorems about answers, settlements and refunds | proofs |
| `AccountingProofs` | theorems about what requests leave behind, retries and rejections | proofs |
| `MCPayment` | instances of `PaymentService` for TLC | model-checking module |
| `MerchantService` | `internal/service/merchant_*.go`, `internal/service/auth`, the merchant and API key repositories, `migrations/0001` | specification and properties |
| `Accounts` | what the merchant service promises its clients | abstract specification |
| `MerchantServiceProofs` | theorems about `MerchantService` | proofs |
| `MCMerchant` | instances of `MerchantService` for TLC | model-checking module |
| `MockGateway` | `internal/gateway/mock_gateway.go`, `test_cards.go` | operators |
| `PaymentApi` | `internal/router`, `internal/middleware`, `internal/handler` with `httpx` and `mapper`, the status codes of `internal/response`; composes `PaymentService`, `MerchantService` and `MockGateway` | specification and properties |
| `PaymentApiProofs` | theorems about `PaymentApi` | proofs |
| `MCApi` | instances of `PaymentApi` for TLC | model-checking module |
| `Server` | `cmd/server/main.go` around `PaymentService` | specification and properties |
| `ServerProofs` | theorems about `Server` | proofs |
| `MCServer` | instances of `Server` for TLC | model-checking module |

`PaymentService` and `MerchantService` are specifications of their own: the two
services meet in nothing but the merchant a request is authenticated as.
`PaymentApi` has the variables of both and lets a request pass from one to the
other, as the middlewares and handlers do; `Server` puts the life of the process
around `PaymentService`. Each composition is proved to implement the specification
of what it composes (section 4), so what holds of a service holds inside it.

### State of `PaymentService`

* `txs`, `idem`, `refunds`: the tables, as functions from primary keys to rows.
  A row has the columns the properties tell apart. Card data, amounts, currency,
  description, failure reason and timestamps are left out: the code copies them
  and decides nothing by them. `live` stands for `expires_at > NOW()`.
* `lock`: the Redis keys `lock:tx:<id>`.
* `gw`: what the gateway has carried out, each effect with the request (`by`)
  that asked for it.
* `pc`, `input`, `ref`, `reply`, `out`, `err`: per request, the stage it is in
  and the locals of the handler: its input struct, `tx.GatewayRef` as read,
  how the gateway call ended, and what it returns.
* `bg`: requests whose `go s.saveIdempotency(...)` has not finished.

`Id` holds the UUIDs of requests. `uuid.New()` never repeats, and a request
inserts at most one transaction or refund and acquires at most one lock, so the
identifier of a request also stands for the UUID of what it inserts and for the
value of the lock it sets.

### Actions of `PaymentService`

A step is one access to shared state with the local code around it:

| Action | Code |
| --- | --- |
| `Arrive` | a handler is called with an input of its workload |
| `cachedIdempotency` = `MustParsePanics`, `CacheHit`, `CacheMiss` | `uuid.MustParse` and `cachedIdempotency` |
| `tokenizeCardToGateway` | the gateway refuses the card (an accepted card is part of the next step: it has no effect of its own) |
| `saveTransaction` | `saveTransaction` and `transactionRepository.Create` |
| `aquireLock` | `aquireLock` and `redisLock.Acquire` |
| `findTransaction` | `getTxAuthorized`, Void's second check, Refund's look-up and checks |
| `callGateway` = `callGatewayPanics`, `callGatewayOk`, `callGatewayErr` | `callGatewayAuthorize`, `-Capture`, `-Void`, `-Refund` |
| `updateTransaction` | the conditional update of Authorize, Charge, Capture and Void, the output, the start of the background save |
| `updateRefunded`, `createRefund` | the two statements of `createRefundAndUpdateTx`, the rest of `Refund` |
| `releaseLock` | the deferred `Release` |
| `saveIdempotency` | the background goroutine |
| `expireIdempotency`, `expireLock` | 24 hours, 5 seconds pass |
| `crash` | the process dies and starts again |

Where a statement can fail, the failing case may or may not have taken effect:
a connection can break after the server has executed the statement.

`TransactionRepository.Create` returns `ErrDuplicateIdempotencyKey` because
`internal/infra/database/postgres.go` opens gorm with `TranslateError: true`.
gorm writes the values of an update into the struct it is given and fills the
rest from `RETURNING`: when no row matches, the struct has the new status and a
zero id, and the error is nil. go-redis reports the nil reply to `SET NX` as
`redis.Nil`; the branches of `lock.go` and `aquireLock` for an empty value are
not reachable and so have no action.

### `MerchantService`

`merchants` and `keys` are the tables `merchants` and `api_keys`; `keys` maps the
secret (which stands for its hash) to the `merchant_id` of the row. A registration
is `findExisting`, `createMerchant`, `createAPIKey`; an activation `findPending`,
`updateActive`; the validation of an API key `findByHashedKey`, `findMerchant`;
`crash` stops all of them. `revoked_at` is left out because no code reads or
writes it; the same goes for the status `suspended`, which stays in the type.

### `PaymentApi`

Beside the variables of the two services (those of `MerchantService` renamed
`mpc`, `minput`, `mfound`, `mout`, `merr`) it has, per request, `req` (the HTTP
request), `at` (nowhere yet, in `MerchantAuth`, in a service, or answered before a
service was called) and `code` (the status of such an answer).

| Action | Code |
| --- | --- |
| `ReceiveMerchant` | the handlers of `merchant_handler.go`: bind the body or answer 400, call the service |
| `MerchantAuth` | `middleware/merchant_auth.go` as far as `ValidateAPIKey`; an absent header is answered 401 |
| `RefusePayment`, `CallPaymentService` | the rest of the chain: the result of `ValidateAPIKey`, `RequireIdempotencyKey` on the routes that have it, then `GetPaymentMeta` or the binding and `ToChargeInput`; `Refusal` is the order of their early returns |
| `MerchantStep`, `PaymentStep` | a step of the service; `ObeysMock` makes the gateway answer as `MockGateway` does |
| `BackgroundSave`, `Expire` | as in `PaymentService` |

`MerchantIDKey` and `IdempotencyKeyContextKey` are the two values of the gin context
with their dynamic types, because the type assertions on them decide which requests
go on. `Code` is the status code of an answer, from the refusal or through
`mapErrStatusCode`.

### `Server`

`main` is what `main()` does next, `listener` how far the goroutine of
`ListenAndServe` is, `shutdownErr` what `srv.Shutdown` has returned. `start`,
`connect`, `startServer`, `ListenAndServe`, `notify`, `signal`, `Shutdown`,
`closeRedis`, `CloseDB` and `return` follow `main.go` line by line; `kill` is the
end of the process at any time, or by a signal that arrives before `signal.Notify`.
`Request` lets a request arrive while the port is open, and, on a connection accepted
before, while the server drains (`listener = "draining"`, until `Shutdown` has found no
connection in use). `ServeClosed` and
`BackgroundSaveClosed` are steps on a client that has been closed: they fail and
leave the stores alone, and what the handler makes of the error is the failing case
of the same action of `PaymentService` (an instance of it with `"db"` and `"redis"`
among the faults).

### Assumptions about what is outside

* In `PaymentService` the gateway is the third party the interface `Gateway` stands
  for. It may accept, reject, or answer late; with `"gateway" \in Faults` an answer
  may be lost after the call was carried out. Each accepted authorization has a
  reference of its own.
* In `PaymentApi` the gateway is the mock that `router.go` gives the service. It
  answers one constant to every authorization (`gw_mock_001`); the references of
  `PaymentService` tell authorizations apart all the same, which makes no
  difference here, because no capture, void or refund gets as far as the gateway
  over HTTP.
* PostgreSQL executes statements atomically and its constraints hold; Redis
  executes commands and scripts atomically. Neither loses data in a restart of
  the service.
* As committed, `internal/handler/mapper/payment_mapper.go` imports a package
  `internal/service/payment` that does not exist. `PaymentApi` takes the mapper as
  it reads, with the import that was meant (`internal/service`).
* Card numbers are named by what `test_cards.go` makes of them, a card is valid or
  not (the library `go-credit-card` decides), and a body is accepted by
  `ShouldBindJSON` or not.

`Faults` says what the environment of a run may do: `"slow"` (a handler outlives
the TTL of its lock), `"crash"`, `"db"`, `"redis"`, `"gateway"`.

## 3. The runs

`MerchantRace` and `MerchantNoKey` use `MCMerchant`, `PaymentApi` and
`SettlementBlocked` `MCApi`, `PaymentRace` `MCServer`, and the others `MCPayment`.
`CHECK_DEADLOCK FALSE`: a workload is finite, and when every request is answered
and every entry has expired the server has nothing to do. The numbers are
distinct states.

| Run | Instance | Properties | Shows |
| --- | --- | --- | --- |
| `PaymentRace` | a process that starts, is killed, gets signals and shuts down; one authorization, one request that retries it or captures it, one that captures, voids or refunds it; `"crash"`, `"redis"`, `"gateway"`, and the failures of closed stores | `ServerTypeOK`, `SettledOnce`, `EffectsRecorded`, `RetriesAgree`, `ServedWithStoresOpen`, `ShutdownEnds`, `FailedByDeadline` | as long as no lock expires under its holder, the gateway settles and refunds once for the requests it answers, the books agree with it and retries agree, in whatever state the process is stopped, but for requests that were cut short: by a stop, a lost answer or a statement that failed; a statement fails only after `Shutdown` gave up, the stores stay open until then, and a shutdown ends (601 000 states) |
| `PaymentFaults` | one authorization, one capture, two refunds, fairness; `"crash"`, `"redis"`, `"gateway"` | `OneInCritical`, `OneRefundRow`, `SettledOnce`, `RetriesAgree`, `LockFreed`, `PendingResolved` | the lock protects through crashes, failed releases and lost replies; one refund row per transaction although the update does not look at what it matched, and one refund at the gateway for requests that were not cut short; locks become free and pending transactions are resolved (86 200) |
| `PaymentSlow` | one authorization, a capture, a void or refund, and a refund; every fault but `"redis"` | `ResponsesHold`, `RefundsBooked`, `LocksAccounted`, `RefusedUntouched`, `LedgerSpec`, `OnlyOwnLockReleased`, `HistoryKept` | what does not depend on the lock: the conditional updates keep the ledger right, answers true, refunds and their rows together and history unwritten; who is turned away leaves nothing; every lock has a reason, and the script spares foreign ones (822 000) |
| `PaymentKeys` | four requests with keys reused by retries, by a second merchant, by another operation; foreign transactions; keys that are not UUIDs; `"slow"`, `"crash"`, `"db"` | `TypeOK`, `OneHoldPerKey`, `OwnTransactionsOnly`, `PanicsOnlyInCharge`, `ResponsesHold`, `RetriesAgree`, `PendingAccounted`, `RejectionsStick` | idempotency and isolation of merchants; rejections stay rejections, and a transaction stays pending for a reason (1 454 000) |
| `PaymentApi` | two registrations, two activations, an authorization, and one request of any kind: every route, keys of nobody and of either merchant, absent and malformed headers, bodies that are refused at each place; the mock gateway in development; `"db"` | `ApiTypeOK`, `ServedMerchantsAreActive`, `AnswersNameOwn`, `HoldsAreEarned`, `RefusalsLeaveNothing`, `NoPanicBeforeService` | both services behind HTTP: who is served, whose transactions are named, what is held, and what a status code promises (195 000) |
| `MerchantRace` | registrations of one email and of two, activations, API keys; `"crash"`, `"db"` | `TypeOK`, `OneMerchantPerEmail`, `CredentialsWork`, `ActiveOnRequest`, `AuthenticatedAreActive`, `AccountsSpec` | the merchant service is safe although no two of its statements are one transaction, and implements `Accounts` (386 000) |

`RetriesAgree`, and `RejectionsStick` for retries, have a premise, `KeyKept`: the
merchant uses the key for one kind of operation (Authorize and Charge, or Refund), in
one spelling, and for refunds of one transaction; other merchants may do as they like.
Without it the code has no such property, because the stored response is looked up by
key and merchant alone:

* A key used for refunds of two transactions gets the refund of the first as the
  answer to the second.
* A key used for Authorize and for Refund replays the response of the one to the
  other, where `transaction_id` and `refund_id` do not match and the id is zero. A
  refund under the key of its authorization is answered with a success, a zero
  `refund_id` and the status `authorized`, and nothing has been refunded. The other way
  round: `a` authorizes under `k1`, `c` captures, `f` refunds under `k1` and its entry
  is stored first; `b`, a retry of `a`, is then answered with a success, a zero
  `transaction_id` and the status `processing`, not the same response (`readme.md:379`).
  The workload of `PaymentKeys` reaches both; `KeyKept` takes exactly these out of
  `RetriesAgree`. Among keys that are kept, every success names a row: nothing is
  excepted for having no id. `ResponsesHold`, which is about what a response names, says
  nothing of one that names nothing.

Runs that are expected to find a violation, each a disagreement between the
code and the repository's own documentation:

| Run | Property | What TLC finds |
| --- | --- | --- |
| `ChargeStuck` | `PendingResolved` | `Charge` inserts its row, panics on the nil `GatewayRef` in `callGatewayCapture` and leaves the row pending for ever |
| `DuplicateRefund` | `NoDuplicateRefund` | the lock of a refund waiting for the gateway expires, a second refund reads `captured` and refunds again |
| `KeySpelling` | `OneHoldPerUuid` | two spellings of one UUID, two holds |
| `LostUpdate` | `SuccessNamesTransaction` | the update of a `Capture` that lost its lock matches nothing; the answer is 200 with the zero UUID |
| `SettlementBlocked` | `SettlementsAsDocumented` | an authenticated capture, void or refund is answered 400 by `GetPaymentMeta`: no middleware puts into the context what it asserts |
| `MerchantNoKey` | `MerchantsHaveKeys` | a crash between the two inserts of `Register`: a merchant without a key, whose email cannot be registered again |

Three disagreements have no run. A rejected authorization is answered 402 with an error
body, because the handler drops the output that comes with an error
(`payment_handler.go:41-44`), while its retry, from the stored response, is answered 201
with that output, a `transaction_id` and the status `failed`: two different answers,
where `readme.md:379` promises the same response. `RejectionsStick` does not claim that
they agree; it states what holds all the same: the retry is told that the rejected
transaction has failed, and no other request under the key places a hold. Then the
responses replayed between operations that share a key, above. And several errors are answered with
other codes than `readme.md` lists (lines 434, 536, 538, 600, 602):
`ErrTransactionNotFound`, `ErrInvalidGatewayRef`, `ErrTransactionNotRefundable` and
`redis.Nil` (a lock that is taken) have no entry in the error table and become 500,
`ErrTransactionAlreadyRefunded` becomes 422, and Void's own check for a voided
transaction cannot be reached.

**Bounds.** The only bounds are the sets of the instances; nothing is counted.
Two requests are enough for every race of two handlers, a third makes the lock
change hands under a slow one, the fourth and fifth let both pairs (two
settlements, two refunds) race in one behaviour. A single transaction is enough
for what concerns one transaction, because handlers of different transactions
meet only in the idempotency tables; `PaymentKeys` has up to three transactions
and two merchants for those. `PaymentRace` spends its states on the process instead:
three requests, one per operation that can meet another. `PaymentApi` has six, four of them
to bring two merchants into every stage of their life while the fifth and sixth pay.
`MerchantRace` has five requests: two registrations,
two that activate (or register once more), and one that presents a key. A workload gives every request a small choice of
inputs instead of all of them, to keep the instances small; which choices there
are is in the MC modules. No symmetry is used: requests have different workloads.

**Fairness.** `WF` of the steps of every handler and of every background save:
goroutines that can run do run, and calls return, with an error if need be.
go-redis has time-outs of its own, the background save has one of 5 s
(`payment_idempotency.go:30`) and the mock gateway answers at once;
that a real gateway client returns is an assumption, since the service sets no
deadline for it. `WF` of `expireLock`: Redis drops a key
whose TTL has passed. Arrivals, crashes and the expiry of idempotency entries are
not fair. `"db"` is not among the faults of `PaymentFaults`, because a failing
update does leave a transaction pending; `PaymentSlow` and `PaymentKeys` have it.
`PaymentRace` assumes `WF` of `Main` only: `main` goes on when it can, while handlers,
clients and the supervisor owe nothing, so `ShutdownEnds` holds although handlers may
hang. The other runs check no liveness and assume no fairness.
Without `"slow"`, `expireLock` waits until the holder has finished: the
model's reading of "the handler takes less than 5 s".

## 4. The proofs

`PaymentServiceProofs`, for any sets of requests, merchants and keys, any
workload and (but for one theorem) any faults:

| Theorem | States |
| --- | --- |
| `TypeCorrect` | `Spec => []TypeOK` |
| `OneHold` | `Spec => []OneHoldPerKey` |
| `OwnTransactions` | `Spec => []OwnTransactionsOnly` |
| `NoOtherPanics` | `Spec => []PanicsOnlyInCharge` |
| `MutualExclusion` | `"slow" \notin Faults` implies `Spec => []OneInCritical` |
| `ReleaseIsSafe` | `Spec => OnlyOwnLockReleased` |
| `ImplementsLedger` | `Spec => LedgerSpec`: the service implements `PaymentLedger` |

`SettlementProofs`, about the same specification:

| Theorem | States | Unless |
| --- | --- | --- |
| `ResponsesTrue` | `Spec => []ResponsesHold` | |
| `OneRefund` | `Spec => []OneRefundRow` | `"slow"` |
| `SettledOnlyOnce` | `Spec => []SettledOnce` | `"slow"` |
| `BooksAgree` | `Spec => []EffectsRecorded` | `"slow"` |

`AccountingProofs`, under every fault, handlers that outlive their locks included (but
for the retries, which need `OneRefundRow`):

| Theorem | States |
| --- | --- |
| `PendingHasReason` | `Spec => []PendingAccounted` |
| `TurnedAwayUntouched` | `Spec => []RefusedUntouched` |
| `RefundsTellOneStory` | `Spec => []RefundsBooked` |
| `LocksHaveOwners` | `Spec => []LocksAccounted` |
| `RetriesGiveOneAnswer` | `"slow" \notin Faults` implies `Spec => []RetriesAgree` |
| `RejectionsAreFinal` | `Spec => []RejectionsStick` |
| `HistoryIsKept` | `Spec => HistoryKept` |

`ServerProofs`: `ImplementsService` shows that `ServerSpec` implements
`PaymentService` with `"crash"`, `"db"` and `"redis"` among its faults;
`ServerSettlesOnce` and `ServerRetriesAgree` are the theorems
above, for the process, and so are `ServerKeepsAccounts` (`PendingAccounted`,
`RefundsBooked`, `RefusedUntouched`, `RejectionsStick`) and `ServerImplementsLedger`;
`LocksAccounted` is not among them, since a closed Redis client is a Redis that fails.
`ServerTypeCorrect`, `StoresOpen` and `FailuresAreForced` state `ServerTypeOK`,
`ServedWithStoresOpen` and `FailedByDeadline`, the last two for slow handlers as well.
`ServerBooksAgree` states `EffectsRecorded` for the process, without `"slow"`, together
with `FailedByDeadline`, which says what its exceptions are worth: a request on which a
statement failed is excepted, since gateway and books do disagree about it, and unless
PostgreSQL itself fails that happens only to requests that `Shutdown` has given up
waiting for. Leaving out `"slow"` means that such a handler is taken to hold its lock
still, although it has mostly outlived it by then; with `"slow"` the process has only
what needs no lock, `ServerKeepsAccounts` and `ServerImplementsLedger`.

`PaymentApiProofs`: `ApiImplementsService` and `ApiImplementsMerchants` show that
`ApiSpec` implements both services, and `ApiImplementsAccounts` that it implements
`Accounts`; `ApiTypeCorrect`, `OnlyActiveMerchants`,
`AnswersAreOwn`, `NoEarlyPanic`, and, unless the gateway loses answers,
`OnlyEarnedHolds` and `RefusalsAreClean` state the six properties of the run
`PaymentApi` for any requests, merchants, keys, bodies and environment.

`MerchantServiceProofs` has `MerchantTypeCorrect`, `UniqueEmail`,
`CredentialsHold`, `ActivationAsked` and `AuthenticationIsSound`, which state
`TypeOK`, `OneMerchantPerEmail`, `CredentialsWork`, `ActiveOnRequest` and
`AuthenticatedAreActive` in the same way, and `ImplementsAccounts`
(`Spec => AccountsSpec`).

The theorems rest on the assumptions of `PaymentService`: `Parse` maps headers to UUIDs
or `Nil`, `Nil` is no identifier, a workload holds inputs, faults are of the five
kinds; `PaymentApi` adds that merchant ids are those of registrations, that `Nil` is no
email, that requests are HTTP requests, and that no process dies. The typing of `Input` says that the key of a refund is a UUID, as the type
of `RefundInput.IdempotencyKey` does. TLC evaluates these assumptions on every run.

**The argument.** None of the properties is inductive. The invariant is
`Inv == BasicInv /\ RefInv /\ RowInv /\ UniqueInv /\ EvidenceInv /\ LocalInv /\
EffectInv /\ PanicsOnlyInCharge`:

* `BasicInv` joins `TypeOK` to what a stage says of a request: past `idle` it has
  an input, only a refund reaches `insert`, only the handlers that keep entries
  are in `bg`.
* `RefInv`: a stored reference is the transaction's own, and a row that has been
  authorized has one. This is what makes Refund's unchecked dereference safe.
* `RowInv`, `UniqueInv`: the row a request inserts carries its input, and no two
  rows carry the same key. `OneHold` follows: an authorization is by the request
  that inserted the row, and the row's key is unique.
* `EvidenceInv`: a status has its evidence in `gw` (captured implies a capture,
  and so on). `LocalInv` says the same of what a request at stage `gateway` or
  `update` has read, which stays true while others move the row on: evidence
  never goes away, so the stale snapshot is harmless.
* `EffectInv`: effects are on stored transactions, of the right merchant, by a
  request that asked for them.

`BasicStep`, `RefStep`, `RowsStep`, `EvidenceStep`, `LocalStep`, `EffectStep` and
`PanicStep` prove each part from the invariant and a step; `Invariance` joins
them. `MutualExclusion` has an invariant of its own: a request in its critical
section is the one whose value the lock holds (`HoldsLock`), which only needs
`BasicInv`. `ImplementsLedger` shows that every step maps to one action of
`PaymentLedger` or to a stutter, with `EvidenceInv` and `LocalInv` for the
guards of the abstract actions.

The invariant of `MerchantServiceProofs` adds to the properties that a row's
email is the one its registration came with and that the registration is past its
insert (`RowInv`, so no insert meets its own row), that a key belongs to the
merchant of the same registration (`KeyInv`), and that what a request has read is
still there when it uses it (`LocalInv`). `Growth` is the lemma the rest hangs on:
a step only adds rows or activates merchants, so an answer stays true.

`Accounts` is the merchant service with every request a single statement.
`ImplementsAccounts` maps the insert of the merchant to `Open`, that of the key to
`Issue` (which may or may not hand the secret out, as the reply may be lost), the update
to `Activate` and the last read of a validation to `Admit`; all other steps stutter
(`DirectoryStep`). `Admit` asks for an active account at the very moment of the answer,
although the key was read a step before: `LocalInv` says that what was read is still so.
`KeyFresh` says that no registration meets a key of its own.

The theorems of `SettlementProofs` need three more layers:

* `ClaimInv` is about what is claimed. A refund row is about a transaction that is
  refunded for good (`RefundsInv`), and a refund past its read knows it captured or
  refunded (`RefundInv`). Every answer, in a request (`AnswersInv`) or stored
  (`StoredInv`), is true of a row of its merchant that was made under its key. It is
  inductive under every fault, because a status only moves along the lifecycle
  (`StatusStep`, `SinceStep`): what was true of a row once stays in `Since`.
* `SerialInv` is about what the lock buys. With `HoldsLock`, what a request has read
  is still so when it updates (`MatchInv`), and a refund about to insert its row is
  the first (`NoRowInv`). This is where `"slow"` is excluded.
* `MoneyInv` is about the gateway. An effect on behalf of a request that went through
  is on record or about to be recorded by that request (`RecordInv`), and a request
  that failed has nothing left to do (`FailInv`). A second effect would need the
  transaction in the state the first has taken it from. What is excepted is named per
  request, not per behaviour: `Whole` leaves out a request that was cut short or whose
  answer was lost (the gateway may indeed be asked again for a refund it has made but
  not confirmed), and the theorem holds for all others, among them or after them.

`AccountingProofs` adds one invariant per question, on top of `Inv` and `ClaimInv`, none
of which needs the lock (`RetriesGiveOneAnswer` takes `SerialInv` as well):

* `EndInv`: an error comes with the return and stays. `TraceInv`: a request at an early
  stage, or turned away, has left no trace. `TraceStep` shows that whatever leaves a
  trace is a step past the early stages that does not turn the request away.
* `PendingHeld`: an authorization or a charge at its gateway call or its update still
  finds its row pending, because every other update starts from a later status. So its
  own update matches and ends the pending status, or fails (`UpdateEndsPending`).
* `TargetInv`, `SentInv`: the gateway acts on what its request is about, and a refund is
  booked only after the gateway has made it. `RefundedInv`: behind a refunded transaction
  there is a refund row or a refund that was cut short between its two statements. This
  holds although two slow refunds may both get to the update: the second matches
  nothing and still inserts its row.
* `NamedInv`: what is stored, or about to be, names a row and has the shape of a request
  with that key; a success that names none was replayed from an operation of the other
  shape. With `KeyKept` there is none (`KeptNames`), the row a success names has the key
  (`KeyNamesRow`, `KeyNamesRefund`), and the key has one row: by `UniqueInv` in
  `transactions`, by `OneRefundRow`, so not with `"slow"`, in `refunds`.
* `RejectInv`, `PendingRef`, `PromiseInv`: a rejection leaves a failed row without a
  reference, and a response that promises an accepted authorization names a row with
  one. A reference is written once (`RefKept`), so no answer to a retry can be both.
* `LocksAccounted` is inductive with `BasicInv`: a request leaves its critical section by
  dying or by the deferred `Release` (`LeavingCritical`).
* `HistoryKept` follows from `RefKept` and `StoredKept`. It needs `PendingRef`: the only
  updates that carry a reference are those that start from `pending`.

`ServerProofs` maps every step of the process to one of the payment service: a stop
to `crash`, a step on a closed store to the failing case of the same action
(`HandlerStep`). `StoresOpen` has an invariant of its own (`DrainInv`): once
`Shutdown` has returned without an error nothing is in flight and no connection is left,
and nothing arrives, because the listener was closed first. `FailuresAreForced` adds
that a statement fails only on a closed database (`DatabaseFails`).

`PaymentApiProofs` maps steps the same way, and rests on `PlaceInv`, which relates
where a request is in HTTP, in the merchant service and in the payment service: a
payment request is in the service only with a finished, successful authentication and
the input that was derived from it. `EarnedInv`, `OutcomeInv` and `LeavesInv` add what
the mock accepts, what an error says of the row and the hold of its request, and what
a merchant request leaves behind.

**Only model-checked.** Liveness under fairness (`LockFreed`, `PendingResolved`,
`ShutdownEnds`) stays with TLC: the proof system does not reason about `ENABLED`.
Every safety property and action property of the passing runs is proved.

## 5. What is not modelled

* The webhook simulator in `tools/`: it posts signed events to an endpoint the
  service does not have, and keeps no state.
* Configuration, logging and the set-up of connections: their one decision, to fail,
  is the action `connect` of `Server`.
* The layout of JSON, and the binding rules beyond whether a body is accepted; the
  columns, log fields and timestamps that the code copies and decides nothing by.
* The completion of refunds by webhook and the delivery of webhooks to merchants,
  described in sections 5.4 and 5.5 of `readme.md`, have no code.
* `Server` has no HTTP layer and no merchant service in it, and `PaymentApi` no
  process that dies: each composition is proved to add no behaviour to what it
  composes, and the product of both would only repeat their states.
