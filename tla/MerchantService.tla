--------------------------- MODULE MerchantService --------------------------
(***************************************************************************)
(* Merchants: registration and activation (internal/service/merchant_*.go) *)
(* and the validation of API keys (internal/service/auth), concurrently    *)
(* over the tables merchants and api_keys of migrations/0001.              *)
(*                                                                         *)
(* Every request is a goroutine, a step is one statement with the local    *)
(* code around it.  Stages of a request:                                   *)
(*    register       find insert key        done                           *)
(*    activate       find update            done                           *)
(*    authenticate   findKey findMerchant   done                           *)
(*                                                                         *)
(* uuid.New() and the secrets of createAPIKey never repeat: the merchant   *)
(* and the secret that a request creates carry its identifier, and         *)
(* SHA-256 tells secrets apart.                                            *)
(***************************************************************************)
EXTENDS Domain

CONSTANTS
    Email,
    Workload,   \* Workload[r]: the inputs request r may come with
    Faults      \* a subset of {"crash", "db"}, as in PaymentService

VARIABLES
    merchants,  \* table merchants
    keys,       \* table api_keys: the merchant_id under the hash of a secret
    pc,         \* the stage each request is in
    input,      \* what it was called with
    found,      \* the merchant id its first query gave it
    out, err    \* what it returns: the id of a merchant, and the error

vars == <<merchants, keys, pc, input, found, out, err>>

(* name, webhook_url, key_prefix and the timestamps are left out; nothing  *)
(* in the code reads or writes revoked_at.                                 *)
MerchantRow == [email : Email, status : MerchantStatus]

(* RegisterInput, the email of Activate, and the X-API-KEY of a request.   *)
Input ==
    [op : {"register", "activate"}, email : Email, key : {Nil}]
    \cup [op : {"authenticate"}, email : {Nil}, key : Id]

NoInput == [op |-> "none", email |-> Nil, key |-> Nil]

Stage == {"idle", "find", "insert", "key", "update", "findKey", "findMerchant",
          "done", "crashed"}

ASSUME NilAssumption == Nil \notin Id \cup Email
ASSUME WorkloadAssumption == Workload \in [Id -> SUBSET Input]
ASSUME FaultsAssumption == Faults \subseteq {"crash", "db"}

Init ==
    /\ merchants = [m \in {} |-> Nil]
    /\ keys = [k \in {} |-> Nil]
    /\ pc = [r \in Id |-> "idle"]
    /\ input = [r \in Id |-> NoInput]
    /\ found = [r \in Id |-> Nil]
    /\ out = [r \in Id |-> Nil]
    /\ err = [r \in Id |-> "nil"]

TypeOK ==
    /\ DOMAIN merchants \subseteq Id
    /\ \A m \in DOMAIN merchants : merchants[m] \in MerchantRow
    /\ DOMAIN keys \subseteq Id
    /\ \A k \in DOMAIN keys : keys[k] \in Id
    /\ pc \in [Id -> Stage]
    /\ input \in [Id -> Input \cup {NoInput}]
    /\ found \in [Id -> Id \cup {Nil}]
    /\ out \in [Id -> Id \cup {Nil}]
    /\ err \in [Id -> Errors]

-----------------------------------------------------------------------------
Goto(r, stage) == pc' = [pc EXCEPT ![r] = stage]

Return(r, e, o) ==
    /\ Goto(r, "done")
    /\ err' = [err EXCEPT ![r] = e]
    /\ out' = [out EXCEPT ![r] = o]

Insert(table, id, row) ==
    [x \in DOMAIN table \cup {id} |-> IF x = id THEN row ELSE table[x]]

(* FindByEmail: the rows WHERE email = e.                                  *)
FindByEmail(e) == {m \in DOMAIN merchants : merchants[m].email = e}

(* Mutant of EmailTaken: unique among active merchants only.               *)
EmailTakenByActive(e) == \E m \in FindByEmail(e) : merchants[m].status = "active"

(* merchants.email is UNIQUE.                                              *)
EmailTaken(e) == FindByEmail(e) # {}

(* A request arrives with one of the inputs its workload allows.           *)
Arrive(r) ==
    /\ pc[r] = "idle"
    /\ \E i \in Workload[r] :
          /\ input' = [input EXCEPT ![r] = i]
          /\ Goto(r, IF i.op = "authenticate" THEN "findKey" ELSE "find")
    /\ UNCHANGED <<merchants, keys, found, out, err>>

(* Register looks for the email first.                                     *)
findExisting(r) ==
    /\ pc[r] = "find"
    /\ input[r].op = "register"
    /\ \/ /\ FindByEmail(input[r].email) = {}
          /\ Goto(r, "insert")
          /\ UNCHANGED <<out, err>>
       \/ /\ FindByEmail(input[r].email) # {}
          /\ Return(r, "ErrMerchantAlreadyExists", Nil)
       \/ "db" \in Faults /\ Return(r, "dbError", Nil)
    /\ UNCHANGED <<merchants, keys, input, found>>

(* Mutant of PendingMerchant: the status is not set.                       *)
NewMerchantNoStatus(r) == [email |-> input[r].email, status |-> ""]

(* mapRegisterMerchant.                                                    *)
PendingMerchant(r) == [email |-> input[r].email, status |-> "pending"]

(* The insert of the merchant.  A violated UNIQUE constraint is reported   *)
(* as gorm.ErrDuplicatedKey, which Register passes on.                     *)
createMerchant(r) ==
    /\ pc[r] = "insert"
    /\ \/ /\ EmailTaken(input[r].email)
          /\ Return(r, "gorm.ErrDuplicatedKey", Nil)
          /\ UNCHANGED merchants
       \/ /\ ~EmailTaken(input[r].email)
          /\ merchants' = Insert(merchants, r, PendingMerchant(r))
          /\ Goto(r, "key")
          /\ UNCHANGED <<out, err>>
       \/ /\ "db" \in Faults
          /\ \/ UNCHANGED merchants
             \/ /\ ~EmailTaken(input[r].email)
                /\ merchants' = Insert(merchants, r, PendingMerchant(r))
          /\ Return(r, "dbError", Nil)
    /\ UNCHANGED <<keys, input, found>>

(* Mutant of KeyFailure: Register goes on without a key.                   *)
KeyFailureIgnored == "nil"

(* What Register returns when the insert of the key fails.                 *)
KeyFailure == "dbError"

(* The insert of the key, in a statement of its own.                       *)
createAPIKey(r) ==
    /\ pc[r] = "key"
    /\ \/ keys' = Insert(keys, r, r) /\ Return(r, "nil", r)
       \/ /\ "db" \in Faults
          /\ keys' \in {keys, Insert(keys, r, r)}
          /\ Return(r, KeyFailure, Nil)
    /\ UNCHANGED <<merchants, input, found>>

(* Activate looks for a pending merchant.  FindByEmail reports an absent   *)
(* row as an error, so the check for nil that follows never holds.         *)
findPending(r) ==
    /\ pc[r] = "find"
    /\ input[r].op = "activate"
    /\ \/ /\ FindByEmail(input[r].email) = {}
          /\ Return(r, "gorm.ErrRecordNotFound", Nil)
          /\ UNCHANGED found
       \/ \E m \in FindByEmail(input[r].email) :
             IF merchants[m].status # "pending"
             THEN Return(r, "ErrMerchantStatusNotAccepted", Nil) /\ UNCHANGED found
             ELSE /\ found' = [found EXCEPT ![r] = m]
                  /\ Goto(r, "update")
                  /\ UNCHANGED <<out, err>>
       \/ "db" \in Faults /\ Return(r, "dbError", Nil) /\ UNCHANGED found
    /\ UNCHANGED <<merchants, keys, input>>

(* Mutant of Activated: UPDATE merchants ... WHERE status = pending.       *)
ActivatedPending(id) ==
    [m \in DOMAIN merchants |->
        IF merchants[m].status = "pending" THEN [merchants[m] EXCEPT !.status = "active"]
        ELSE merchants[m]]

(* UpdateAndReturn: UPDATE merchants SET status = active WHERE id = id.    *)
Activated(id) ==
    [m \in DOMAIN merchants |->
        IF m = id THEN [merchants[m] EXCEPT !.status = "active"] ELSE merchants[m]]

(* The update does not look at the status again.                           *)
updateActive(r) ==
    /\ pc[r] = "update"
    /\ \/ merchants' = Activated(found[r]) /\ Return(r, "nil", found[r])
       \/ /\ "db" \in Faults
          /\ merchants' \in {merchants, Activated(found[r])}
          /\ Return(r, "dbError", Nil)
    /\ UNCHANGED <<keys, input, found>>

(* ValidateAPIKey: the key is looked up by its hash; any failure is an     *)
(* invalid key.                                                            *)
findByHashedKey(r) ==
    /\ pc[r] = "findKey"
    /\ \/ /\ input[r].key \in DOMAIN keys
          /\ found' = [found EXCEPT ![r] = keys[input[r].key]]
          /\ Goto(r, "findMerchant")
          /\ UNCHANGED <<out, err>>
       \/ /\ input[r].key \notin DOMAIN keys \/ "db" \in Faults
          /\ Return(r, "ErrInvalidApiKey", Nil)
          /\ UNCHANGED found
    /\ UNCHANGED <<merchants, keys, input>>

(* Mutant of AuthErr: the status is not looked at.                         *)
AuthErrAnyStatus(row) == "nil"

AuthErr(row) == IF row.status # "active" THEN "ErrMerchantNotActive" ELSE "nil"

(* ValidateAPIKey: then its merchant, who must be active.                  *)
findMerchant(r) ==
    /\ pc[r] = "findMerchant"
    /\ \/ /\ found[r] \in DOMAIN merchants
          /\ LET e == AuthErr(merchants[found[r]])
             IN  Return(r, e, IF e = "nil" THEN found[r] ELSE Nil)
       \/ /\ found[r] \notin DOMAIN merchants
          /\ Return(r, "gorm.ErrRecordNotFound", Nil)
       \/ "db" \in Faults /\ Return(r, "dbError", Nil)
    /\ UNCHANGED <<merchants, keys, input, found>>

(* The steps the handler goroutine of r takes.                             *)
Handler(r) ==
    \/ findExisting(r) \/ createMerchant(r) \/ createAPIKey(r)
    \/ findPending(r) \/ updateActive(r)
    \/ findByHashedKey(r) \/ findMerchant(r)

InFlight(r) == pc[r] \notin {"idle", "done", "crashed"}

(* The process dies and is started again; PostgreSQL keeps what it has.    *)
crash ==
    /\ "crash" \in Faults
    /\ \E r \in Id : InFlight(r)
    /\ pc' = [r \in Id |-> IF InFlight(r) THEN "crashed" ELSE pc[r]]
    /\ UNCHANGED <<merchants, keys, input, found, out, err>>

Next ==
    \/ \E r \in Id : Arrive(r) \/ Handler(r)
    \/ crash

Spec == Init /\ [][Next]_vars

-----------------------------------------------------------------------------
(* Properties.                                                             *)

Answered(r) == pc[r] = "done"

(* Two merchants never share an email, although Register looks for it in   *)
(* one statement and inserts in another: Activate and the merchant's       *)
(* owner rely on the email naming one account.                             *)
OneMerchantPerEmail ==
    \A m, n \in DOMAIN merchants : merchants[m].email = merchants[n].email => m = n

(* A successful answer to Register hands out a secret that works: it is    *)
(* stored, and leads to a merchant with the email of the request.  Failing *)
(* statements, crashes and other registrations do not change that.         *)
CredentialsWork ==
    \A r \in Id : Answered(r) /\ input[r].op = "register" /\ err[r] = "nil" =>
        /\ r \in DOMAIN keys
        /\ keys[r] \in DOMAIN merchants
        /\ merchants[keys[r]].email = input[r].email

(* A merchant is active only if somebody asked for the activation of that  *)
(* merchant's email: the update names the row that was found by the email, *)
(* in another statement, while other merchants come and are activated.     *)
ActiveOnRequest ==
    \A m \in DOMAIN merchants : merchants[m].status = "active" =>
        \E r \in Id : input[r].op = "activate" /\ input[r].email = merchants[m].email

(* ValidateAPIKey lets a key in only as the merchant it was issued to, and *)
(* that merchant is active when the request goes on: the key and the       *)
(* merchant are read in two statements, and no other statement, failure or *)
(* crash takes an activation back.                                         *)
AuthenticatedAreActive ==
    \A r \in Id : Answered(r) /\ input[r].op = "authenticate" /\ err[r] = "nil" =>
        /\ input[r].key \in DOMAIN keys
        /\ keys[input[r].key] = out[r]
        /\ out[r] \in DOMAIN merchants
        /\ merchants[out[r]].status = "active"

(* The registrations and the validations of keys that succeeded.           *)
Credited == {r \in Id : Answered(r) /\ input[r].op = "register" /\ err[r] = "nil"}

LetIn == {r \in Id : Answered(r) /\ input[r].op = "authenticate" /\ err[r] = "nil"}

(* The merchant service implements Accounts: although Register, Activate   *)
(* and ValidateAPIKey each take two statements, which other requests,      *)
(* failures and crashes come between, what their clients see is what they  *)
(* would see if each were a single one.                                    *)
Directory == INSTANCE Accounts WITH
    Account <- Id, Secret <- Id,
    emailOf <- [m \in DOMAIN merchants |-> merchants[m].email],
    active <- {m \in DOMAIN merchants : merchants[m].status = "active"},
    ownerOf <- keys,
    handedOut <- Credited,
    admitted <- {<<input[r].key, out[r]>> : r \in LetIn}

AccountsSpec == Directory!Spec

(* What readme.md says and the code does not do.                           *)

(* readme.md 5.1.1: registration creates a merchant account and issues its *)
(* credentials.  Once no registration is under way, every merchant has a   *)
(* key.                                                                    *)
MerchantsHaveKeys ==
    \A m \in DOMAIN merchants :
        pc[m] \in {"done", "crashed"} => \E k \in DOMAIN keys : keys[k] = m
=============================================================================
