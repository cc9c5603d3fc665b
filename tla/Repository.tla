----------------------------- MODULE Repository -----------------------------
(***************************************************************************)
(* The tables the payment service writes, with the queries of              *)
(* internal/repository and the constraints of migrations/.  A table is a   *)
(* function from the primary keys of its rows to the rows.                 *)
(*                                                                         *)
(* uuid.New() never repeats: the transaction or refund that a request      *)
(* inserts carries the identifier of that request.                         *)
(***************************************************************************)
EXTENDS Domain

CONSTANTS
    Merchant,   \* merchant UUIDs
    RawKey,     \* the Idempotency-Key header as sent, a string
    Uuid        \* what uuid.Parse makes of it

VARIABLES
    txs,        \* table transactions
    idem,       \* table idempotency_keys
    refunds     \* table refunds

tables == <<txs, idem, refunds>>

(* The columns the properties tell apart.  card_*, amount, currency,       *)
(* description, failed_reason and the timestamps are left out.             *)
TxRow == [merchant : Merchant, key : RawKey, type : PaymentType,
          status : TransactionStatus, ref : Id \cup {Nil}]

(* The body of a response, also what idempotency_keys.response holds as    *)
(* JSON: ChargeOutput names its id transaction_id, RefundOutput refund_id. *)
Output == [shape : {"none", "charge", "refund"}, id : Id \cup {Nil},
           status : TransactionStatus \cup RefundStatus \cup {""}]

NoOutput == [shape |-> "none", id |-> Nil, status |-> ""]

(* live is the condition expires_at > NOW().  Nothing deletes a row.       *)
IdemRow == [merchant : Merchant, response : Output, live : BOOLEAN]

RefundRow == [merchant : Merchant, tx : Id, status : RefundStatus]

RepositoryTypeOK ==
    /\ DOMAIN txs \subseteq Id
    /\ \A t \in DOMAIN txs : txs[t] \in TxRow
    /\ DOMAIN idem \subseteq Uuid
    /\ \A k \in DOMAIN idem : idem[k] \in IdemRow
    /\ DOMAIN refunds \subseteq Id
    /\ \A f \in DOMAIN refunds : refunds[f] \in RefundRow

RepositoryInit ==
    /\ txs = [t \in {} |-> Nil]
    /\ idem = [k \in {} |-> Nil]
    /\ refunds = [f \in {} |-> Nil]

(* INSERT of a row under a primary key that is not in the table.           *)
Insert(table, id, row) ==
    [x \in DOMAIN table \cup {id} |-> IF x = id THEN row ELSE table[x]]

(* Mutant of KeyTaken: unique among pending transactions only.             *)
KeyTakenWhilePending(key) ==
    \E t \in DOMAIN txs : txs[t].key = key /\ txs[t].status = "pending"

(* transactions.idempotency_key is UNIQUE over all merchants and compares  *)
(* strings.                                                                *)
KeyTaken(key) == \E t \in DOMAIN txs : txs[t].key = key

(* Mutant of FindByIDAndMerchantID: the merchant is not asked for.         *)
FindByID(t, m) == t \in DOMAIN txs

FindByIDAndMerchantID(t, m) == t \in DOMAIN txs /\ txs[t].merchant = m

(* Mutant of FindByKeyAndMerchantID: the merchant is not asked for.        *)
FindByKey(k, m) == k \in DOMAIN idem /\ idem[k].live

(* idempotency_keys.key is the primary key, for all merchants; the query   *)
(* also asks for the merchant and for an entry that has not expired.       *)
FindByKeyAndMerchantID(k, m) ==
    k \in DOMAIN idem /\ idem[k].merchant = m /\ idem[k].live

(* Mutant of Matches: the update is not conditional on the status.         *)
MatchesId(t, from) == t \in DOMAIN txs

(* UPDATE transactions ... WHERE id = t AND status = from.                 *)
Matches(t, from) == t \in DOMAIN txs /\ txs[t].status = from

(* Mutant of UpdateByQuery: nil fields are written too.                    *)
UpdateAllFields(t, from, to, newRef) ==
    IF Matches(t, from)
    THEN [txs EXCEPT ![t] = [txs[t] EXCEPT !.status = to, !.ref = newRef]]
    ELSE txs

(* The table after that update.  gorm leaves out the nil fields of the     *)
(* struct it is given, so newRef = Nil keeps the stored reference.  An     *)
(* update that matches no row is not an error.                             *)
UpdateByQuery(t, from, to, newRef) ==
    IF Matches(t, from)
    THEN [txs EXCEPT ![t] = [txs[t] EXCEPT !.status = to,
                                           !.ref = IF newRef = Nil THEN @ ELSE newRef]]
    ELSE txs

(* The id that UpdateByQueryAndReturn gives back: RETURNING fills the      *)
(* struct from the updated row, or leaves its id zero when there is none.  *)
ReturnedId(t, from) == IF Matches(t, from) THEN t ELSE Nil
=============================================================================
