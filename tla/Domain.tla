------------------------------- MODULE Domain -------------------------------
(***************************************************************************)
(* The vocabulary of internal/domain and the error table of                *)
(* internal/response: transaction and refund statuses, payment types, and  *)
(* the HTTP status code each error is answered with.  An error value is    *)
(* represented by its Go name; the Go nil error is the string "nil".       *)
(***************************************************************************)

CONSTANTS
    Id,     \* UUIDs of requests, hence of the rows and locks they create
    Nil     \* uuid.Nil, a nil pointer, an absent value

TransactionStatus ==
    {"pending", "authorized", "captured", "failed", "voided", "refunded"}

PaymentType == {"direct_charge", "authorize_capture"}

RefundStatus == {"processing", "completed", "failed"}

MerchantStatus == {"pending", "active", "suspended"}

(* The errors that have a code of their own; any other error is a 500.     *)
NotFound == {"ErrMerchantNotFound", "gorm.ErrRecordNotFound"}

NotAcceptable ==
    {"ErrTokenizeCard", "ErrMerchantAlreadyExists", "ErrMerchantStatusNotAccepted"}

Conflict ==
    {"ErrDuplicateIdempotencyKey", "ErrTransactionAlreadyVoided", "ErrDuplicateRequest"}

Unprocessable == {"ErrTransactionNotCapturable", "ErrTransactionAlreadyRefunded"}

PaymentRequired ==
    {"ErrGatewayRejected", "ErrCardInforInvalid", "ErrCardAmoutInvalid",
     "ErrCardCaptureFailed", "ErrCardDeclinded", "ErrExpiredCard",
     "ErrInsufficientFunds"}

(* Errors the services return that the table does not list.  The last six  *)
(* are not error variables of the repository: gorm.ErrDuplicatedKey,       *)
(* redis.Nil and context.DeadlineExceeded come from libraries, "dbError"   *)
(* and "redisError" stand for any failure of PostgreSQL or Redis, and      *)
(* "panic" for a panic that gin.Recovery turns into a 500.                 *)
Unlisted ==
    {"ErrTransactionNotFound", "ErrInvalidGatewayRef", "ErrTransactionNotRefundable",
     "ErrInvalidApiKey", "ErrMerchantNotActive", "gorm.ErrDuplicatedKey",
     "redis.Nil", "context.DeadlineExceeded", "dbError", "redisError", "panic"}

Errors ==
    {"nil"} \cup NotFound \cup NotAcceptable \cup Conflict \cup Unprocessable
            \cup PaymentRequired \cup Unlisted

(* Mutant of mapErrStatusCode: other errors are the client's fault.        *)
mapErrStatusCodeClient(e) ==
    CASE e \in NotFound        -> 404
      [] e \in NotAcceptable   -> 406
      [] e \in Conflict        -> 409
      [] e \in Unprocessable   -> 422
      [] e \in PaymentRequired -> 402
      [] OTHER                 -> 400

(* The status code an error response carries, in the order of the switch.  *)
mapErrStatusCode(e) ==
    CASE e \in NotFound        -> 404
      [] e \in NotAcceptable   -> 406
      [] e \in Conflict        -> 409
      [] e \in Unprocessable   -> 422
      [] e \in PaymentRequired -> 402
      [] OTHER                 -> 500
=============================================================================
