---------------------------- MODULE MockGateway -----------------------------
(***************************************************************************)
(* The gateway that router.go wires into the payment service:              *)
(* internal/gateway/mock_gateway.go and test_cards.go.  It keeps no state; *)
(* each method is a function from its request to the error it returns,     *)
(* "nil" when it accepts.                                                  *)
(***************************************************************************)
EXTENDS Integers

CONSTANT Develop    \* APP_ENV is "develop"

ASSUME DevelopAssumption == Develop \in BOOLEAN

(* Card numbers are named by their scenario in testCardRegistry; the other *)
(* numbers are "other".  valid is what Validate of go-credit-card, an      *)
(* external library, makes of the card.                                    *)
TestCard == {"success", "declined", "insufficient_funds", "expired"}

Card == [number : TestCard \cup {"other"}, valid : BOOLEAN]

(* What the bodies of Authorize and Charge tell the gateway apart by: the  *)
(* card, the amount, and the length of the currency.  bound is whether     *)
(* ShouldBindJSON accepts the body, which it does not when an amount is 0. *)
(* transactions.currency takes three characters: longer ones get no        *)
(* further than the INSERT and are left out.                               *)
Body == [bound : BOOLEAN, card : Card, amount : Int, currency : 0 .. 3]

scenarioErr ==
    [success |-> "nil", declined |-> "ErrCardDeclinded",
     insufficient_funds |-> "ErrInsufficientFunds", expired |-> "ErrExpiredCard"]

(* Mutant of TokenizeCard: an expired test card is let through.            *)
TokenizeCardLax(card) ==
    IF card.number = "expired" \/ card.valid THEN "nil" ELSE "invalid card"

(* The numbers of test cards mean something in development only.           *)
TokenizeCard(card) ==
    IF Develop /\ card.number \in TestCard THEN scenarioErr[card.number]
    ELSE IF card.valid THEN "nil"
    ELSE "invalid card"

(* Authorize, in the order of its checks.                                  *)
Authorize(body) ==
    CASE body.amount <= 0                                 -> "ErrCardAmoutInvalid"
      [] body.amount > 0 /\ body.currency # 3             -> "ErrCardInforInvalid"
      [] body.amount = 99999 /\ body.currency = 3         -> "ErrCardDeclinded"
      [] body.amount = 9999 /\ body.currency = 3          -> "ErrInsufficientFunds"
      [] OTHER                                            -> "nil"

(* The other calls look for words in the gateway reference: a reference is *)
(* the set of the words it contains.  It and the order id are never empty  *)
(* when the service calls.                                                 *)
gw_mock_001 == {}

Simulated(ref, rejected, timeout) ==
    CASE rejected \in ref                       -> "ErrCardCaptureFailed"
      [] rejected \notin ref /\ timeout \in ref -> "context.DeadlineExceeded"
      [] OTHER                                 -> "nil"

Capture(ref) == Simulated(ref, "FAIL", "TIMEOUT")

Void(ref) == Simulated(ref, "VOID_FAIL", "VOID_TIMEOUT")

Refund(ref, amount) ==
    IF amount <= 0 THEN "ErrCardAmoutInvalid"
    ELSE Simulated(ref, "REFUND_FAIL", "REFUND_TIMEOUT")
=============================================================================
