---------------------------- MODULE PaymentLedger ---------------------------
(***************************************************************************)
(* What the payment service promises about each transaction, whatever the  *)
(* interleaving of requests and whatever fails: the stored status follows  *)
(* the lifecycle of readme.md section 2.8, it never claims more than the   *)
(* gateway has carried out, and the gateway is never asked for anything    *)
(* about a transaction that is not stored, nor out of order.               *)
(***************************************************************************)
CONSTANT Tx

VARIABLES
    ledger,     \* status of every stored transaction
    effects     \* <<op, t>> once the gateway has carried out op on t

Done(op, t) == <<op, t>> \in effects

Move(t, from, to) ==
    /\ t \in DOMAIN ledger
    /\ ledger[t] = from
    /\ ledger' = [ledger EXCEPT ![t] = to]
    /\ UNCHANGED effects

Open(t) ==
    /\ t \notin DOMAIN ledger
    /\ ledger' = [x \in DOMAIN ledger \cup {t} |->
                    IF x = t THEN "pending" ELSE ledger[x]]
    /\ UNCHANGED effects

Authorize(t) == Done("authorize", t) /\ Move(t, "pending", "authorized")

Capture(t) == Done("capture", t) /\ Move(t, "authorized", "captured")

Void(t) == Done("void", t) /\ Move(t, "authorized", "voided")

Refund(t) == Done("refund", t) /\ Move(t, "captured", "refunded")

Fail(t) == Move(t, "pending", "failed") \/ Move(t, "authorized", "failed")

(* The gateway captures or voids only what it has authorized, and refunds  *)
(* only what it has captured: once or twice, the ledger does not say.      *)
Gateway(op, t) ==
    /\ t \in DOMAIN ledger
    /\ op \in {"capture", "void"} => Done("authorize", t)
    /\ op = "refund" => Done("capture", t)
    /\ effects' = effects \cup {<<op, t>>}
    /\ UNCHANGED ledger

Init ==
    /\ ledger = [t \in {} |-> "pending"]
    /\ effects = {}

Next ==
    \E t \in Tx :
        \/ Open(t) \/ Authorize(t) \/ Capture(t) \/ Void(t) \/ Refund(t) \/ Fail(t)
        \/ \E op \in {"authorize", "capture", "void", "refund"} : Gateway(op, t)

Spec == Init /\ [][Next]_<<ledger, effects>>
=============================================================================
