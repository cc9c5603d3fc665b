------------------------------ MODULE MCServer ------------------------------
(***************************************************************************)
(* Instances of Server for TLC.                                            *)
(***************************************************************************)
EXTENDS Server, TLC

Headers == {"k1", "k2"}
ParseHeaders == [k \in Headers |-> k]

Auth(k) == [op |-> "authorize", merchant |-> "m1", key |-> k, tx |-> Nil]
Cap(t) == [op |-> "capture", merchant |-> "m1", key |-> Nil, tx |-> t]
Vd(t) == [op |-> "void", merchant |-> "m1", key |-> Nil, tx |-> t]
Rfd(k, t) == [op |-> "refund", merchant |-> "m1", key |-> k, tx |-> t]

(* The races for one transaction: a authorizes it, c retries that or       *)
(* settles it, f settles or refunds it.                                    *)
RaceId == {"a", "c", "f"}
RaceWorkload ==
    [r \in RaceId |->
        CASE r = "a" -> {Auth("k1")}
          [] r = "c" -> {Auth("k1"), Cap("a")}
          [] OTHER   -> {Cap("a"), Vd("a"), Rfd("k2", "a")}]
=============================================================================
