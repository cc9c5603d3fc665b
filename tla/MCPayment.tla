----------------------------- MODULE MCPayment ------------------------------
(***************************************************************************)
(* Instances of PaymentService for TLC: which requests there are and what  *)
(* each may ask for.                                                       *)
(***************************************************************************)
EXTENDS PaymentService, TLC

Auth(m, k) == [op |-> "authorize", merchant |-> m, key |-> k, tx |-> Nil]
Chg(m, k) == [op |-> "charge", merchant |-> m, key |-> k, tx |-> Nil]
Cap(m, t) == [op |-> "capture", merchant |-> m, key |-> Nil, tx |-> t]
Vd(m, t) == [op |-> "void", merchant |-> m, key |-> Nil, tx |-> t]
Rfd(m, k, t) == [op |-> "refund", merchant |-> m, key |-> k, tx |-> t]

(* Each header spells a UUID of its own, except "junk".                    *)
Headers == {"k1", "k2", "junk"}
ParseHeaders == [k \in Headers |-> IF k = "junk" THEN Nil ELSE k]

(* One transaction of one merchant and every race for it: a authorizes; c  *)
(* and d capture or void; f and g refund.                                  *)
RaceId == {"a", "c", "d", "f", "g"}
RaceWorkload ==
    [r \in RaceId |->
        CASE r = "a"          -> {Auth("m1", "k1")}
          [] r \in {"c", "d"} -> {Cap("m1", "a"), Vd("m1", "a")}
          [] OTHER            -> {Rfd("m1", "k2", "a")}]

(* The same, with fewer requests, for the runs with more faults.           *)
FaultId == {"a", "c", "f", "g"}
FaultWorkload ==
    [r \in FaultId |->
        CASE r = "a" -> {Auth("m1", "k1")}
          [] r = "c" -> {Cap("m1", "a")}
          [] OTHER   -> {Rfd("m1", "k2", "a")}]

(* The same, with handlers that outlive their locks: a capture, a void or  *)
(* a refund, and a refund overtake one another.                            *)
SlowWorkload ==
    [r \in FaultId |->
        CASE r = "a" -> {Auth("m1", "k1")}
          [] r = "c" -> {Cap("m1", "a")}
          [] r = "f" -> {Vd("m1", "a"), Rfd("m1", "k2", "a")}
          [] OTHER   -> {Rfd("m1", "k2", "a")}]

(* Idempotency keys reused by retries, by another merchant and by another  *)
(* operation; requests for a transaction of another merchant; headers that *)
(* are not UUIDs.                                                          *)
KeyId == {"a", "b", "c", "f"}
KeyWorkload ==
    [r \in KeyId |->
        CASE r = "a" -> {Auth("m1", "k1")}
          [] r = "b" -> {Auth("m1", "k1"), Auth("m2", "k1"), Chg("m1", "k1"),
                         Chg("m1", "junk")}
          [] r = "c" -> {Cap("m1", "a"), Cap("m2", "a"), Auth("m1", "k1")}
          [] OTHER   -> {Rfd("m1", "k1", "a"), Rfd("m2", "k2", "a"), Vd("m2", "b")}]

(* A direct charge and a retry of it.                                      *)
ChargeId == {"a", "b"}
ChargeWorkload == [r \in ChargeId |-> {Chg("m1", "k1")}]

(* Two headers that spell the same UUID, in lower and upper case.          *)
Spellings == {"abcd", "ABCD"}
ParseSpellings == [k \in Spellings |-> "abcd"]
SpellingId == {"a", "b"}
SpellingWorkload ==
    [r \in SpellingId |-> {Auth("m1", IF r = "a" THEN "abcd" ELSE "ABCD")}]
=============================================================================
