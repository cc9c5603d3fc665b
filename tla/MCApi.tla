------------------------------- MODULE MCApi --------------------------------
(***************************************************************************)
(* Instances of PaymentApi for TLC.                                        *)
(***************************************************************************)
EXTENDS PaymentApi, TLC

Good == [bound |-> TRUE, card |-> [number |-> "success", valid |-> FALSE],
         amount |-> 100, currency |-> 3]

NotBound == [Good EXCEPT !.bound = FALSE]
WithCard(number, valid) == [Good EXCEPT !.card = [number |-> number, valid |-> valid]]

MerchantCall(route, e) ==
    [NoRequest EXCEPT !.route = route, !.email = e, !.body = Good]
Reg(e) == MerchantCall("register", e)
Act(e) == MerchantCall("activate", e)
Chg(route, apiKey, k, body) ==
    [NoRequest EXCEPT !.route = route, !.apiKey = apiKey, !.key = k, !.body = body]
Settles(route, apiKey, k, t) ==
    [NoRequest EXCEPT !.route = route, !.apiKey = apiKey, !.key = k, !.tx = t]

Headers == {"k1", "junk"}
ParseHeaders == [k \in Headers |-> IF k = "junk" THEN Nil ELSE k]

(* p and q register two merchants, x and y activate them; a authorizes as  *)
(* the first, b sends one of everything as either.                         *)
ApiId == {"p", "q", "x", "y", "a", "b"}
AnyInput == [r \in ApiId |-> Input]
ApiRequests ==
    [r \in ApiId |->
        CASE r = "p" -> {Reg("e1")}
          [] r = "q" -> {Reg("e2")}
          [] r = "x" -> {Act("e1")}
          [] r = "y" -> {Act("e2")}
          [] r = "a" -> {Chg("authorize", "p", "k1", body) :
                            body \in {Good, WithCard("expired", TRUE)}}
          [] OTHER   ->
               {Chg("authorize", k, "k1", Good) : k \in {Nil, "a", "p", "q"}}
               \cup {Chg("authorize", "p", k, Good) : k \in {Nil, "junk"}}
               \cup {Chg("authorize", "p", "k1", body) :
                        body \in {NotBound, WithCard("other", FALSE),
                                  [Good EXCEPT !.amount = 9999]}}
               \cup {Chg("charge", "p", "k1", Good),
                     Settles("capture", "p", Nil, "a"),
                     Settles("refund", "p", "k1", "a"),
                     [Act("e2") EXCEPT !.body = NotBound]}]
=============================================================================
