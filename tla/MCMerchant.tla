----------------------------- MODULE MCMerchant -----------------------------
(***************************************************************************)
(* Instances of MerchantService for TLC.                                   *)
(***************************************************************************)
EXTENDS MerchantService, TLC

Reg(e) == [op |-> "register", email |-> e, key |-> Nil]
Act(e) == [op |-> "activate", email |-> e, key |-> Nil]
Auth(k) == [op |-> "authenticate", email |-> Nil, key |-> k]

(* Registrations of one email or of two, activations of both, and a client *)
(* that presents the secret of either registration.                        *)
RaceId == {"p", "q", "x", "y", "z"}
RaceWorkload ==
    [r \in RaceId |->
        CASE r = "p" -> {Reg("e1")}
          [] r = "q" -> {Reg("e1"), Reg("e2")}
          [] r = "x" -> {Act("e1")}
          [] r = "y" -> {Act("e1"), Act("e2"), Reg("e1")}
          [] OTHER   -> {Auth("p"), Auth("q"), Auth("z")}]

(* Registrations of one email.                                             *)
SameId == {"p", "q", "x"}
SameWorkload == [r \in SameId |-> {Reg("e1")}]
=============================================================================
