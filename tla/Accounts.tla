------------------------------ MODULE Accounts ------------------------------
(***************************************************************************)
(* What the merchant service promises to its clients, as if every request  *)
(* were one statement: an account is opened under an email nobody has and  *)
(* stays; a secret belongs to one account for ever, and is stored before   *)
(* it is handed out; a secret is let in only when its account is active at *)
(* that moment, and an activation is never taken back.                     *)
(***************************************************************************)
CONSTANTS Account, Email, Secret

VARIABLES
    emailOf,    \* the email of every account
    active,     \* the accounts that are active
    ownerOf,    \* the account of every secret that is stored
    handedOut,  \* the secrets that clients were given
    admitted    \* <<k, a>> once secret k was let in as account a

Open(a, e) ==
    /\ a \notin DOMAIN emailOf
    /\ \A b \in DOMAIN emailOf : emailOf[b] # e
    /\ emailOf' = [b \in DOMAIN emailOf \cup {a} |-> IF b = a THEN e ELSE emailOf[b]]
    /\ UNCHANGED <<active, ownerOf, handedOut, admitted>>

Issue(k, a) ==
    /\ k \notin DOMAIN ownerOf
    /\ a \in DOMAIN emailOf
    /\ ownerOf' = [j \in DOMAIN ownerOf \cup {k} |-> IF j = k THEN a ELSE ownerOf[j]]
    /\ handedOut' \in {handedOut, handedOut \cup {k}}
    /\ UNCHANGED <<emailOf, active, admitted>>

Activate(a) ==
    /\ a \in DOMAIN emailOf
    /\ active' = active \cup {a}
    /\ UNCHANGED <<emailOf, ownerOf, handedOut, admitted>>

Admit(k) ==
    /\ k \in DOMAIN ownerOf
    /\ ownerOf[k] \in active
    /\ admitted' = admitted \cup {<<k, ownerOf[k]>>}
    /\ UNCHANGED <<emailOf, active, ownerOf, handedOut>>

Init ==
    /\ emailOf = [a \in {} |-> "none"]
    /\ ownerOf = [k \in {} |-> "none"]
    /\ active = {} /\ handedOut = {} /\ admitted = {}

Next ==
    \/ \E a \in Account : Activate(a) \/ \E e \in Email : Open(a, e)
    \/ \E k \in Secret : Admit(k) \/ \E a \in Account : Issue(k, a)

Spec == Init /\ [][Next]_<<emailOf, active, ownerOf, handedOut, admitted>>
=============================================================================
